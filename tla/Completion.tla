------------------------------ MODULE Completion ------------------------------
(***************************************************************************)
(* Asking a model (pkg/llm): Complete of the provider's client, the engine *)
(* that cuts texts into chunks and batches for NLLB, and the tracker that  *)
(* counts requests in memory and in a file all processes share.            *)
(*                                                                         *)
(* A text is the sequence of its segments' lengths in words, a chunk the   *)
(* segments it holds; a service returns for a chunk the chunk itself.  An  *)
(* HTTP answer is one step.                                                *)
(***************************************************************************)
EXTENDS Naturals, Sequences, SequencesExt, FiniteSetsExt

CONSTANTS
    Callers,     \* calls of Complete
    Processes,   \* processes of the local program
    ProcessOf,   \* the process of each call
    Sources,     \* the texts of an NLLB call, in the order the map is walked
    MaxWords,    \* MaxSafeNLLBTokenCount (350 in the code)
    BatchSize,   \* texts in a request (15 in the code)
    MaxAttempts, \* 3 in the code
    Hosts,       \* Hugging Face endpoints (3 in the code)
    Short,       \* whether a reply may lack texts
    MaxClears    \* bound on resets of the statistics

ASSUME CompletionAssumption ==
    /\ IsFiniteSet(Processes)
    /\ Sources \in Seq(Seq(Nat \ {0})) /\ MaxWords \in Nat \ {0}
    /\ BatchSize \in Nat \ {0} /\ MaxAttempts \in Nat \ {0} /\ Hosts \in Nat \ {0}
    /\ ProcessOf \in [Callers -> Processes] /\ Short \in BOOLEAN /\ MaxClears \in Nat

VARIABLES
    asked,       \* the calls
    tracker,     \* TokenTracker of each process: requests counted
    usage,       \* token_usage.json: requests counted, 0 if there is none
    charged,     \* history: requests there have been since the last reset
    clears       \* resets so far

completionVars == <<asked, tracker, usage, charged, clears>>
countVars == <<tracker, usage, charged, clears>>

\* NewClientWithConfig has no case for DeepL: its client is "local".  A custom
\* endpoint is asked the way Claude is.
Keyed     == {"openai", "claude", "gemini", "cloud"}
Providers == Keyed \cup {"ollama", "device", "local"}

Request == [provider : Providers,
            state    : {"idle", "asking", "counting", "answered", "failed"},
            host     : 1 .. Hosts, attempt : 0 .. MaxAttempts - 1,
            erred    : BOOLEAN,   \* lastErr # nil
            plain    : BOOLEAN,   \* OpenAI was asked again without a format
            from     : Nat,       \* texts in the batches that are done
            outputs  : Seq([text : Nat, segments : Seq(Nat)]),
            gap      : BOOLEAN]   \* history: a batch came back with fewer texts

NoRequest == [provider |-> "local", state |-> "idle", host |-> 1, attempt |-> 0,
              erred |-> FALSE, plain |-> FALSE, from |-> 0, outputs |-> <<>>, gap |-> FALSE]

CompletionTypeOK ==
    /\ asked \in [Callers -> Request]
    /\ tracker \in [Processes -> [loaded : BOOLEAN, count : Nat]]
    /\ usage \in Nat /\ charged \in Nat /\ clears \in 0 .. MaxClears

CompletionInit ==
    /\ asked = [c \in Callers |-> NoRequest]
    /\ tracker = [p \in Processes |-> [loaded |-> FALSE, count |-> 0]]
    /\ usage \in 0 .. 1 /\ charged = usage /\ clears = 0
-----------------------------------------------------------------------------
(***************************************************************************)
(* Chunks and batches                                                      *)
(***************************************************************************)
WordsOf(text, held) == FoldSeq(LAMBDA s, n : n + text[s], 0, held)

Fits(text, chunks, s) ==
    chunks # <<>> /\ WordsOf(text, Last(chunks)) + text[s] <= MaxWords

\* Mistake: a full chunk is replaced by the next one instead of kept.
PutInstead(text, chunks, s) ==
    IF Fits(text, chunks, s) THEN [chunks EXCEPT ![Len(chunks)] = Append(@, s)] ELSE <<(<<s>>)>>

Put(text, chunks, s) ==
    IF Fits(text, chunks, s) THEN [chunks EXCEPT ![Len(chunks)] = Append(@, s)]
    ELSE Append(chunks, <<s>>)

\* SplitIntoSafeChunks: segments are packed in order, so that only a chunk of
\* one segment exceeds the limit.
Chunks(text) ==
    LET packed[s \in 0 .. Len(text)] == IF s = 0 THEN <<>> ELSE Put(text, packed[s - 1], s)
    IN packed[Len(text)]

Pieces(k) == [i \in DOMAIN Chunks(Sources[k]) |->
                 [text |-> k, segments |-> Chunks(Sources[k])[i]]]

\* flatTextsToTranslate: the chunks of all texts.
Flat == FlattenSeq([k \in DOMAIN Sources |-> Pieces(k)])

Batch(from) == SubSeq(Flat, from + 1, Min({from + BatchSize, Len(Flat)}))

\* Where the cursor stands at a text: it moves by the chunks of each text,
\* whether there are outputs for them or not.
Cursor(k) == Len(FlattenSeq([j \in 1 .. k - 1 |-> Pieces(j)]))

\* What step 3 of TranslateStringsBatch assembles for a text.
Assembled(outputs, k) ==
    SubSeq(outputs, Cursor(k) + 1, Min({Cursor(k) + Len(Pieces(k)), Len(outputs)}))
-----------------------------------------------------------------------------
(***************************************************************************)
(* A call                                                                  *)
(***************************************************************************)
Becomes(c, request) == asked' = [asked EXCEPT ![c] = request]
Ends(c, state) == asked' = [asked EXCEPT ![c].state = state]
Asking(c, providers) == asked[c].state = "asking" /\ asked[c].provider \in providers

\* Complete: the local engine and a provider without its key are not asked.
Dispatch(c) ==
    /\ asked[c].state = "idle"
    /\ \E p \in Providers, keyed \in BOOLEAN :
          Becomes(c, [NoRequest EXCEPT !.provider = p,
              !.state = IF p = "local" \/ (p \in Keyed /\ ~keyed) THEN "failed" ELSE "asking"])
    /\ UNCHANGED countVars

\* A usable answer of OpenAI, Claude or Gemini.
Replied(c) ==
    /\ Asking(c, {"openai", "claude", "gemini"})
    /\ Ends(c, "counting")
    /\ UNCHANGED countVars

\* The error names a parameter: OpenAI is asked once more without them.
AskPlainly(c) ==
    /\ Asking(c, {"openai"}) /\ ~asked[c].plain
    /\ Becomes(c, [asked[c] EXCEPT !.plain = TRUE, !.attempt = 0])
    /\ UNCHANGED countVars

\* 400, 401 or 403, an answer that cannot be read, or the context is done.
GiveUp(c) ==
    /\ Asking(c, {"openai", "claude", "gemini"})
    /\ Ends(c, "failed")
    /\ UNCHANGED countVars

\* Mistake: the bound on attempts is tested after the wait that follows the last.
HasNoBound(c) == TRUE

HasAnother(c) == asked[c].attempt < MaxAttempts - 1

\* Any other error, and of Gemini an empty answer.
TryAgain(c) ==
    /\ Asking(c, {"openai", "claude", "gemini"})
    /\ IF HasAnother(c) THEN asked' = [asked EXCEPT ![c].attempt = @ + 1]
       ELSE Ends(c, "failed")
    /\ UNCHANGED countVars

\* OllamaComplete asks once and counts nothing.
AskOllama(c) ==
    /\ Asking(c, {"ollama"})
    /\ \E end \in {"answered", "failed"} : Ends(c, end)
    /\ UNCHANGED countVars

\* translateLocal: a server on this machine answers with a text for each, or
\* the call fails; the model file that was downloaded is never used.
AskDevice(c) ==
    /\ Asking(c, {"device"})
    /\ \/ Becomes(c, [asked[c] EXCEPT !.state = "counting", !.outputs = Flat])
       \/ Ends(c, "failed")
    /\ UNCHANGED countVars

\* The outputs of a batch are appended; after the last one texts are assembled.
Received(request, outs) ==
    LET done == request.from + Len(Batch(request.from)) IN
    [request EXCEPT !.outputs = @ \o outs, !.from = done, !.host = 1, !.attempt = 0,
                    !.erred = FALSE,
                    !.gap = @ \/ Len(outs) < Len(Batch(request.from)),
                    !.state = IF done = Len(Flat) THEN "counting" ELSE "asking"]

BatchTranslated(c) ==
    /\ Asking(c, {"cloud"})
    /\ LET batch == Batch(asked[c].from) IN
       \E n \in IF Short THEN 1 .. Len(batch) ELSE {Len(batch)} :
          Becomes(c, Received(asked[c], SubSeq(batch, 1, n)))
    /\ UNCHANGED countVars

\* 401 or 403, an answer of another form, or the context is done in a wait.
BatchRefused(c) ==
    /\ Asking(c, {"cloud"})
    /\ Ends(c, "failed")
    /\ UNCHANGED countVars

\* Mistake: after the last endpoint the first one is asked again.
NextHostAround(request) ==
    [request EXCEPT !.host = IF @ < Hosts THEN @ + 1 ELSE 1, !.attempt = 0]

\* The next endpoint has its attempts; after the last one lastErr is returned,
\* and where there is none an empty batch without an error.
NextHost(request) ==
    CASE request.host < Hosts -> [request EXCEPT !.host = @ + 1, !.attempt = 0]
      [] request.host = Hosts /\ request.erred -> [request EXCEPT !.state = "failed"]
      [] OTHER -> Received(request, <<>>)

\* Another status or a broken connection: the endpoint is left.
HostFails(c) ==
    /\ Asking(c, {"cloud"})
    /\ Becomes(c, NextHost([asked[c] EXCEPT !.erred = TRUE]))
    /\ UNCHANGED countVars

\* 503, the model is loading: the wait is not an error.
HostWarmsUp(c) ==
    /\ Asking(c, {"cloud"})
    /\ Becomes(c, IF HasAnother(c) THEN [asked[c] EXCEPT !.attempt = @ + 1]
                  ELSE NextHost(asked[c]))
    /\ UNCHANGED countVars

-----------------------------------------------------------------------------
(***************************************************************************)
(* The statistics                                                          *)
(***************************************************************************)
Writing(p) == /\ tracker[p].loaded
              /\ \E c \in Callers : ProcessOf[c] = p /\ asked[c].state = "counting"

\* Mistake: the file is not read.
ReadNoUsage(p) == {0}

\* What load finds: another process may just have truncated the file.
ReadUsage(p) == {usage} \cup (IF \E q \in Processes \ {p} : Writing(q) THEN {0} ELSE {})

\* GetGlobalTracker, the first time.
Track(p) ==
    /\ ~tracker[p].loaded
    /\ \E n \in ReadUsage(p) : tracker' = [tracker EXCEPT ![p] = [loaded |-> TRUE, count |-> n]]
    /\ UNCHANGED <<asked, usage, charged, clears>>

\* Record adds to what the process has in memory and saves that.
Count(c) ==
    LET p == ProcessOf[c] IN
    /\ asked[c].state = "counting" /\ tracker[p].loaded
    /\ Ends(c, "answered")
    /\ tracker' = [tracker EXCEPT ![p].count = @ + 1]
    /\ usage' = tracker[p].count + 1
    /\ charged' = charged + 1
    /\ UNCHANGED clears

\* The file is removed; other processes keep their counts.
Clear(p) ==
    /\ tracker[p].loaded /\ clears < MaxClears
    /\ tracker' = [tracker EXCEPT ![p].count = 0]
    /\ usage' = 0 /\ charged' = 0 /\ clears' = clears + 1
    /\ UNCHANGED asked

CallStep(c) ==
    \/ Replied(c) \/ AskPlainly(c) \/ GiveUp(c) \/ TryAgain(c)
    \/ AskOllama(c) \/ AskDevice(c)
    \/ BatchTranslated(c) \/ BatchRefused(c) \/ HostFails(c) \/ HostWarmsUp(c)
    \/ Count(c)

CompletionNext ==
    \/ \E c \in Callers : Dispatch(c) \/ CallStep(c)
    \/ \E p \in Processes : Track(p) \/ Clear(p)

CompletionSpec == CompletionInit /\ [][CompletionNext]_completionVars

\* Every request has a timeout and every wait an end; a call that counts loads
\* the tracker itself.
CompletionFair ==
    /\ CompletionSpec
    /\ \A c \in Callers : WF_completionVars(CallStep(c))
    /\ \A p \in Processes : WF_completionVars(Track(p))
-----------------------------------------------------------------------------
(***************************************************************************)
(* Properties                                                              *)
(***************************************************************************)
Translated(c) == /\ asked[c].provider \in {"cloud", "device"}
                 /\ asked[c].state \in {"counting", "answered"}

\* What a call returns under a key covers the text of the key, all of its
\* segments once and in order, and nothing of another text.
Whole(outputs, k) ==
    /\ \A i \in DOMAIN Assembled(outputs, k) : Assembled(outputs, k)[i].text = k
    /\ FlattenSeq([i \in DOMAIN Assembled(outputs, k) |-> Assembled(outputs, k)[i].segments])
         = [s \in DOMAIN Sources[k] |-> s]

\* However texts are cut and spread over batches, and whatever attempts and
\* endpoints they took: if each batch came back with a text for each text.
TextsReturn ==
    \A c \in Callers : Translated(c) /\ ~asked[c].gap =>
        \A k \in DOMAIN Sources : Whole(asked[c].outputs, k)

\* nllb_engine.go:67 "TranslateStringsBatch translates a map of key ->
\* sourceText": each text that is returned is a translation of its own source.
TextsReturnAlways ==
    \A c \in Callers : Translated(c) =>
        \A k \in DOMAIN Sources : Whole(asked[c].outputs, k)

\* With one process the file has every request since the last reset, those of
\* earlier runs included.
UsageKept == Cardinality({p \in Processes : tracker[p].loaded}) <= 1 => usage = charged

\* Every call ends, whatever providers answer: retries, endpoints and batches
\* are bounded.
CallsEnd ==
    \A c \in Callers : asked[c].state # "idle" ~> asked[c].state \in {"answered", "failed"}

\* All of what a state of the client may be.
CompletionInv == CompletionTypeOK /\ TextsReturn /\ UsageKept
=============================================================================
