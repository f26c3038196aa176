------------------------------ MODULE Translator ------------------------------
(***************************************************************************)
(* One call of TranslateLocale (pkg/agents/translator.go): look every key  *)
(* up, pack the others into batches, ask a model for the batches at the    *)
(* same time, fall back for what is left.                                  *)
(*                                                                         *)
(* The loops over Go maps visit keys in any order, one key per step.  A    *)
(* batch is a goroutine; what it does under the lock is one step.          *)
(***************************************************************************)
EXTENDS Translation

CONSTANTS
    Words,      \* words of each text, at least 1 (countWords)
    Configured, \* settings of the project, 0 where there is none
    Environment,\* LANGPEANUT_CHUNK_WORDS, _KEYS and _CONCURRENCY
    Defaults,   \* the defaults for the provider of the model
    Volunteers, \* keys that a model may answer without being asked for them
    Remembered  \* texts that earlier calls may have left in the memory

Limits == {"words", "keys", "calls"}

ASSUME TranslatorAssumption ==
    /\ Words \in [Texts -> Nat \ {0}]
    /\ Configured \in [Limits -> Int] /\ Environment \in [Limits -> Int]
    /\ Defaults \in [Limits -> Nat \ {0}]
    /\ Volunteers \subseteq Keys \cup {Unasked}
    /\ Remembered \subseteq Texts

VARIABLES
    at,       \* the part of the function the call is in
    todo,     \* keys the current loop has not visited
    call,     \* what the function was called with
    result,   \* result.Entries
    uncached, \* keys that still have no value
    memory,   \* translation memory of the locale
    before,   \* history: memory when the call began
    chunk,    \* currentChunk and currentWordCount
    batches,  \* chunks
    stage,    \* what the goroutine of each batch is doing
    tries,    \* attempts a batch has made
    cancelled \* the context is done

callVars == <<call, before>>
loopVars == <<at, todo>>
chunkVars == <<chunk, batches>>
askVars  == <<stage, tries>>
mapVars  == <<result, uncached, memory>>
vars == <<callVars, loopVars, chunkVars, askVars, mapVars, cancelled>>

MaxTries == 3

\* getEffectiveChunkSettings: the first setting that is positive counts.
Effective(limit) ==
    IF Configured[limit] > 0 THEN Configured[limit]
    ELSE IF Environment[limit] > 0 THEN Environment[limit]
    ELSE Defaults[limit]

AllKeys == Keys \cup {Unasked}     \* a model may also make up a key
Memory  == Texts \cup {Unasked}
NoChunk == [keys |-> {}, words |-> 0]
Stages  == {"queued", "asking", "backoff", "answered", "spent", "stopped"}
Over    == {"answered", "spent", "stopped"}

TextOf(k, batch) == IF k \in batch THEN Source[k] ELSE Unasked

TranslatorInit ==
    /\ at = "look" /\ todo = Keys
    /\ call \in Call
    /\ memory \in [Memory -> {None} \cup [of : Texts, by : {"earlier", "legacy"}, form : {"whole"}]]
    /\ \A t \in Memory : memory[t] # None => t \in Remembered /\ memory[t].of = t
    /\ before = memory
    /\ result = [k \in AllKeys |-> None]
    /\ uncached = {}
    /\ chunk = NoChunk /\ batches = {}
    /\ stage = [b \in {} |-> "queued"] /\ tries = [b \in {} |-> 0]
    /\ cancelled = FALSE

-----------------------------------------------------------------------------
\* Mistake: a key that the critic flagged is looked up in the memory all the same.
FoundRegardless(k) == Lookup(k, memory, [call EXCEPT !.feedback = {}])

Found(k) == Lookup(k, memory, call)

\* The first loop: a key gets the value the lookup finds or stays uncached.
Look(k) ==
    /\ at = "look" /\ k \in todo
    /\ todo' = todo \ {k}
    /\ LET found == Found(k) IN
       IF found = None
       THEN uncached' = uncached \cup {k} /\ UNCHANGED <<result, memory>>
       ELSE /\ result' = [result EXCEPT ![k] = found]
            /\ memory' = IF found.by = "dictionary"
                         THEN [memory EXCEPT ![Source[k]] = found] ELSE memory
            /\ UNCHANGED uncached
    /\ UNCHANGED <<callVars, at, chunkVars, askVars, cancelled>>

LooksDone ==
    /\ at = "look" /\ todo = {}
    /\ at' = IF uncached # {} /\ ~call.offline THEN "pack" ELSE "fallback"
    /\ todo' = uncached
    /\ UNCHANGED <<callVars, chunkVars, askVars, mapVars, cancelled>>

Overflows(k) ==
    /\ chunk.keys # {}
    /\ \/ chunk.words + Words[Source[k]] > Effective("words")
       \/ Cardinality(chunk.keys) >= Effective("keys")

\* chunkMapByWordBudget puts the key in the current chunk or in a new one.
Pack(k) ==
    /\ at = "pack" /\ k \in todo
    /\ todo' = todo \ {k}
    /\ LET full == Overflows(k)
           room == IF full THEN NoChunk ELSE chunk IN
       /\ batches' = IF full THEN batches \cup {chunk.keys} ELSE batches
       /\ chunk' = [keys  |-> room.keys \cup {k},
                    words |-> room.words + Words[Source[k]]]
    /\ UNCHANGED <<callVars, at, askVars, mapVars, cancelled>>

\* Mistake: the chunk in hand at the end of the loop is dropped.
FullChunks == batches

AllChunks == batches \cup {chunk.keys}

\* The last chunk is appended and a goroutine is started for each.
Packed ==
    /\ at = "pack" /\ todo = {}
    /\ batches' = AllChunks
    /\ chunk' = NoChunk
    /\ stage' = [b \in batches' |-> "queued"]
    /\ tries' = [b \in batches' |-> 0]
    /\ at' = "ask"
    /\ UNCHANGED <<callVars, todo, mapVars, cancelled>>

Go(b, to) == stage' = [stage EXCEPT ![b] = to]

\* Mistake: a goroutine that is cancelled keeps its slot.
KeepsSlot(b) == stage[b] \in {"asking", "backoff", "stopped"}

\* The semaphore is held from the first attempt until the goroutine returns.
HoldsSlot(b) == stage[b] \in {"asking", "backoff"}

Acquire(b) ==
    /\ stage[b] = "queued"
    /\ Cardinality({c \in batches : HoldsSlot(c)}) < Effective("calls")
    /\ Go(b, "asking")
    /\ UNCHANGED <<callVars, loopVars, chunkVars, tries, mapVars, cancelled>>

\* Mistake: an answer is stored under the text of its key in the source.
StoresByKey(b, answer, last) ==
    [t \in Memory |->
        IF \E k \in DOMAIN answer : IF k \in Keys THEN Source[k] = t ELSE t = Unasked
        THEN answer[CHOOSE k \in DOMAIN answer : IF k \in Keys THEN Source[k] = t ELSE t = Unasked]
        ELSE memory[t]]

\* Memory.Set for each answer; last is the key stored last for each text.
Stored(b, answer, last) ==
    [t \in Memory |-> IF t \in DOMAIN last THEN answer[last[t]] ELSE memory[t]]

\* Mistake: answered keys are not taken off the list of the others.
StillUncached(keys) == uncached

StillWithout(keys) == uncached \ keys

(***************************************************************************)
(* The model answers with any nonempty map: it may leave out keys of the   *)
(* batch and add keys of its own, for which batch[k] is the empty text.    *)
(* Of answers for one text the memory keeps the last one of the loop.      *)
(***************************************************************************)
Answered(b) ==
    /\ stage[b] = "asking"
    /\ \E keys \in SUBSET (b \cup Volunteers) \ {{}} :
       \E answer \in [keys -> UNION {Answers(TextOf(k, b)) : k \in keys}] :
       \E last \in [{TextOf(k, b) : k \in keys} -> keys] :
          /\ \A k \in keys : answer[k].of = TextOf(k, b)
          /\ \A t \in DOMAIN last : TextOf(last[t], b) = t
          /\ result' = [k \in AllKeys |-> IF k \in keys THEN answer[k] ELSE result[k]]
          /\ memory' = Stored(b, answer, last)
          /\ uncached' = StillWithout(keys)
    /\ Go(b, "answered")
    /\ UNCHANGED <<callVars, loopVars, chunkVars, tries, cancelled>>

\* The call fails, times out, or answers with no object or an empty one.
Refused(b) ==
    /\ stage[b] = "asking"
    /\ tries' = [tries EXCEPT ![b] = @ + 1]
    /\ Go(b, "backoff")
    /\ UNCHANGED <<callVars, loopVars, chunkVars, mapVars, cancelled>>

HasAttempt(b) == tries[b] < MaxTries

\* The wait is over; it also follows the last attempt.
Retry(b) ==
    /\ stage[b] = "backoff"
    /\ Go(b, IF HasAttempt(b) THEN "asking" ELSE "spent")
    /\ UNCHANGED <<callVars, loopVars, chunkVars, tries, mapVars, cancelled>>

Stop(b) ==
    /\ stage[b] = "backoff" /\ cancelled
    /\ Go(b, "stopped")
    /\ UNCHANGED <<callVars, loopVars, chunkVars, tries, mapVars, cancelled>>

Asked ==
    /\ at = "ask" /\ \A b \in batches : stage[b] \in Over
    /\ at' = "fallback"
    /\ todo' = uncached
    /\ UNCHANGED <<callVars, chunkVars, askVars, mapVars, cancelled>>

\* The last loop: whatever has no value gets one, which is remembered.
FallBack(k) ==
    /\ at = "fallback" /\ k \in todo
    /\ todo' = todo \ {k}
    /\ result' = [result EXCEPT ![k] = Fallback(Source[k])]
    /\ memory' = [memory EXCEPT ![Source[k]] = Fallback(Source[k])]
    /\ UNCHANGED <<callVars, at, chunkVars, askVars, uncached, cancelled>>

Return ==
    /\ at = "fallback" /\ todo = {}
    /\ at' = "done"
    /\ UNCHANGED <<callVars, todo, chunkVars, askVars, mapVars, cancelled>>

Cancel ==
    /\ ~cancelled /\ at # "done"
    /\ cancelled' = TRUE
    /\ UNCHANGED <<callVars, loopVars, chunkVars, askVars, mapVars>>

Goroutine(b) == Acquire(b) \/ Answered(b) \/ Refused(b) \/ Retry(b) \/ Stop(b)

Loop == (\E k \in Keys : Look(k) \/ Pack(k) \/ FallBack(k))
        \/ LooksDone \/ Packed \/ Asked \/ Return

TranslatorNext == Loop \/ (\E b \in batches : at = "ask" /\ Goroutine(b)) \/ Cancel

TranslatorSpec == TranslatorInit /\ [][TranslatorNext]_vars
TranslatorFair ==
    /\ TranslatorSpec
    /\ WF_vars(Loop)
    /\ \A b \in SUBSET Keys : WF_vars(b \in batches /\ at = "ask" /\ Goroutine(b))

-----------------------------------------------------------------------------
TranslatorTypeOK ==
    /\ at \in {"look", "pack", "ask", "fallback", "done"}
    /\ todo \subseteq Keys /\ uncached \subseteq Keys /\ call \in Call
    /\ result \in [AllKeys -> Value \cup {None}]
    /\ memory \in [Memory -> Value \cup {None}]
    /\ before \in [Memory -> Value \cup {None}]
    /\ chunk \in [keys : SUBSET Keys, words : Nat]
    /\ batches \subseteq SUBSET Keys
    /\ at \in {"look", "pack"} \/ stage \in [batches -> Stages]
    /\ at \in {"look", "pack"} \/ tries \in [batches -> 0 .. MaxTries]
    /\ cancelled \in BOOLEAN

\* When the call returns every key has a value, and for each key it is one
\* the order of lookup allows or one that a model volunteered for that key.
ReturnsAsPromised ==
    at = "done" => \A k \in Keys :
        result[k] \in MayReturn(k, before, call) \cup Answers(Unasked)

\* A key falls back online only after a model was asked for it in vain: its
\* batch was answered without it, failed three times, or was cancelled.
FallbackAfterAsking ==
    at \in {"fallback", "done"} /\ ~call.offline => \A k \in uncached :
        \E b \in batches : /\ k \in b
                           /\ stage[b] = "stopped" => cancelled
                           /\ stage[b] = "spent" => tries[b] = MaxTries
                           /\ stage[b] \in Over

\* The memory holds under a text only values made for that text, whatever
\* keys the models answer with; the entry of the empty text is the exception.
MemoryFaithful == \A t \in Texts : memory[t] # None => memory[t].of = t

\* All of what a state of a call may be, but for what it returns.
TranslatorInv == TranslatorTypeOK /\ FallbackAfterAsking /\ MemoryFaithful

\* What a model has answered for a key is replaced by another answer at most,
\* and never by a value made without a model.
AnswersKept ==
    [][\A k \in Keys : result[k] # None =>
          result'[k] = result[k] \/ result'[k].by = "model"]_vars

\* The call returns, whatever the models do.
Returns == <>(at = "done")
=============================================================================
