--------------------------- MODULE TranslatorProofs ---------------------------
(***************************************************************************)
(* What holds of Translator, Download and Completion for any keys, texts,  *)
(* limits, models, mirrors, endpoints, processes and callers.              *)
(***************************************************************************)
EXTENDS Translator, Download, Completion, SequenceProofs, FiniteSetTheorems

(***************************************************************************)
(* Download.  While nobody fetches at the same time as another, there is   *)
(* one who does, the temporary path names his file, and the model is not   *)
(* his file.                                                               *)
(***************************************************************************)
Streams(f) == fetch[f].state = "streaming"

\* A file that has not been made yet.
Future(i) == LET f == i[1] IN
    \/ i[2] > fetch[f].mirror
    \/ i[2] = fetch[f].mirror /\ fetch[f].state \in {"idle", "asking"}

Named ==
    /\ \A f \in Fetchers : Streams(f) =>
          fetch[f].out \in Inodes /\ content[fetch[f].out] \in [1 .. Blocks -> (1 .. Mirrors) \cup {Absent}]
    /\ temp # Absent => ~Future(temp)
    /\ model # Absent => ~Future(model)

\* One call at a time writes the file from its first block to its last.
Alone ==
    ~together =>
        /\ \A f, g \in Fetchers : Streams(f) /\ Streams(g) => f = g
        /\ \A f \in Fetchers : Streams(f) =>
              /\ fetch[f].out = temp /\ model # temp
              /\ \A b \in 1 .. fetch[f].done : content[temp][b] = fetch[f].mirror

DownloadRec == DownloadTypeOK /\ Named /\ Alone /\ ModelWhole /\ NothingLeft

FetchState == [state : {"idle", "asking", "streaming", "returned", "failed"},
         mirror : 1 .. Mirrors, out : Inodes \cup {Absent}, done : 0 .. Blocks]

LEMMA DownloadInitRec == DownloadInit => DownloadRec
<1> SUFFICES ASSUME DownloadInit PROVE DownloadRec
  OBVIOUS
<1>1. [state |-> "idle", mirror |-> 1, out |-> Absent, done |-> 0] \in FetchState
  BY DownloadAssumption DEF FetchState
<1>2. fetch \in [Fetchers -> FetchState] /\ content \in [Inodes -> {Absent}]
  BY <1>1 DEF DownloadInit
<1>3. DownloadTypeOK
  BY <1>2 DEF DownloadInit, DownloadTypeOK, FetchState
<1> QED
  BY <1>3 DEF DownloadInit, DownloadRec, Named, Alone, ModelWhole, NothingLeft, Streams, Fetching

\* What a step makes of a call f, when it is not streaming after it.
Quits(f, r) ==
    /\ r \in FetchState /\ fetch' = [fetch EXCEPT ![f] = r]
    /\ r.state # "streaming"
    /\ \/ r.mirror > fetch[f].mirror
       \/ r.mirror = fetch[f].mirror /\ (r.state \in {"idle", "asking"} => ~Streams(f))
                                     /\ (fetch[f].state \in {"idle", "asking"} \/ r.state \notin {"idle", "asking"})

LEMMA NextQuits ==
    ASSUME DownloadRec, NEW f \in Fetchers, fetch[f].state \in {"asking", "streaming"}, NextMirror(f)
    PROVE  \E r \in FetchState : Quits(f, r) /\ r.state # "returned"
<1>1. fetch \in [Fetchers -> FetchState] /\ fetch[f] \in FetchState
  BY DEF DownloadRec, DownloadTypeOK, FetchState
<1> DEFINE a == [fetch[f] EXCEPT !.state = "failed", !.out = Absent]
           b == [fetch[f] EXCEPT !.state = "asking", !.mirror = fetch[f].mirror + 1, !.out = Absent, !.done = 0]
<1>2. CASE fetch[f].mirror = Mirrors
  <2>1. fetch' = [fetch EXCEPT ![f] = a]
    BY <1>1, <1>2 DEF NextMirror
  <2>2. a \in FetchState
    BY <1>1 DEF FetchState
  <2>3. a.state = "failed" /\ a.mirror = fetch[f].mirror
    BY <1>1 DEF FetchState
  <2> QED
    BY <2>1, <2>2, <2>3 DEF Quits
<1>3. CASE fetch[f].mirror # Mirrors
  <2>1. fetch' = [fetch EXCEPT ![f] = b]
    <3>1. fetch' = [fetch EXCEPT ![f] = IF fetch[f].mirror = Mirrors THEN a ELSE b]
      BY DEF NextMirror
    <3> HIDE DEF a, b
    <3> QED
      BY <1>3, <3>1
  <2>2. fetch[f].mirror \in 1 .. Mirrors /\ Mirrors \in Nat /\ 0 \in 0 .. Blocks
    BY <1>1, DownloadAssumption DEF FetchState
  <2>3. fetch[f].mirror + 1 \in 1 .. Mirrors
    BY <1>3, <2>2
  <2>4. b \in FetchState
    BY <1>1, <2>2, <2>3 DEF FetchState
  <2>5. b.state = "asking" /\ b.mirror = fetch[f].mirror + 1
    BY <1>1 DEF FetchState
  <2> HIDE DEF b
  <2>6. b.mirror > fetch[f].mirror
    BY <2>2, <2>5
  <2>7. Quits(f, b)
    BY <2>1, <2>4, <2>5, <2>6 DEF Quits
  <2> QED
    BY <2>4, <2>5, <2>7
<1> QED
  BY <1>2, <1>3

\* A call that quits, with or without the temporary file, leaves the rest alone.
LEMMA QuitKeeps ==
    ASSUME DownloadRec, NEW f \in Fetchers, NEW r \in FetchState, Quits(f, r),
           UNCHANGED <<content, together>>, cut \in BOOLEAN, cut' \in BOOLEAN, cut => cut',
           \/ temp' = temp /\ ~Streams(f)
           \/ temp' = Absent /\ Streams(f),
           \/ model' = model
           \/ model' = temp /\ temp # Absent /\ Streams(f) /\ (~cut' => fetch[f].done = Blocks),
           r.state = "returned" => model' # Absent
    PROVE  DownloadRec'
<1>0. /\ fetch \in [Fetchers -> FetchState] /\ fetch[f] \in FetchState /\ fetch'[f] = r
      /\ \A g \in Fetchers \ {f} : fetch'[g] = fetch[g]
      /\ fetch' \in [Fetchers -> FetchState]
      /\ Mirrors \in Nat /\ Blocks \in Nat
  BY DownloadAssumption DEF DownloadRec, DownloadTypeOK, FetchState, Quits
<1>1. DownloadTypeOK'
  BY <1>0 DEF DownloadRec, DownloadTypeOK, FetchState
<1>2. \A g \in Fetchers : (fetch'[g].state = "streaming") => Streams(g) /\ g # f
  BY <1>0 DEF Streams, Quits
<1>3. ASSUME NEW i \in Inodes, ~Future(i) PROVE ~Future(i)'
  <2>1. i[1] \in Fetchers /\ i[2] \in 1 .. Mirrors
    BY DEF Inodes
  <2>2. CASE i[1] # f
    BY <1>0, <1>3, <2>1, <2>2 DEF Future
  <2>3. CASE i[1] = f
    <3>1. r.mirror \in 1 .. Mirrors /\ fetch[f].mirror \in 1 .. Mirrors
      BY <1>0 DEF FetchState
    <3> QED
      BY <1>0, <1>3, <2>1, <2>3, <3>1 DEF Future, Quits, Streams
  <2> QED
    BY <2>2, <2>3
<1>4. Named'
  <2>1. model' # Absent => model' \in Inodes /\ ~Future(model')
    BY DEF DownloadRec, Named, DownloadTypeOK
  <2>2. temp' # Absent => temp' \in Inodes /\ ~Future(temp')
    BY DEF DownloadRec, Named, DownloadTypeOK
  <2>3. model' # Absent => ~Future(model)'
    BY <1>3, <2>1 DEF Future
  <2>4. temp' # Absent => ~Future(temp)'
    BY <1>3, <2>2 DEF Future
  <2>5. \A g \in Fetchers : Streams(g)' =>
          fetch'[g].out \in Inodes /\ content'[fetch'[g].out] \in [1 .. Blocks -> (1 .. Mirrors) \cup {Absent}]
    BY <1>0, <1>2 DEF DownloadRec, Named, Streams
  <2> QED
    BY <2>3, <2>4, <2>5 DEF Named
<1>5. Alone'
  <2>1. ASSUME ~together PROVE \A g \in Fetchers : fetch'[g].state = "streaming" => ~Streams(f)
    BY <1>2, <2>1 DEF DownloadRec, Alone
  <2> QED
    BY <1>0, <1>2, <2>1 DEF DownloadRec, Alone, Streams
<1>6. ModelWhole'
  <2>1. CASE model' = model
    BY <2>1 DEF DownloadRec, ModelWhole
  <2>2. CASE model' = temp /\ temp # Absent /\ Streams(f) /\ (~cut' => fetch[f].done = Blocks)
    <3> SUFFICES ASSUME ~cut', ~together
                 PROVE  \E m \in 1 .. Mirrors : content[temp] = [b \in 1 .. Blocks |-> m]
      BY <2>2 DEF ModelWhole
    <3>1. fetch[f].mirror \in 1 .. Mirrors /\ fetch[f].out = temp
          /\ content[temp] \in [1 .. Blocks -> (1 .. Mirrors) \cup {Absent}]
          /\ \A b \in 1 .. Blocks : content[temp][b] = fetch[f].mirror
      BY <1>0, <2>2 DEF DownloadRec, Named, Alone, FetchState
    <3>2. content[temp] = [b \in 1 .. Blocks |-> fetch[f].mirror]
      BY <3>1
    <3> QED
      BY <3>1, <3>2
  <2> QED
    BY <2>1, <2>2
<1>7. NothingLeft'
  <2>1. ASSUME \A g \in Fetchers : fetch'[g].state # "streaming" PROVE temp' = Absent
    BY <1>0, <2>1 DEF DownloadRec, NothingLeft, Fetching, Streams
  <2>2. ASSUME NEW g \in Fetchers, fetch'[g].state = "returned" PROVE model' # Absent
    BY <1>0, <2>2 DEF DownloadRec, NothingLeft
  <2> QED
    BY <2>1, <2>2 DEF NothingLeft, Fetching
<1> QED
  BY <1>1, <1>4, <1>5, <1>6, <1>7 DEF DownloadRec

LEMMA DownloadStepRec == DownloadRec /\ [DownloadNext]_downloadVars => DownloadRec'
<1>1. ASSUME DownloadRec, UNCHANGED downloadVars PROVE DownloadRec'
  BY <1>1 DEF downloadVars, DownloadRec, DownloadTypeOK, Named, Alone, ModelWhole, NothingLeft,
     Streams, Future, Fetching
<1>2. ASSUME DownloadRec, NEW f \in Fetchers,
             \/ Ensure(f) \/ MirrorFails(f) \/ CreateFails(f) \/ MirrorAnswers(f) \/ Write(f)
             \/ StreamFails(f) \/ Abandon(f) \/ Install(f)
      PROVE  DownloadRec'
  <2>0. /\ fetch \in [Fetchers -> FetchState] /\ fetch[f] \in FetchState /\ cut \in BOOLEAN /\ together \in BOOLEAN
        /\ temp \in Inodes \cup {Absent} /\ model \in Inodes \cup {Absent}
        /\ content \in [Inodes -> {Absent} \cup [1 .. Blocks -> (1 .. Mirrors) \cup {Absent}]]
        /\ Mirrors \in Nat \ {0} /\ Blocks \in Nat \ {0} /\ Absent \notin Inodes
    BY <1>2, DownloadAssumption DEF DownloadRec, DownloadTypeOK, FetchState
  <2>1. CASE Ensure(f)
    <3> DEFINE s == IF Downloaded THEN "returned" ELSE "asking"
               r == [fetch[f] EXCEPT !.state = s]
    <3>1. fetch' = [fetch EXCEPT ![f] = r] /\ fetch[f].state = "idle"
          /\ UNCHANGED <<content, temp, model, cut, together>>
      BY <2>0, <2>1 DEF Ensure
    <3>2. r \in FetchState /\ r.state = s /\ r.mirror = fetch[f].mirror
      BY <2>0 DEF FetchState
    <3>3. Quits(f, r)
      BY <3>1, <3>2 DEF Quits, Streams
    <3>4. r.state = "returned" => model # Absent
      BY <3>2 DEF Downloaded
    <3> HIDE DEF r
    <3> QED
      BY <1>2, <2>0, <3>1, <3>2, <3>3, <3>4, QuitKeeps DEF Streams
  <2>7. CASE CreateFails(f)
    <3> DEFINE r == [fetch[f] EXCEPT !.state = "failed"]
    <3>1. fetch' = [fetch EXCEPT ![f] = r] /\ fetch[f].state = "asking"
          /\ UNCHANGED <<content, temp, model, cut, together>>
      BY <2>0, <2>7 DEF CreateFails
    <3>2. r \in FetchState /\ r.state = "failed" /\ r.mirror = fetch[f].mirror
      BY <2>0 DEF FetchState
    <3>3. Quits(f, r)
      BY <3>1, <3>2 DEF Quits, Streams
    <3> HIDE DEF r
    <3> QED
      BY <1>2, <2>0, <3>1, <3>2, <3>3, QuitKeeps DEF Streams
  <2>2. CASE MirrorFails(f)
    <3>1. NextMirror(f) /\ fetch[f].state = "asking" /\ UNCHANGED <<content, temp, model, cut, together>>
      BY <2>2 DEF MirrorFails
    <3>2. PICK r \in FetchState : Quits(f, r) /\ r.state # "returned"
      BY <1>2, <3>1, NextQuits
    <3> QED
      BY <1>2, <2>0, <3>1, <3>2, QuitKeeps DEF Streams
  <2>3. CASE StreamFails(f)
    <3>1. NextMirror(f) /\ fetch[f].state = "streaming" /\ temp' = Absent
          /\ UNCHANGED <<content, model, cut, together>>
      BY <2>3 DEF StreamFails, RemoveTemp
    <3>2. PICK r \in FetchState : Quits(f, r) /\ r.state # "returned"
      BY <1>2, <3>1, NextQuits
    <3> QED
      BY <1>2, <2>0, <3>1, <3>2, QuitKeeps DEF Streams
  <2>4. CASE Abandon(f) \/ Install(f)
    <3> DEFINE r(s) == [fetch[f] EXCEPT !.state = s, !.out = Absent]
               TooShort == fetch[f].done < Blocks
    <3>1. ASSUME NEW s \in {"failed", "returned"}
          PROVE  r(s) \in FetchState /\ r(s).state = s /\ r(s).mirror = fetch[f].mirror
      BY <2>0, <3>1 DEF FetchState
    <3>2. PICK s \in {"failed", "returned"} :
            /\ fetch' = [fetch EXCEPT ![f] = r(s)] /\ temp' = Absent
            /\ s = "returned" => model' = temp /\ temp # Absent
            /\ s = "failed" => model' = model
            /\ cut' = cut \/ cut' = (cut \/ TooShort)
            /\ s = "returned" => cut' = (cut \/ TooShort)
      <4>1. CASE Abandon(f)
        <5>1. fetch' = [fetch EXCEPT ![f] = r("failed")]
          BY <2>0, <4>1 DEF Abandon
        <5> HIDE DEF r
        <5> QED
          BY <4>1, <5>1 DEF Abandon, RemoveTemp
      <4>2. CASE Install(f) /\ temp = Absent
        <5>1. fetch' = [fetch EXCEPT ![f] = r("failed")]
          BY <2>0, <4>2 DEF Install
        <5> HIDE DEF r
        <5> QED
          BY <4>2, <5>1 DEF Install
      <4>3. CASE Install(f) /\ temp # Absent
        <5>1. fetch' = [fetch EXCEPT ![f] = r("returned")]
          BY <2>0, <4>3 DEF Install
        <5> HIDE DEF r
        <5> QED
          BY <4>3, <5>1 DEF Install
      <4> QED
        BY <2>4, <4>1, <4>2, <4>3
    <3>3. Quits(f, r(s)) /\ Streams(f) /\ UNCHANGED <<content, together>>
      BY <2>4, <3>1, <3>2 DEF Quits, Abandon, Install, Streams
    <3>4. fetch[f].done \in 0 .. Blocks
      BY <2>0 DEF FetchState
    <3>5. cut' \in BOOLEAN /\ (cut => cut') /\ (s = "returned" /\ ~cut' => fetch[f].done = Blocks)
      <4>1. ~TooShort => fetch[f].done = Blocks
        BY <2>0, <3>4
      <4>2. TooShort \in BOOLEAN
        OBVIOUS
      <4> HIDE DEF TooShort, r
      <4>3. cut' \in BOOLEAN /\ (cut => cut') /\ (s = "returned" /\ ~cut' => ~TooShort)
        BY <2>0, <3>2, <4>2
      <4> QED
        BY <4>1, <4>3
    <3> HIDE DEF r
    <3> QED
      BY <1>2, <2>0, <3>1, <3>2, <3>3, <3>5, QuitKeeps
  <2>5. CASE MirrorAnswers(f)
    <3> DEFINE i == IF temp # Absent THEN temp ELSE <<f, fetch[f].mirror>>
               r == [fetch[f] EXCEPT !.state = "streaming", !.out = i, !.done = 0]
    <3>1. fetch' = [fetch EXCEPT ![f] = r] /\ content' = [content EXCEPT ![i] = Empty] /\ temp' = i
          /\ together' = (together \/ Fetching # {}) /\ UNCHANGED <<model, cut>>
          /\ fetch[f].state = "asking"
      BY <2>0, <2>5 DEF MirrorAnswers
    <3>2. i \in Inodes /\ Empty \in [1 .. Blocks -> (1 .. Mirrors) \cup {Absent}] /\ i # Absent
      <4>1. Empty \in [1 .. Blocks -> (1 .. Mirrors) \cup {Absent}]
        BY DEF Empty
      <4>2. fetch[f].mirror \in 1 .. Mirrors
        BY <2>0 DEF FetchState
      <4>3. <<f, fetch[f].mirror>> \in Inodes
        BY <4>2 DEF Inodes
      <4> QED
        BY <2>0, <4>1, <4>3
    <3>3. r \in FetchState /\ r.state = "streaming" /\ r.out = i /\ r.done = 0 /\ r.mirror = fetch[f].mirror
      <4>1. 0 \in 0 .. Blocks /\ i \in Inodes \cup {Absent}
        BY <2>0, <3>2
      <4> HIDE DEF i
      <4> QED
        BY <2>0, <4>1 DEF FetchState
    <3>4. temp = Absent => i = <<f, fetch[f].mirror>> /\ Future(i)
      BY <3>1 DEF Future
    <3> HIDE DEF i, r
    <3>5. /\ fetch' \in [Fetchers -> FetchState] /\ fetch'[f] = r
          /\ \A g \in Fetchers \ {f} : fetch'[g] = fetch[g]
      BY <2>0, <3>1, <3>3
    <3>6. DownloadTypeOK'
      BY <2>0, <3>1, <3>2, <3>5 DEF DownloadTypeOK, FetchState
    <3>7. ASSUME NEW j \in Inodes, ~Future(j) \/ j = i PROVE ~Future(j)'
      <4>1. j[1] \in Fetchers /\ j[2] \in 1 .. Mirrors
        BY DEF Inodes
      <4>2. fetch[f].mirror \in 1 .. Mirrors
        BY <2>0 DEF FetchState
      <4>3. ~Future(j) => ~Future(j)'
        BY <3>3, <3>5, <4>1, <4>2 DEF Future
      <4>4. j = i => ~Future(j)'
        <5>1. CASE temp = Absent
          BY <3>3, <3>4, <3>5, <4>2, <5>1 DEF Future
        <5>2. CASE temp # Absent
          BY <1>2, <4>3, <5>2 DEF i, DownloadRec, Named
        <5> QED
          BY <5>1, <5>2
      <4> QED
        BY <3>7, <4>3, <4>4
    <3>8. Named'
      <4>1. ~Future(temp)'
        BY <3>1, <3>2, <3>7 DEF Future
      <4>2. model' # Absent => ~Future(model)'
        <5>1. model # Absent => ~Future(model)' 
          BY <1>2, <2>0, <3>1, <3>7 DEF DownloadRec, Named, Future
        <5> QED
          BY <3>1, <5>1
      <4>3. ASSUME NEW g \in Fetchers, Streams(g)'
            PROVE  fetch'[g].out \in Inodes
                   /\ content'[fetch'[g].out] \in [1 .. Blocks -> (1 .. Mirrors) \cup {Absent}]
        BY <1>2, <2>0, <3>1, <3>2, <3>3, <3>5, <4>3 DEF DownloadRec, Named, Streams
      <4> QED
        BY <4>1, <4>2, <4>3 DEF Named
    <3>9. ASSUME ~together' PROVE temp = Absent /\ (\A g \in Fetchers : ~Streams(g)) /\ model # i
      <4>1. Fetching = {}
        BY <2>0, <3>1, <3>9
      <4>2. temp = Absent
        BY <1>2, <4>1 DEF DownloadRec, NothingLeft
      <4>3. model # i
        BY <1>2, <3>2, <3>4, <4>2 DEF DownloadRec, Named
      <4> QED
        BY <4>1, <4>2, <4>3 DEF Fetching, Streams
    <3>10. Alone'
      <4> SUFFICES ASSUME ~together' PROVE Alone'
        BY DEF Alone
      <4>1. \A g \in Fetchers : Streams(g)' => g = f
        BY <3>5, <3>9 DEF Streams
      <4> QED
        BY <3>1, <3>3, <3>5, <3>9, <4>1 DEF Alone, Streams
    <3>11. ModelWhole'
      BY <1>2, <2>0, <3>1, <3>9 DEF DownloadRec, ModelWhole
    <3>12. NothingLeft'
      BY <1>2, <3>1, <3>3, <3>5 DEF DownloadRec, NothingLeft, Fetching
    <3> QED
      BY <3>6, <3>8, <3>10, <3>11, <3>12 DEF DownloadRec
  <2>6. CASE Write(f)
    <3> DEFINE o == fetch[f].out
               d == fetch[f].done + 1
               r == [fetch[f] EXCEPT !.done = d]
               c == [content[o] EXCEPT ![d] = fetch[f].mirror]
    <3>1. /\ fetch' = [fetch EXCEPT ![f] = r] /\ content' = [content EXCEPT ![o] = c]
          /\ UNCHANGED <<temp, model, cut, together>> /\ Streams(f) /\ fetch[f].done < Blocks
      BY <2>0, <2>6 DEF Write, Streams
    <3>2. /\ o \in Inodes /\ content[o] \in [1 .. Blocks -> (1 .. Mirrors) \cup {Absent}]
          /\ d \in 1 .. Blocks /\ fetch[f].mirror \in 1 .. Mirrors
      <4>1. fetch[f].done \in 0 .. Blocks /\ fetch[f].mirror \in 1 .. Mirrors
        BY <2>0 DEF FetchState
      <4>2. d \in 1 .. Blocks
        BY <2>0, <3>1, <4>1
      <4> QED
        BY <1>2, <3>1, <4>1, <4>2 DEF DownloadRec, Named
    <3>3. /\ c \in [1 .. Blocks -> (1 .. Mirrors) \cup {Absent}] /\ c[d] = fetch[f].mirror
          /\ \A b \in 1 .. Blocks : b # d => c[b] = content[o][b]
      BY <3>2
    <3>4. r \in FetchState /\ r.state = fetch[f].state /\ r.out = o /\ r.done = d /\ r.mirror = fetch[f].mirror
      <4>1. d \in 0 .. Blocks
        BY <3>2
      <4> HIDE DEF d
      <4> QED
        BY <2>0, <4>1 DEF FetchState
    <3> HIDE DEF r, c
    <3>5. /\ fetch' \in [Fetchers -> FetchState] /\ fetch'[f] = r
          /\ \A g \in Fetchers \ {f} : fetch'[g] = fetch[g]
          /\ \A g \in Fetchers : fetch'[g].state = fetch[g].state /\ fetch'[g].mirror = fetch[g].mirror
                                 /\ fetch'[g].out = fetch[g].out
      BY <2>0, <3>1, <3>4
    <3>6. DownloadTypeOK'
      BY <2>0, <3>1, <3>2, <3>3, <3>5 DEF DownloadTypeOK, FetchState
    <3>7. content' \in [Inodes -> {Absent} \cup [1 .. Blocks -> (1 .. Mirrors) \cup {Absent}]]
          /\ content'[o] = c /\ \A j \in Inodes : j # o => content'[j] = content[j]
      BY <2>0, <3>1, <3>2, <3>3
    <3>8. Named'
      <4>1. ASSUME NEW j \in Inodes, ~Future(j) PROVE ~Future(j)'
        BY <3>5, <4>1 DEF Future, Inodes
      <4>2. (temp' # Absent => ~Future(temp)') /\ (model' # Absent => ~Future(model)')
        BY <1>2, <2>0, <3>1, <4>1 DEF DownloadRec, Named, Future
      <4>3. ASSUME NEW g \in Fetchers, Streams(g)'
            PROVE  fetch'[g].out \in Inodes
                   /\ content'[fetch'[g].out] \in [1 .. Blocks -> (1 .. Mirrors) \cup {Absent}]
        <5>1. /\ fetch[g].out \in Inodes /\ fetch'[g].out = fetch[g].out
              /\ content[fetch[g].out] \in [1 .. Blocks -> (1 .. Mirrors) \cup {Absent}]
          BY <1>2, <3>5, <4>3 DEF DownloadRec, Named, Streams
        <5>2. CASE fetch[g].out = o
          BY <3>3, <3>7, <5>1, <5>2
        <5>3. CASE fetch[g].out # o
          BY <3>7, <5>1, <5>3
        <5> QED
          BY <5>2, <5>3
      <4> QED
        BY <4>2, <4>3 DEF Named
    <3>9. Alone'
      <4> SUFFICES ASSUME ~together
                   PROVE  /\ \A g, h \in Fetchers : Streams(g)' /\ Streams(h)' => g = h
                          /\ \A g \in Fetchers : Streams(g)' =>
                                /\ fetch'[g].out = temp /\ model # temp
                                /\ \A b \in 1 .. fetch'[g].done : content'[temp][b] = fetch'[g].mirror
        BY <3>1 DEF Alone
      <4>1. /\ \A g \in Fetchers : Streams(g)' => g = f
            /\ o = temp /\ model # temp /\ \A b \in 1 .. fetch[f].done : content[temp][b] = fetch[f].mirror
        BY <1>2, <3>1, <3>5 DEF DownloadRec, Alone, Streams
      <4>2. \A b \in 1 .. d : content'[temp][b] = fetch[f].mirror
        <5> SUFFICES ASSUME NEW b \in 1 .. d PROVE c[b] = fetch[f].mirror
          BY <3>7, <4>1
        <5>1. fetch[f].done \in Nat /\ b \in 1 .. Blocks
          BY <2>0, <3>2 DEF FetchState
        <5>2. b = d \/ b \in 1 .. fetch[f].done
          BY <5>1
        <5> QED
          BY <3>3, <4>1, <5>1, <5>2
      <4> QED
        BY <3>4, <3>5, <4>1, <4>2
    <3>10. ModelWhole'
      <4> SUFFICES ASSUME model # Absent, ~cut, ~together
                   PROVE  content'[model] = content[model]
        BY <1>2, <3>1 DEF DownloadRec, ModelWhole
      <4>1. o = temp /\ model # temp
        BY <1>2, <3>1 DEF DownloadRec, Alone
      <4> QED
        BY <2>0, <3>7, <4>1
    <3>11. NothingLeft'
      BY <1>2, <3>1, <3>5 DEF DownloadRec, NothingLeft, Fetching
    <3> QED
      BY <3>6, <3>8, <3>9, <3>10, <3>11 DEF DownloadRec
  <2> QED
    BY <1>2, <2>1, <2>2, <2>3, <2>4, <2>5, <2>6, <2>7
<1> QED
  BY <1>1, <1>2 DEF DownloadNext

\* However many calls fetch the model, whichever mirrors break off and whoever
\* gives up: a call that returned has a model, no temporary file outlives the
\* calls, and the model is the whole file of one mirror, unless two calls met
\* or a mirror ended its answer early.
THEOREM DownloadIsSound == DownloadSpec => []DownloadInv
<1>1. DownloadRec => DownloadInv
  BY DEF DownloadRec, DownloadInv
<1> QED
  BY <1>1, DownloadInitRec, DownloadStepRec, PTL DEF DownloadSpec
-----------------------------------------------------------------------------
(***************************************************************************)
(* Completion.  A call has the pieces of the batches that are done, and    *)
(* all of them when it stops asking.                                       *)
(***************************************************************************)
Piece == [text : Nat, segments : Seq(Nat)]

HasPieces(r) ==
    /\ r.from <= Len(Flat)
    /\ r.provider = "cloud" /\ ~r.gap => r.outputs = SubSeq(Flat, 1, r.from)
    /\ r.provider = "cloud" /\ r.state \in {"counting", "answered"} => r.from = Len(Flat)
    /\ r.provider = "device" /\ r.state \in {"counting", "answered"} => r.outputs = Flat

OneProcess == \A p, q \in Processes : tracker[p].loaded /\ tracker[q].loaded => p = q

\* What a process that is alone has counted is what the file says.
Counted ==
    OneProcess => /\ usage = charged
             /\ \A p \in Processes : tracker[p].loaded => tracker[p].count = usage

CompletionRec == /\ CompletionTypeOK /\ Counted
                 /\ \A c \in Callers : HasPieces(asked[c])

\* Of how Chunks and Flat cut the texts, the steps only need that the pieces of
\* a text make up the text.
CutsWhole == Flat \in Seq(Piece) /\ \A k \in DOMAIN Sources : Whole(Flat, k)

\* The first n segments.
UpTo(n) == [s \in 1 .. n |-> s]

LEMMA UpToNext ==
    ASSUME NEW n \in Nat
    PROVE  UpTo(n) \in Numbers /\ UpTo(n + 1) = UpTo(n) \o <<n + 1>>
<1>1. /\ UpTo(n) \in Seq(Nat) /\ UpTo(n + 1) \in Seq(Nat) /\ <<n + 1>> \in Seq(Nat)
      /\ Len(UpTo(n)) = n /\ Len(UpTo(n + 1)) = n + 1
      /\ Len(<<n + 1>>) = 1 /\ <<n + 1>>[1] = n + 1
      /\ \A s \in 1 .. n : UpTo(n)[s] = s
      /\ \A s \in 1 .. n + 1 : UpTo(n + 1)[s] = s
  BY DEF UpTo
<1> DEFINE u == UpTo(n)
           v == UpTo(n + 1)
           o == <<n + 1>>
           uo == u \o o
<1> HIDE DEF u, v, o, uo
<1>2. /\ u \in Seq(Nat) /\ v \in Seq(Nat) /\ o \in Seq(Nat) /\ uo = u \o o
      /\ Len(u) = n /\ Len(v) = n + 1 /\ Len(o) = 1 /\ o[1] = n + 1
      /\ (\A s \in 1 .. n : u[s] = s) /\ (\A s \in 1 .. n + 1 : v[s] = s)
  BY <1>1 DEF u, v, o, uo
<1>3. uo \in Seq(Nat) /\ Len(uo) = Len(u) + Len(o)
      /\ (\A i \in 1 .. Len(u) : uo[i] = u[i]) /\ (\A i \in 1 .. Len(o) : uo[Len(u) + i] = o[i])
  <2>1. u \in Seq(Nat) /\ o \in Seq(Nat) /\ uo = u \o o
    BY <1>2
  <2> QED
    BY ONLY <2>1, Concatenated
<1>4. Len(uo) = n + 1 /\ uo[n + 1] = n + 1 /\ \A i \in 1 .. n : uo[i] = i
  BY <1>2, <1>3
<1>5. \A i \in 1 .. n + 1 : v[i] = uo[i]
  <2>1. \A i \in 1 .. n + 1 : i \in 1 .. n \/ i = n + 1
    OBVIOUS
  <2> QED
    BY <1>2, <1>4, <2>1
<1>6. v = uo
  BY ONLY <1>2, <1>3, <1>4, <1>5, n \in Nat, SeqEqual
<1> QED
  BY <1>1, <1>6 DEF u, v, o, uo, Numbers

\* A segment goes into the last chunk or into one of its own; the chunks hold
\* what they held and the segment.
LEMMA PutKeeps ==
    ASSUME NEW text, NEW n \in Nat, NEW chunks \in Seq(Numbers), FlattenSeq(chunks) = UpTo(n)
    PROVE  LET next == Put(text, chunks, n + 1)
           IN  next \in Seq(Numbers) /\ FlattenSeq(next) = UpTo(n + 1)
<1> DEFINE o == <<n + 1>>
           next == Put(text, chunks, n + 1)
<1>1. o \in Numbers /\ UpTo(n) \in Numbers /\ UpTo(n + 1) = UpTo(n) \o o
  BY UpToNext DEF Numbers
<1>2. CASE ~Fits(text, chunks, n + 1)
  <2>1. next = Append(chunks, o)
    BY <1>2 DEF Put
  <2> HIDE DEF o, next
  <2>2. Append(chunks, o) \in Seq(Numbers) /\ FlattenSeq(Append(chunks, o)) = FlattenSeq(chunks) \o o
    BY <1>1, NumbersFlatten, AppendProperties
  <2> QED
    BY <1>1, <2>1, <2>2 DEF next
<1>3. CASE Fits(text, chunks, n + 1)
  <2>1. chunks # <<>>
    BY <1>3 DEF Fits
  <2>2. PICK c \in Seq(Numbers), w \in Numbers : chunks = Append(c, w)
    BY <2>1, SequenceEmptyOrAppend
  <2> DEFINE x == Append(w, n + 1)
  <2>3. x \in Numbers /\ x = w \o o
    BY AppendIsConcat DEF Numbers
  <2>4. /\ Len(c) \in Nat /\ Len(chunks) = Len(c) + 1 /\ chunks[Len(c) + 1] = w
        /\ \A i \in 1 .. Len(c) : chunks[i] = c[i]
    BY <2>2, AppendProperties
  <2>5. next = [chunks EXCEPT ![Len(chunks)] = x]
    <3>1. chunks[Len(chunks)] = w
      BY <2>4
    <3>2. next = [chunks EXCEPT ![Len(chunks)] = Append(chunks[Len(chunks)], n + 1)]
      BY <1>3 DEF Put
    <3> QED
      BY <3>1, <3>2
  <2> HIDE DEF x, o, next
  <2>6. next = Append(c, x)
    <3> DEFINE d == Append(c, x)
    <3>1. d \in Seq(Numbers) /\ Len(d) = Len(c) + 1 /\ d[Len(c) + 1] = x
          /\ \A i \in 1 .. Len(c) : d[i] = c[i]
      BY <2>3, AppendProperties
    <3>2. next \in Seq(Numbers) /\ Len(next) = Len(c) + 1 /\ next[Len(c) + 1] = x
          /\ \A i \in 1 .. Len(c) : next[i] = c[i]
      <4>1. DOMAIN chunks = 1 .. Len(c) + 1 /\ Len(chunks) \in 1 .. Len(chunks)
        BY <2>4
      <4>2. next \in Seq(Numbers) /\ Len(next) = Len(chunks)
        BY <2>3, <2>5, <4>1, ExceptSeq
      <4> QED
        BY <2>4, <2>5, <4>1, <4>2
    <3> HIDE DEF d
    <3>3. \A i \in 1 .. Len(c) + 1 : next[i] = d[i]
      <4>1. \A i \in 1 .. Len(c) + 1 : i \in 1 .. Len(c) \/ i = Len(c) + 1
        BY <2>4
      <4> QED
        BY <3>1, <3>2, <4>1
    <3>4. next = d
      BY ONLY <2>4, <3>1, <3>2, <3>3, SeqEqual
    <3> QED
      BY <3>4 DEF d
  <2>7. /\ FlattenSeq(next) = FlattenSeq(c) \o x /\ UpTo(n) = FlattenSeq(c) \o w
        /\ FlattenSeq(c) \in Numbers /\ next \in Seq(Numbers)
    BY <2>2, <2>3, <2>6, NumbersFlatten, AppendProperties
  <2>8. FlattenSeq(next) = UpTo(n) \o o
    <3> DEFINE f == FlattenSeq(c)
               fw == f \o w
    <3>1. f \in Seq(Nat) /\ w \in Seq(Nat) /\ o \in Seq(Nat) /\ fw = f \o w /\ x = w \o o
      BY <1>1, <2>3, <2>7 DEF Numbers
    <3>2. fw = UpTo(n) /\ FlattenSeq(next) = f \o x
      BY <2>7
    <3> HIDE DEF f, fw
    <3>3. fw \o o = f \o x
      BY ONLY <3>1, Associate
    <3> QED
      BY <3>2, <3>3
  <2> QED
    BY <1>1, <2>7, <2>8 DEF next
<1> QED
  BY <1>2, <1>3

Packing(text) ==
    CHOOSE h : h = [s \in 0 .. Len(text) |-> IF s = 0 THEN <<>> ELSE Put(text, h[s - 1], s)]

\* The chunks of a text, segment by segment.
LEMMA PackingExists ==
    ASSUME NEW text, Len(text) \in Nat
    PROVE  \E h : h = [s \in 0 .. Len(text) |-> IF s = 0 THEN <<>> ELSE Put(text, h[s - 1], s)]
<1> DEFINE Up(n) == \E h : h = [s \in 0 .. n |-> IF s = 0 THEN <<>> ELSE Put(text, h[s - 1], s)]
           T == {n \in Nat : Up(n)}
<1>1. Up(0)
  <2> WITNESS [s \in 0 .. 0 |-> <<>>]
  <2> QED
    OBVIOUS
<1>2. ASSUME NEW n \in Nat, Up(n) PROVE Up(n + 1)
  <2>1. PICK h : h = [s \in 0 .. n |-> IF s = 0 THEN <<>> ELSE Put(text, h[s - 1], s)]
    BY <1>2
  <2> DEFINE g == [s \in 0 .. n + 1 |-> IF s = 0 THEN <<>> ELSE Put(text, h[s - 1], s)]
  <2>2. \A s \in 0 .. n + 1 : s # 0 => s - 1 \in 0 .. n
    OBVIOUS
  <2>3. \A s \in 0 .. n : g[s] = h[s]
    <3>1. \A s \in 0 .. n : h[s] = IF s = 0 THEN <<>> ELSE Put(text, h[s - 1], s)
      BY <2>1
    <3> QED
      BY <3>1
  <2>4. g = [s \in 0 .. n + 1 |-> IF s = 0 THEN <<>> ELSE Put(text, g[s - 1], s)]
    BY <2>2, <2>3
  <2> QED
    BY <2>4
<1>3. 0 \in T /\ \A n \in Nat : n \in T => n + 1 \in T
  <2> HIDE DEF Up
  <2> QED
    BY <1>1, <1>2
<1>4. \A n \in Nat : n \in T
  <2> HIDE DEF T
  <2> QED
    BY <1>3, Induction
<1> QED
  BY <1>4

\* The chunks of a text hold its segments, each once and in order.
LEMMA ChunksCover ==
    ASSUME NEW text, Len(text) \in Nat
    PROVE  Chunks(text) \in Seq(Numbers) /\ FlattenSeq(Chunks(text)) = UpTo(Len(text))
<1> DEFINE R(i) == Packing(text)[i]
           Good(i) == R(i) \in Seq(Numbers) /\ FlattenSeq(R(i)) = UpTo(i)
           T == {n \in Nat : Good(n)}
<1>1. Chunks(text) = R(Len(text))
  BY DEF Chunks, Packing
<1>2. \A i \in 0 .. Len(text) : R(i) = IF i = 0 THEN <<>> ELSE Put(text, R(i - 1), i)
  <2>1. Packing(text) = [s \in 0 .. Len(text) |->
                           IF s = 0 THEN <<>> ELSE Put(text, Packing(text)[s - 1], s)]
    BY PackingExists DEF Packing
  <2> QED
    BY <2>1
<1>3. Good(0)
  <2>1. R(0) = <<>>
    BY <1>2
  <2>2. UpTo(0) = <<>>
    BY DEF UpTo
  <2> QED
    BY <2>1, <2>2, NumbersFlatten
<1>4. ASSUME NEW n \in 0 .. Len(text) - 1, Good(n) PROVE Good(n + 1)
  <2>1. n + 1 \in 0 .. Len(text) /\ n + 1 # 0 /\ (n + 1) - 1 = n /\ n \in Nat
    OBVIOUS
  <2>2. R(n + 1) = Put(text, R(n), n + 1)
    BY <1>2, <2>1
  <2> HIDE DEF R
  <2>3. Put(text, R(n), n + 1) \in Seq(Numbers) /\ FlattenSeq(Put(text, R(n), n + 1)) = UpTo(n + 1)
    BY <1>4, <2>1, PutKeeps
  <2> QED
    BY <2>2, <2>3
<1>5. \A n \in 0 .. Len(text) : n \in T
  <2>1. 0 \in T /\ \A n \in 0 .. Len(text) - 1 : n \in T => n + 1 \in T
    <3> HIDE DEF Good
    <3> QED
      BY <1>3, <1>4
  <2> HIDE DEF T
  <2> QED
    BY <2>1, InductionUpTo
<1>6. Len(text) \in T
  BY <1>5
<1> QED
  BY <1>1, <1>6

Lists == Seq(Piece)

LEMMA ListsFlatten ==
    /\ \A s \in Seq(Lists) : FlattenSeq(s) \in Lists
    /\ \A s \in Seq(Lists), e \in Lists : FlattenSeq(Append(s, e)) = FlattenSeq(s) \o e
    /\ \A s, t \in Seq(Lists) : FlattenSeq(s \o t) = FlattenSeq(s) \o FlattenSeq(t)
<1>1. <<>> \in Lists
  BY EmptySeq DEF Lists
<1> QED
  BY <1>1, FlattenAppend, FlattenConcat DEF Lists

\* The part in the middle.
LEMMA Middle ==
    ASSUME NEW S, NEW a \in Seq(S), NEW p \in Seq(S), NEW b \in Seq(S),
           NEW ap, ap = a \o p, NEW w, w = ap \o b
    PROVE  /\ w \in Seq(S) /\ Len(w) = Len(a) + Len(p) + Len(b)
           /\ SubSeq(w, Len(a) + 1, Len(a) + Len(p)) = p
<1>1. PICK l \in Nat, m \in Nat, n \in Nat : l = Len(a) /\ m = Len(p) /\ n = Len(b)
  OBVIOUS
<1>2. ap \in Seq(S) /\ Len(ap) = Len(a) + Len(p) /\ \A i \in 1 .. Len(p) : ap[Len(a) + i] = p[i]
  BY Concatenated
<1>3. w \in Seq(S) /\ Len(w) = Len(ap) + Len(b) /\ \A i \in 1 .. Len(ap) : w[i] = ap[i]
  BY <1>2, Concatenated
<1> DEFINE q == SubSeq(w, l + 1, l + m)
<1>4. q \in Seq(S) /\ Len(q) = m /\ \A j \in 1 .. m : q[j] = w[j + l]
  <2>1. l + 1 \in 1 .. Len(w) + 1 /\ l + m \in (l + 1) - 1 .. Len(w)
    BY <1>1, <1>2, <1>3
  <2>2. /\ q \in Seq(S) /\ Len(q) = (l + m) - (l + 1) + 1
        /\ \A j \in 1 .. (l + m) - (l + 1) + 1 : q[j] = w[j + (l + 1) - 1]
    BY <1>3, <2>1, SubSeqIs
  <2> HIDE DEF q
  <2>3. (l + m) - (l + 1) + 1 = m /\ \A j \in 1 .. m : j + (l + 1) - 1 = j + l
    OBVIOUS
  <2> QED
    BY <2>2, <2>3
<1> HIDE DEF q
<1>5. \A j \in 1 .. m : q[j] = p[j]
  <2> SUFFICES ASSUME NEW j \in 1 .. m PROVE q[j] = p[j]
    OBVIOUS
  <2>1. j + l = l + j /\ l + j \in 1 .. Len(ap) /\ j \in 1 .. Len(p)
    BY <1>1, <1>2
  <2>2. ap[l + j] = p[j] /\ w[l + j] = ap[l + j]
    BY <1>1, <1>2, <1>3, <2>1
  <2> QED
    BY <1>4, <2>1, <2>2
<1>6. q = p
  BY <1>1, <1>4, <1>5, SeqEqual
<1> QED
  BY <1>1, <1>2, <1>3, <1>6 DEF q

\* The pieces of one text, in a row.
LEMMA PiecesAre ==
    ASSUME NEW k \in DOMAIN Sources
    PROVE  /\ Pieces(k) \in Lists
           /\ \A i \in DOMAIN Pieces(k) : Pieces(k)[i].text = k
           /\ [i \in DOMAIN Pieces(k) |-> Pieces(k)[i].segments] = Chunks(Sources[k])
<1> DEFINE C == Chunks(Sources[k])
<1>1. k \in Nat /\ Len(Sources[k]) \in Nat
  BY CompletionAssumption
<1>2. C \in Seq(Numbers)
  BY <1>1, ChunksCover
<1>3. Pieces(k) = [i \in DOMAIN C |-> [text |-> k, segments |-> C[i]]]
  BY DEF Pieces
<1> HIDE DEF C
<1>4. DOMAIN C = 1 .. Len(C) /\ Len(C) \in Nat /\ C = [i \in 1 .. Len(C) |-> C[i]]
  BY <1>2
<1>5. \A i \in 1 .. Len(C) : C[i] \in Seq(Nat) /\ [text |-> k, segments |-> C[i]] \in Piece
  BY <1>1, <1>2, ElementOfSeq DEF Numbers, Piece
<1>6. Pieces(k) \in Lists
  BY <1>3, <1>4, <1>5 DEF Lists
<1>7. DOMAIN Pieces(k) = 1 .. Len(C)
  BY <1>3, <1>4
<1>8. \A i \in 1 .. Len(C) : Pieces(k)[i].text = k /\ Pieces(k)[i].segments = C[i]
  BY <1>3, <1>4
<1>9. [i \in DOMAIN Pieces(k) |-> Pieces(k)[i].segments] = C
  BY <1>4, <1>7, <1>8
<1> QED
  BY <1>6, <1>7, <1>8, <1>9 DEF C

\* The pieces of one text are between those of the texts before it and those
\* of the texts after.
LEMMA TextsApart ==
    ASSUME NEW k \in DOMAIN Sources
    PROVE  LET earlier == [j \in 1 .. k - 1 |-> Pieces(j)]
               all == [j \in DOMAIN Sources |-> Pieces(j)]
           IN  \E after \in Seq(Lists) :
                  /\ all \in Seq(Lists) /\ earlier \in Seq(Lists)
                  /\ all = Append(earlier, Pieces(k)) \o after
<1> DEFINE earlier == [j \in 1 .. k - 1 |-> Pieces(j)]
           all == [j \in DOMAIN Sources |-> Pieces(j)]
           after == [j \in 1 .. Len(Sources) - k |-> Pieces(k + j)]
           x == Append(earlier, Pieces(k))
           y == x \o after
<1>1. PICK n \in Nat : n = Len(Sources) /\ DOMAIN Sources = 1 .. n
  BY CompletionAssumption
<1>2. k \in 1 .. n /\ \A j \in 1 .. n : Pieces(j) \in Lists
  BY <1>1, PiecesAre
<1>3. all \in Seq(Lists) /\ Len(all) = n /\ \A j \in 1 .. n : all[j] = Pieces(j)
  BY <1>1, <1>2
<1>4. earlier \in Seq(Lists) /\ Len(earlier) = k - 1 /\ \A j \in 1 .. k - 1 : earlier[j] = Pieces(j)
  <2>1. \A j \in 1 .. k - 1 : j \in 1 .. n
    BY <1>2
  <2>2. k - 1 \in Nat /\ \A j \in 1 .. k - 1 : Pieces(j) \in Lists
    BY <1>2, <2>1
  <2> QED
    BY <2>2
<1>5. after \in Seq(Lists) /\ Len(after) = n - k /\ \A j \in 1 .. n - k : after[j] = Pieces(k + j)
  <2>1. \A j \in 1 .. n - k : k + j \in 1 .. n
    BY <1>2
  <2>2. n - k \in Nat /\ \A j \in 1 .. n - k : Pieces(k + j) \in Lists
    BY <1>2, <2>1
  <2> QED
    BY <1>1, <2>2
<1> HIDE DEF earlier, all, after
<1>6. x \in Seq(Lists) /\ Len(x) = k /\ \A j \in 1 .. k : x[j] = Pieces(j)
  <2>1. x \in Seq(Lists) /\ Len(x) = Len(earlier) + 1 /\ x[Len(earlier) + 1] = Pieces(k)
        /\ \A j \in 1 .. Len(earlier) : x[j] = earlier[j]
    BY <1>2, <1>4, AppendProperties
  <2> HIDE DEF x
  <2>2. \A j \in 1 .. k : j \in 1 .. k - 1 \/ j = k
    BY <1>2
  <2> QED
    BY <1>2, <1>4, <2>1, <2>2
<1> HIDE DEF x
<1>7. y \in Seq(Lists) /\ Len(y) = n /\ \A j \in 1 .. n : y[j] = Pieces(j)
  <2>1. /\ y \in Seq(Lists) /\ Len(y) = Len(x) + Len(after)
        /\ (\A j \in 1 .. Len(x) : y[j] = x[j])
        /\ \A j \in 1 .. Len(after) : y[Len(x) + j] = after[j]
    <3>1. x \in Seq(Lists) /\ after \in Seq(Lists) /\ y = x \o after
      BY <1>5, <1>6
    <3> HIDE DEF y
    <3> QED
      BY ONLY <3>1, Concatenated
  <2> HIDE DEF y
  <2>2. Len(y) = n
    BY <1>2, <1>5, <1>6, <2>1
  <2>3. ASSUME NEW j \in 1 .. n PROVE y[j] = Pieces(j)
    <3>1. CASE j <= k
      BY <1>2, <1>6, <2>1, <3>1
    <3>2. CASE j > k
      <4>1. PICK i \in 1 .. n - k : j = k + i
        <5>1. j - k \in 1 .. n - k /\ j = k + (j - k)
          BY <1>2, <3>2
        <5> QED
          BY <5>1
      <4>2. y[k + i] = after[i] /\ after[i] = Pieces(k + i)
        BY <1>5, <1>6, <2>1
      <4> QED
        BY <4>1, <4>2
    <3> QED
      BY <1>2, <3>1, <3>2
  <2> QED
    BY <2>1, <2>2, <2>3
<1> HIDE DEF y
<1>8. all = y
  <2>1. \A j \in 1 .. n : all[j] = y[j]
    BY <1>3, <1>7
  <2> QED
    BY ONLY <1>3, <1>7, <2>1, SeqEqual
<1>9. all = x \o after
  BY <1>8 DEF y
<1> QED
  BY <1>3, <1>4, <1>5, <1>9 DEF earlier, all, after, x

\* What is put together for a text are its own pieces.
LEMMA AssembledIs ==
    ASSUME NEW k \in DOMAIN Sources
    PROVE  Flat \in Lists /\ Assembled(Flat, k) = Pieces(k)
<1> DEFINE earlier == [j \in 1 .. k - 1 |-> Pieces(j)]
           all == [j \in DOMAIN Sources |-> Pieces(j)]
<1>1. PICK after \in Seq(Lists) :
          /\ all \in Seq(Lists) /\ earlier \in Seq(Lists)
          /\ all = Append(earlier, Pieces(k)) \o after
  BY TextsApart
<1>2. Flat = FlattenSeq(all) /\ Cursor(k) = Len(FlattenSeq(earlier))
  BY DEF Flat, Cursor
<1> HIDE DEF earlier, all
<1> DEFINE a == FlattenSeq(earlier)
           p == Pieces(k)
           b == FlattenSeq(after)
           ap == a \o p
<1>3. a \in Lists /\ p \in Lists /\ b \in Lists
  BY <1>1, ListsFlatten, PiecesAre
<1>4. Flat = ap \o b
  <2>1. Append(earlier, p) \in Seq(Lists) /\ FlattenSeq(Append(earlier, p)) = ap
    BY <1>1, <1>3, ListsFlatten, AppendProperties
  <2> HIDE DEF ap, p, b
  <2>2. FlattenSeq(Append(earlier, p) \o after) = FlattenSeq(Append(earlier, p)) \o FlattenSeq(after)
    BY <1>1, <2>1, ListsFlatten
  <2> QED
    BY <1>1, <1>2, <2>1, <2>2 DEF p, b
<1>5. Cursor(k) = Len(a)
  BY <1>2
<1> DEFINE w == Flat
<1> HIDE DEF a, b, p, ap, w
<1>6. ap = a \o p /\ w = ap \o b /\ a \in Seq(Piece) /\ p \in Seq(Piece) /\ b \in Seq(Piece)
  BY <1>3, <1>4 DEF ap, w, Lists
<1>7. w \in Seq(Piece) /\ Len(w) = Len(a) + Len(p) + Len(b)
      /\ SubSeq(w, Len(a) + 1, Len(a) + Len(p)) = p
  BY ONLY <1>6, Middle
<1>8. Min({Len(a) + Len(p), Len(w)}) = Len(a) + Len(p)
  <2>1. PICK l \in Nat, m \in Nat, n \in Nat : l = Len(a) /\ m = Len(p) /\ n = Len(b)
    BY <1>6
  <2>2. Len(w) = l + m + n
    BY <1>7, <2>1
  <2>3. Min({l + m, l + m + n}) = l + m
    BY MinOfTwo
  <2> QED
    BY <2>1, <2>2, <2>3
<1>9. Assembled(w, k) = SubSeq(w, Len(a) + 1, Min({Len(a) + Len(p), Len(w)}))
  BY <1>5 DEF Assembled, p
<1> QED
  BY <1>7, <1>8, <1>9 DEF w, p, Lists

\* However texts are cut and spread, the pieces of a text make up the text.
THEOREM CutWhole == CutsWhole
<1>1. Flat \in Seq(Piece)
  <2>1. CASE DOMAIN Sources = {}
    <3> DEFINE t == [j \in DOMAIN Sources |-> Pieces(j)]
    <3>1. Flat = FlattenSeq(t) /\ t = <<>>
      BY <2>1 DEF Flat
    <3> HIDE DEF t
    <3>2. Flat = <<>>
      BY <3>1, FlattenEmpty
    <3> QED
      BY <3>2, EmptySeq
  <2>2. CASE DOMAIN Sources # {}
    BY <2>2, AssembledIs DEF Lists
  <2> QED
    BY <2>1, <2>2
<1>2. ASSUME NEW k \in DOMAIN Sources PROVE Whole(Flat, k)
  <2>1. Assembled(Flat, k) = Pieces(k)
    BY AssembledIs
  <2>2. Len(Sources[k]) \in Nat /\ DOMAIN Sources[k] = 1 .. Len(Sources[k])
    BY CompletionAssumption
  <2>3. FlattenSeq([i \in DOMAIN Pieces(k) |-> Pieces(k)[i].segments]) = UpTo(Len(Sources[k]))
    BY <2>2, PiecesAre, ChunksCover
  <2>4. UpTo(Len(Sources[k])) = [s \in DOMAIN Sources[k] |-> s]
    BY <2>2 DEF UpTo
  <2> QED
    BY <2>1, <2>3, <2>4, PiecesAre DEF Whole
<1> QED
  BY <1>1, <1>2 DEF CutsWhole

LEMMA LoadedAlone ==
    OneProcess <=> Cardinality({p \in Processes : tracker[p].loaded}) <= 1
<1> DEFINE L == {p \in Processes : tracker[p].loaded}
<1>1. IsFiniteSet(L) /\ Cardinality(L) \in Nat
  BY CompletionAssumption, FS_Subset, FS_CardinalityType
<1>0. L \subseteq Processes /\ \A p \in Processes : p \in L <=> tracker[p].loaded
  OBVIOUS
<1> HIDE DEF L
<1>2. ASSUME OneProcess PROVE Cardinality(L) <= 1
  <2>1. CASE L = {}
    BY <2>1, FS_EmptySet
  <2>2. ASSUME NEW p \in L PROVE Cardinality(L) <= 1
    <3>1. L = {p}
      BY <1>0, <1>2, <2>2 DEF OneProcess
    <3>2. Cardinality(L) = 1
      BY <3>1, FS_Singleton
    <3> QED
      BY <3>2
  <2> QED
    BY <2>1, <2>2
<1>3. ASSUME Cardinality(L) <= 1 PROVE OneProcess
  <2>1. L = {} \/ \E x : L = {x}
    <3>1. Cardinality(L) = 0 \/ Cardinality(L) = 1
      BY <1>1, <1>3
    <3> QED
      BY <1>1, <3>1, FS_EmptySet, FS_Singleton
  <2> QED
    BY <1>0, <2>1 DEF OneProcess
<1>4. OneProcess <=> Cardinality(L) <= 1
  BY <1>2, <1>3
<1> QED
  BY <1>4 DEF L

LEMMA BatchIs ==
    ASSUME CutsWhole, NEW from \in 0 .. Len(Flat)
    PROVE  \E to \in from .. Len(Flat) :
              /\ to > from \/ to = Len(Flat)
              /\ Batch(from) = SubSeq(Flat, from + 1, to) /\ Batch(from) \in Seq(Piece)
              /\ Len(Batch(from)) = to - from
<1> DEFINE to == IF from + BatchSize <= Len(Flat) THEN from + BatchSize ELSE Len(Flat)
<1>1. Len(Flat) \in Nat /\ BatchSize \in Nat \ {0} /\ from \in Nat /\ from <= Len(Flat)
  BY CompletionAssumption DEF CutsWhole
<1>2. Batch(from) = SubSeq(Flat, from + 1, to)
  BY <1>1, MinOfTwo DEF Batch
<1>3. to \in from .. Len(Flat) /\ (to > from \/ to = Len(Flat))
  BY <1>1
<1> HIDE DEF to
<1>4. \A i \in from + 1 .. to : Flat[i] \in Piece
  BY <1>1, <1>3 DEF CutsWhole
<1>5. /\ SubSeq(Flat, from + 1, to) \in Seq(Piece)
      /\ Len(SubSeq(Flat, from + 1, to)) = to - from
  BY <1>1, <1>3, <1>4, SubSeqProperties, Z3
<1> QED
  BY <1>2, <1>3, <1>5

LEMMA ReceivedHasPieces ==
    ASSUME CutsWhole, NEW r \in Request, HasPieces(r), r.provider = "cloud",
           r.state = "asking", NEW n \in 0 .. Len(Batch(r.from))
    PROVE  LET q == Received(r, SubSeq(Batch(r.from), 1, n))
           IN q \in Request /\ HasPieces(q)
<1> DEFINE batch == Batch(r.from)
           outs == SubSeq(batch, 1, n)
           q == Received(r, outs)
<1>1. /\ r.from \in 0 .. Len(Flat) /\ Flat \in Seq(Piece) /\ r.outputs \in Seq(Piece)
      /\ Len(Flat) \in Nat
  BY DEF Request, HasPieces, CutsWhole, Piece
<1>2. PICK to \in r.from .. Len(Flat) :
          /\ to > r.from \/ to = Len(Flat)
          /\ batch = SubSeq(Flat, r.from + 1, to) /\ batch \in Seq(Piece)
          /\ Len(batch) = to - r.from
  BY <1>1, BatchIs
<1>3. /\ outs \in Seq(Piece) /\ Len(outs) = n /\ n \in Nat /\ n <= Len(batch)
      /\ n = Len(batch) => outs = batch
  <2>1. n \in Nat /\ Len(batch) \in Nat /\ n <= Len(batch)
    BY <1>2
  <2>2. \A i \in 1 .. n : batch[i] \in Piece
    BY <1>2, <2>1, ElementOfSeq
  <2>3. outs \in Seq(Piece) /\ Len(outs) = n
    BY <2>1, <2>2, SubSeqProperties, Z3
  <2> QED
    BY <1>2, <2>1, <2>3, SubSeqFull
<1>4. r.from + Len(batch) = to
  BY <1>1, <1>2
<1> HIDE DEF batch, outs
<1>5. q = [r EXCEPT !.outputs = r.outputs \o outs, !.from = to, !.host = 1, !.attempt = 0,
                    !.erred = FALSE, !.gap = r.gap \/ n < Len(batch),
                    !.state = IF to = Len(Flat) THEN "counting" ELSE "asking"]
  BY <1>3, <1>4 DEF Received, batch
<1>6. r.outputs \o outs \in Seq(Piece)
  BY <1>1, <1>3, ConcatProperties
<1>7. to \in Nat /\ 1 \in 1 .. Hosts /\ 0 \in 0 .. MaxAttempts - 1
  BY <1>1, <1>2, CompletionAssumption
<1> DEFINE state == IF to = Len(Flat) THEN "counting" ELSE "asking"
           gap == r.gap \/ n < Len(batch)
           outputs == r.outputs \o outs
<1>8. state \in {"counting", "asking"} /\ gap \in BOOLEAN /\ (state = "counting" => to = Len(Flat))
  BY DEF Request
<1>9. ~gap => outputs = SubSeq(Flat, 1, to)
  <2> SUFFICES ASSUME ~gap PROVE r.outputs \o outs = SubSeq(Flat, 1, to)
    OBVIOUS
  <2>1. n = Len(batch) /\ ~r.gap
    BY <1>2, <1>3
  <2>2. r.outputs = SubSeq(Flat, 1, r.from) /\ outs = SubSeq(Flat, r.from + 1, to)
    BY <1>2, <1>3, <2>1 DEF HasPieces
  <2>3. 1 \in 1 .. Len(Flat) + 1 /\ r.from \in 1 - 1 .. Len(Flat) /\ to \in r.from .. Len(Flat)
    BY <1>1, <1>2
  <2> QED
    BY <1>1, <2>2, <2>3, ConcatAdjacentSubSeq
<1> HIDE DEF state, gap, outputs
<1>10. q = [r EXCEPT !.outputs = outputs, !.from = to, !.host = 1, !.attempt = 0,
                     !.erred = FALSE, !.gap = gap, !.state = state]
  BY <1>5 DEF state, gap, outputs
<1>11. outputs \in Seq([text : Nat, segments : Seq(Nat)])
  BY <1>6 DEF outputs, Piece
<1> HIDE DEF q
<1>12. q \in Request
  BY <1>7, <1>8, <1>10, <1>11 DEF Request
<1>13. /\ q.from = to /\ q.gap = gap /\ q.outputs = outputs /\ q.state = state
       /\ q.provider = "cloud"
  BY <1>10 DEF Request
<1>14. HasPieces(q)
  BY <1>1, <1>2, <1>8, <1>9, <1>13 DEF HasPieces
<1> QED
  BY <1>12, <1>14 DEF q, outs, batch

LEMMA NoRequestFits ==
    ASSUME CutsWhole PROVE NoRequest \in Request /\ HasPieces(NoRequest)
<1>1. 1 \in 1 .. Hosts /\ 0 \in 0 .. MaxAttempts - 1
  BY CompletionAssumption
<1>2. NoRequest \in Request
  BY <1>1 DEF NoRequest, Request, Providers
<1>3. HasPieces(NoRequest)
  BY DEF NoRequest, HasPieces, CutsWhole
<1> QED
  BY <1>2, <1>3

LEMMA CompletionInitRec ==
    CutsWhole /\ CompletionInit => CompletionRec
<1> SUFFICES ASSUME CutsWhole, CompletionInit PROVE CompletionRec
  OBVIOUS
<1>1. NoRequest \in Request /\ HasPieces(NoRequest)
  BY NoRequestFits
<1>2. CompletionTypeOK
  BY <1>1, CompletionAssumption DEF CompletionInit, CompletionTypeOK
<1> QED
  BY <1>1, <1>2 DEF CompletionInit, CompletionRec, Counted

\* A step that changes one request and counts nothing.
LEMMA RequestStep ==
    ASSUME CompletionRec, NEW c \in Callers, NEW r \in Request, HasPieces(r),
           asked' = [asked EXCEPT ![c] = r], UNCHANGED countVars
    PROVE  CompletionRec'
<1>1. CompletionTypeOK'
  BY DEF CompletionRec, CompletionTypeOK, countVars
<1>2. \A d \in Callers : asked'[d] = IF d = c THEN r ELSE asked[d]
  BY DEF CompletionRec, CompletionTypeOK
<1>3. \A d \in Callers : HasPieces(asked[d])'
  <2> SUFFICES ASSUME NEW d \in Callers PROVE HasPieces(asked'[d])
    BY DEF HasPieces
  <2> QED
    BY <1>2 DEF CompletionRec
<1>4. Counted'
  BY DEF CompletionRec, Counted, OneProcess, countVars
<1> QED
  BY <1>1, <1>3, <1>4 DEF CompletionRec

\* The ends of a call that asks no batches.
LEMMA EndsStep ==
    ASSUME CompletionRec, NEW c \in Callers,
           NEW state \in {"answered", "counting", "failed"}, Ends(c, state), UNCHANGED countVars,
           state = "failed" \/ asked[c].provider \notin {"cloud", "device"}
    PROVE  CompletionRec'
<1> DEFINE r == [asked[c] EXCEPT !.state = state]
<1>1. asked[c] \in Request /\ HasPieces(asked[c])
  BY DEF CompletionRec, CompletionTypeOK
<1>2. r \in Request /\ HasPieces(r)
  BY <1>1 DEF Request, HasPieces
<1>3. asked' = [asked EXCEPT ![c] = r]
  BY DEF Ends
<1> HIDE DEF r
<1> QED
  BY <1>2, <1>3, RequestStep

LEMMA NextHostHasPieces ==
    ASSUME CutsWhole, NEW r \in Request, HasPieces(r), r.provider = "cloud", r.state = "asking"
    PROVE  NextHost(r) \in Request /\ HasPieces(NextHost(r))
<1> DEFINE a == [r EXCEPT !.host = r.host + 1, !.attempt = 0]
           b == [r EXCEPT !.state = "failed"]
<1>0. r.host \in 1 .. Hosts /\ Hosts \in Nat /\ 0 \in 0 .. MaxAttempts - 1
  BY CompletionAssumption DEF Request
<1>1. CASE r.host < Hosts
  <2>1. r.host + 1 \in 1 .. Hosts
    BY <1>0, <1>1
  <2>2. a \in Request /\ HasPieces(a)
    BY <1>0, <2>1 DEF Request, HasPieces
  <2>3. NextHost(r) = a
    BY <1>0, <1>1 DEF NextHost
  <2> QED
    BY <2>2, <2>3
<1>2. CASE r.host = Hosts /\ r.erred
  <2>1. b \in Request /\ HasPieces(b)
    BY DEF Request, HasPieces
  <2>2. NextHost(r) = b
    BY <1>0, <1>2 DEF NextHost
  <2> QED
    BY <2>1, <2>2
<1>3. CASE r.host = Hosts /\ ~r.erred
  <2>1. SubSeq(Batch(r.from), 1, 0) = <<>>
    BY SubSeqEmpty
  <2>2. NextHost(r) = Received(r, <<>>)
    BY <1>0, <1>3 DEF NextHost
  <2>3. 0 \in 0 .. Len(Batch(r.from))
    <3>1. r.from \in 0 .. Len(Flat)
      BY DEF Request, HasPieces, CutsWhole
    <3> QED
      BY <3>1, BatchIs
  <2> QED
    BY <2>1, <2>2, <2>3, ReceivedHasPieces
<1> QED
  BY <1>0, <1>1, <1>2, <1>3 DEF Request

LEMMA CallStepRec ==
    ASSUME CutsWhole, CompletionRec, NEW c \in Callers, Dispatch(c) \/ CallStep(c)
    PROVE  CompletionRec'
<1> DEFINE q == asked[c]
<1>0. q \in Request /\ HasPieces(q)
  BY DEF CompletionRec, CompletionTypeOK
<1> SUFFICES ASSUME ~Count(c) PROVE CompletionRec'
  <2>1. ASSUME Count(c) PROVE CompletionRec'
    <3> DEFINE p == ProcessOf[c]
               t == [tracker[p] EXCEPT !.count = tracker[p].count + 1]
               r == [q EXCEPT !.state = "answered"]
    <3>0. p \in Processes /\ tracker \in [Processes -> [loaded : BOOLEAN, count : Nat]]
          /\ usage \in Nat /\ charged \in Nat
      BY CompletionAssumption DEF CompletionRec, CompletionTypeOK
    <3>1. asked' = [asked EXCEPT ![c] = r] /\ tracker' = [tracker EXCEPT ![p] = t]
      BY <2>1 DEF Count, Ends
    <3>2. /\ q.state = "counting" /\ tracker[p].loaded /\ clears' = clears
          /\ usage' = tracker[p].count + 1 /\ charged' = charged + 1
      BY <2>1 DEF Count
    <3>3. r \in Request /\ HasPieces(r)
      BY <1>0, <3>2 DEF Request, HasPieces
    <3>4. t \in [loaded : BOOLEAN, count : Nat] /\ t.loaded = tracker[p].loaded
          /\ t.count = tracker[p].count + 1
      BY <3>0
    <3> HIDE DEF r, t, p
    <3>5. CompletionTypeOK'
      BY <3>0, <3>1, <3>2, <3>3, <3>4 DEF CompletionRec, CompletionTypeOK
    <3>6. \A d \in Callers : HasPieces(asked'[d])
      BY <3>1, <3>3 DEF CompletionRec, CompletionTypeOK
    <3>7. \A x \in Processes : tracker'[x].loaded = tracker[x].loaded
          /\ (x # p => tracker'[x] = tracker[x]) /\ tracker'[p] = t
      BY <3>0, <3>1, <3>4
    <3>8. Counted'
      <4> SUFFICES ASSUME OneProcess'
                   PROVE  /\ usage' = charged'
                          /\ \A x \in Processes : tracker'[x].loaded => tracker'[x].count = usage'
        BY DEF Counted
      <4>1. OneProcess
        BY <3>7 DEF OneProcess
      <4>2. usage = charged /\ tracker[p].count = usage
        BY <3>0, <3>2, <4>1 DEF CompletionRec, Counted
      <4>3. \A x \in Processes : tracker[x].loaded => x = p
        BY <3>0, <3>2, <4>1 DEF OneProcess
      <4> QED
        BY <3>0, <3>2, <3>4, <3>7, <4>2, <4>3
    <3> QED
      BY <3>5, <3>6, <3>8 DEF CompletionRec, HasPieces
  <2> QED
    BY <2>1
<1>1. CASE Dispatch(c)
  <2>1. PICK p \in Providers, s \in {"failed", "asking"} :
            asked' = [asked EXCEPT ![c] = [NoRequest EXCEPT !.provider = p, !.state = s]]
    BY <1>1 DEF Dispatch, Becomes
  <2> DEFINE r == [NoRequest EXCEPT !.provider = p, !.state = s]
  <2>2. NoRequest \in Request /\ HasPieces(NoRequest)
    BY NoRequestFits
  <2>3. r \in Request
    BY <2>2 DEF Request
  <2>4. /\ r.from = NoRequest.from /\ r.outputs = NoRequest.outputs /\ r.gap = NoRequest.gap
        /\ r.state = s /\ NoRequest.from = 0 /\ NoRequest.outputs = <<>>
    BY <2>2 DEF Request, NoRequest
  <2>5. SubSeq(Flat, 1, 0) = <<>> /\ 0 <= Len(Flat)
    BY SubSeqEmpty DEF CutsWhole
  <2> HIDE DEF r
  <2>6. HasPieces(r)
    BY <2>4, <2>5 DEF HasPieces
  <2> QED
    BY <1>1, <2>1, <2>3, <2>6, RequestStep DEF Dispatch, r
<1>2. CASE Replied(c) \/ GiveUp(c) \/ AskOllama(c) \/ BatchRefused(c)
  BY <1>2, EndsStep DEF Replied, GiveUp, AskOllama, BatchRefused, Asking
<1>3. CASE AskPlainly(c)
  <2> DEFINE r == [q EXCEPT !.plain = TRUE, !.attempt = 0]
  <2>1. 0 \in 0 .. MaxAttempts - 1
    BY CompletionAssumption
  <2>2. r \in Request /\ HasPieces(r)
    BY <1>0, <2>1 DEF Request, HasPieces
  <2>3. asked' = [asked EXCEPT ![c] = r] /\ UNCHANGED countVars
    BY <1>3 DEF AskPlainly, Becomes
  <2> HIDE DEF r
  <2> QED
    BY <2>2, <2>3, RequestStep
<1>4. ASSUME NEW r, r = [q EXCEPT !.attempt = q.attempt + 1], HasAnother(c)
      PROVE  r \in Request /\ HasPieces(r)
  <2>1. q.attempt + 1 \in 0 .. MaxAttempts - 1
    BY <1>0, <1>4, CompletionAssumption DEF Request, HasAnother
  <2> QED
    BY <1>0, <1>4, <2>1 DEF Request, HasPieces
<1>5. CASE TryAgain(c)
  <2>1. CASE HasAnother(c)
    <3> DEFINE r == [q EXCEPT !.attempt = q.attempt + 1]
    <3>1. asked' = [asked EXCEPT ![c] = r] /\ UNCHANGED countVars
      BY <1>5, <2>1 DEF TryAgain
    <3>2. r \in Request /\ HasPieces(r)
      BY <1>4, <2>1
    <3> HIDE DEF r
    <3> QED
      BY <3>1, <3>2, RequestStep
  <2>2. CASE ~HasAnother(c)
    BY <1>5, <2>2, EndsStep DEF TryAgain
  <2> QED
    BY <2>1, <2>2
<1>6. CASE AskDevice(c)
  <2>1. CASE Ends(c, "failed")
    BY <1>6, <2>1, EndsStep DEF AskDevice
  <2>2. CASE Becomes(c, [asked[c] EXCEPT !.state = "counting", !.outputs = Flat])
    <3> DEFINE r == [q EXCEPT !.state = "counting", !.outputs = Flat]
    <3>1. q.provider = "device" /\ UNCHANGED countVars /\ asked' = [asked EXCEPT ![c] = r]
      BY <1>6, <2>2 DEF AskDevice, Asking, Becomes
    <3>2. r \in Request /\ HasPieces(r)
      BY <1>0, <3>1 DEF Request, HasPieces, CutsWhole, Piece
    <3> HIDE DEF r
    <3> QED
      BY <3>1, <3>2, RequestStep
  <2> QED
    BY <1>6, <2>1, <2>2 DEF AskDevice
<1>7. CASE BatchTranslated(c)
  <2> DEFINE batch == Batch(q.from)
  <2>1. Len(batch) \in Nat
    <3>1. q.from \in 0 .. Len(Flat)
      BY <1>0 DEF Request, HasPieces, CutsWhole
    <3> QED
      BY <3>1, BatchIs
  <2>2. PICK n \in 0 .. Len(batch) :
            asked' = [asked EXCEPT ![c] = Received(q, SubSeq(batch, 1, n))]
    <3>1. PICK n \in IF Short THEN 1 .. Len(batch) ELSE {Len(batch)} :
              Becomes(c, Received(q, SubSeq(batch, 1, n)))
      BY <1>7 DEF BatchTranslated
    <3>2. n \in 0 .. Len(batch)
      BY <2>1, <3>1
    <3> QED
      BY <3>1, <3>2 DEF Becomes
  <2>3. q.provider = "cloud" /\ q.state = "asking" /\ UNCHANGED countVars
    BY <1>7 DEF BatchTranslated, Asking
  <2> DEFINE r == Received(q, SubSeq(batch, 1, n))
  <2>4. r \in Request /\ HasPieces(r)
    BY <1>0, <2>3, ReceivedHasPieces
  <2> HIDE DEF r
  <2> QED
    BY <2>2, <2>3, <2>4, RequestStep DEF r
<1>8. CASE HostFails(c)
  <2> DEFINE e == [q EXCEPT !.erred = TRUE]
  <2>1. q.provider = "cloud" /\ q.state = "asking" /\ UNCHANGED countVars
        /\ asked' = [asked EXCEPT ![c] = NextHost(e)]
    BY <1>8 DEF HostFails, Asking, Becomes
  <2>2. e \in Request /\ HasPieces(e) /\ e.provider = "cloud" /\ e.state = "asking"
    BY <1>0, <2>1 DEF Request, HasPieces
  <2> HIDE DEF e
  <2>3. NextHost(e) \in Request /\ HasPieces(NextHost(e))
    BY <2>2, NextHostHasPieces
  <2> QED
    BY <2>1, <2>3, RequestStep
<1>9. CASE HostWarmsUp(c)
  <2>1. q.provider = "cloud" /\ q.state = "asking" /\ UNCHANGED countVars
    BY <1>9 DEF HostWarmsUp, Asking
  <2>2. CASE HasAnother(c)
    <3> DEFINE r == [q EXCEPT !.attempt = q.attempt + 1]
    <3>1. asked' = [asked EXCEPT ![c] = r]
      BY <1>9, <2>2 DEF HostWarmsUp, Becomes
    <3>2. r \in Request /\ HasPieces(r)
      BY <1>4, <2>2
    <3> HIDE DEF r
    <3> QED
      BY <2>1, <3>1, <3>2, RequestStep
  <2>3. CASE ~HasAnother(c)
    <3>1. asked' = [asked EXCEPT ![c] = NextHost(q)]
      BY <1>9, <2>3 DEF HostWarmsUp, Becomes
    <3>2. NextHost(q) \in Request /\ HasPieces(NextHost(q))
      BY <1>0, <2>1, NextHostHasPieces
    <3> QED
      BY <2>1, <3>1, <3>2, RequestStep
  <2> QED
    BY <2>2, <2>3
<1> QED
  BY <1>1, <1>2, <1>3, <1>5, <1>6, <1>7, <1>8, <1>9 DEF CallStep

LEMMA TrackerStepRec ==
    ASSUME CompletionRec, NEW p \in Processes, Track(p) \/ Clear(p)
    PROVE  CompletionRec'
<1>0. tracker \in [Processes -> [loaded : BOOLEAN, count : Nat]]
      /\ usage \in Nat /\ charged \in Nat /\ clears \in 0 .. MaxClears /\ MaxClears \in Nat
  BY CompletionAssumption DEF CompletionRec, CompletionTypeOK
<1>1. asked' = asked
  BY DEF Track, Clear
<1>2. \A c \in Callers : HasPieces(asked[c])'
  BY <1>1 DEF CompletionRec, HasPieces
<1>3. CASE Track(p)
  <2>1. PICK n \in ReadUsage(p) : tracker' = [tracker EXCEPT ![p] = [loaded |-> TRUE, count |-> n]]
    BY <1>3 DEF Track
  <2>2. n \in Nat
    BY <1>0 DEF ReadUsage
  <2> DEFINE t == [loaded |-> TRUE, count |-> n]
  <2>3. t \in [loaded : BOOLEAN, count : Nat] /\ t.loaded /\ t.count = n
    BY <2>2
  <2> HIDE DEF t
  <2>4. tracker' = [tracker EXCEPT ![p] = t]
    BY <2>1 DEF t
  <2>5. CompletionTypeOK'
    BY <1>1, <1>3, <2>3, <2>4 DEF Track, CompletionRec, CompletionTypeOK
  <2>6. \A x \in Processes : tracker'[x] = IF x = p THEN t ELSE tracker[x]
    BY <1>0, <2>4
  <2>7. Counted'
    <3> SUFFICES ASSUME OneProcess'
                 PROVE  /\ usage' = charged'
                        /\ \A x \in Processes : tracker'[x].loaded => tracker'[x].count = usage'
      BY DEF Counted
    <3>1. \A x \in Processes : ~tracker[x].loaded
      BY <1>3, <2>3, <2>6 DEF OneProcess, Track
    <3>2. usage = charged
      BY <3>1 DEF CompletionRec, Counted, OneProcess
    <3>3. n = usage
      BY <3>1 DEF ReadUsage, Writing
    <3> QED
      BY <1>3, <2>3, <2>6, <3>1, <3>2, <3>3 DEF Track
  <2> QED
    BY <1>2, <2>5, <2>7 DEF CompletionRec
<1>4. CASE Clear(p)
  <2> DEFINE t == [tracker[p] EXCEPT !.count = 0]
  <2>1. t \in [loaded : BOOLEAN, count : Nat] /\ t.loaded = tracker[p].loaded /\ t.count = 0
    BY <1>0
  <2>2. tracker' = [tracker EXCEPT ![p] = t] /\ tracker[p].loaded
    BY <1>4 DEF Clear
  <2>3. usage' = 0 /\ charged' = 0 /\ clears' \in 0 .. MaxClears
    BY <1>0, <1>4 DEF Clear
  <2> HIDE DEF t
  <2>4. CompletionTypeOK'
    BY <1>1, <2>1, <2>2, <2>3 DEF CompletionRec, CompletionTypeOK
  <2>5. \A x \in Processes : tracker'[x] = IF x = p THEN t ELSE tracker[x]
    BY <1>0, <2>2
  <2>6. Counted'
    BY <2>1, <2>2, <2>3, <2>5 DEF Counted, OneProcess
  <2> QED
    BY <1>2, <2>4, <2>6 DEF CompletionRec
<1> QED
  BY <1>3, <1>4

\* However texts are cut and spread over batches, and whatever attempts and
\* endpoints they take, and however processes share the file of statistics:
\* the invariant of the clients.
THEOREM CompletionIsSound == CompletionSpec => []CompletionInv
<1>0. CutsWhole
  BY CutWhole
<1>1. ASSUME CompletionRec, [CompletionNext]_completionVars PROVE CompletionRec'
  <2>1. CASE CompletionNext
    BY <1>0, <1>1, <2>1, CallStepRec, TrackerStepRec DEF CompletionNext
  <2>2. CASE UNCHANGED completionVars
    BY <1>1, <2>2
    DEF completionVars, CompletionRec, CompletionTypeOK, Counted, OneProcess, HasPieces
  <2> QED
    BY <1>1, <2>1, <2>2
<1>2. ASSUME CompletionRec PROVE CompletionInv
  <2>1. UsageKept
    BY <1>2, LoadedAlone DEF CompletionRec, Counted, UsageKept
  <2>2. TextsReturn
    <3> SUFFICES ASSUME NEW c \in Callers, Translated(c), ~asked[c].gap
                 PROVE  asked[c].outputs = Flat
      BY <1>0, <1>2 DEF TextsReturn, CutsWhole
    <3>1. HasPieces(asked[c])
      BY <1>2 DEF CompletionRec
    <3>2. SubSeq(Flat, 1, Len(Flat)) = Flat
      BY <1>0, SubSeqFull DEF CutsWhole
    <3> QED
      BY <3>1, <3>2 DEF HasPieces, Translated
  <2> QED
    BY <1>2, <2>1, <2>2 DEF CompletionRec, CompletionInv
<1>3. CompletionInit => CompletionRec
  BY <1>0, CompletionInitRec
<1> QED
  BY <1>1, <1>2, <1>3, PTL DEF CompletionSpec
-----------------------------------------------------------------------------
(***************************************************************************)
(* Translator.                                                             *)
(***************************************************************************)
USE TranslationAssumption, TranslatorAssumption

TypedMemory(mem) == mem \in [Memory -> Value \cup {None}]

Faithful(mem) == \A t \in Texts : mem[t] # None => mem[t].of = t

\* Before there are batches there is nothing about them either.
NoBatchesYet ==
    at = "look" => /\ batches = {}
                   /\ stage \in [batches -> Stages] /\ tries \in [batches -> 0 .. MaxTries]

\* What the stage of a batch tells of its attempts and of the context.
StagesMean ==
    at \notin {"look", "pack"} => \A b \in batches :
        /\ stage[b] = "queued" => tries[b] = 0
        /\ stage[b] = "asking" => tries[b] < MaxTries
        /\ stage[b] = "spent" => tries[b] = MaxTries
        /\ stage[b] = "stopped" => cancelled

TypeInv == TranslatorTypeOK /\ NoBatchesYet /\ StagesMean

-----------------------------------------------------------------------------
\* What the lookup finds is a value, made for the text of the key if all the
\* values of the memory are made for theirs.
LEMMA LookupFinds ==
    ASSUME NEW k \in Keys, NEW mem, NEW c, TypedMemory(mem)
    PROVE  /\ Lookup(k, mem, c) \in Value \cup {None}
           /\ Faithful(mem) /\ Lookup(k, mem, c) # None => Lookup(k, mem, c).of = Source[k]
<1>1. Source[k] \in Texts
  OBVIOUS
<1>2. Made(Source[k], "glossary") \in Value /\ Made(Source[k], "dictionary") \in Value
  BY <1>1 DEF Made, Value, Origins
<1>3. Made(Source[k], "glossary").of = Source[k] /\ Made(Source[k], "dictionary").of = Source[k]
  BY DEF Made
<1>4. CASE InGlossary(k)
  BY <1>2, <1>3, <1>4 DEF Lookup
<1>5. CASE ~InGlossary(k) /\ InMemory(k, mem, c)
  <2>1. Lookup(k, mem, c) = mem[Source[k]]
    BY <1>5 DEF Lookup
  <2>2. mem[Source[k]] \in Value \cup {None}
    BY <1>1 DEF TypedMemory, Memory
  <2> QED
    BY <1>1, <2>1, <2>2 DEF Faithful
<1>6. CASE ~InGlossary(k) /\ ~InMemory(k, mem, c)
  <2>1. Lookup(k, mem, c) \in {Made(Source[k], "dictionary"), None}
    BY <1>6 DEF Lookup
  <2> QED
    BY <2>1, <1>2, <1>3
<1> QED
  BY <1>4, <1>5, <1>6

\* A fallback is a value made for its text.
LEMMA FallbackTypes ==
    ASSUME NEW t \in Texts
    PROVE  Fallback(t) \in Value /\ Fallback(t).of = t
BY DEF Fallback, Made, Value, Origins

\* An answer is a value made for the text that was asked for.
LEMMA AnswerTypes ==
    ASSUME NEW t \in Texts \cup {Unasked}, NEW v \in Answers(t)
    PROVE  v \in Value /\ v.of = t /\ v.by = "model"
BY DEF Answers, Value, Origins
-----------------------------------------------------------------------------
(* Types, by action. *)

LEMMA TypesInit == TranslatorInit => TypeInv
<1> SUFFICES ASSUME TranslatorInit PROVE TypeInv
  OBVIOUS
<1> USE DEF TranslatorInit
<1>1. memory \in [Memory -> Value \cup {None}]
  BY DEF Value, Origins
<1>2. result \in [AllKeys -> Value \cup {None}]
  OBVIOUS
<1>3. chunk \in [keys : SUBSET Keys, words : Nat]
  BY DEF NoChunk
<1>4. /\ stage \in [batches -> Stages] /\ tries \in [batches -> 0 .. MaxTries]
      /\ cancelled \in BOOLEAN
  BY DEF MaxTries
<1> QED
  BY <1>1, <1>2, <1>3, <1>4 DEF TypeInv, TranslatorTypeOK, NoBatchesYet, StagesMean

LEMMA LookTypes ==
    ASSUME TypeInv, NEW k \in Keys, Look(k)
    PROVE  TypeInv'
<1> USE DEF TypeInv, TranslatorTypeOK, NoBatchesYet, StagesMean
<1>1. TypedMemory(memory)
  BY DEF TypedMemory
<1>2. Found(k) \in Value \cup {None}
  BY <1>1, LookupFinds DEF Found
<1>3. k \in AllKeys /\ Source[k] \in Memory
  BY DEF AllKeys, Memory
<1>4. /\ result' \in [AllKeys -> Value \cup {None}]
      /\ memory' \in [Memory -> Value \cup {None}]
      /\ uncached' \subseteq Keys /\ todo' \subseteq Keys
  BY <1>2, <1>3 DEF Look, mapVars
<1> QED
  BY <1>4 DEF Look, callVars, chunkVars, askVars

LEMMA PackTypes ==
    ASSUME TypeInv, NEW k \in Keys, Pack(k)
    PROVE  TypeInv'
<1> USE DEF TypeInv, TranslatorTypeOK, NoBatchesYet, StagesMean
<1>1. Words[Source[k]] \in Nat
  OBVIOUS
<1>2. chunk' \in [keys : SUBSET Keys, words : Nat] /\ batches' \subseteq SUBSET Keys
  BY <1>1 DEF Pack, NoChunk
<1> QED
  BY <1>2 DEF Pack, callVars, askVars, mapVars

LEMMA PhaseTypes ==
    ASSUME TypeInv, LooksDone \/ Packed \/ Asked \/ Return \/ Cancel
    PROVE  TypeInv'
<1> USE DEF TypeInv, TranslatorTypeOK, NoBatchesYet, StagesMean
<1>1. CASE LooksDone
  BY <1>1 DEF LooksDone, callVars, chunkVars, askVars, mapVars
<1>2. CASE Packed
  <2>1. batches' \subseteq SUBSET Keys
    BY <1>2 DEF Packed, AllChunks
  <2>2. chunk' \in [keys : SUBSET Keys, words : Nat]
    BY <1>2 DEF Packed, NoChunk
  <2>3. stage' \in [batches' -> Stages] /\ tries' \in [batches' -> 0 .. MaxTries]
    BY <1>2 DEF Packed, Stages, MaxTries
  <2>4. \A b \in batches' : stage'[b] = "queued" /\ tries'[b] = 0
    BY <1>2 DEF Packed
  <2> QED
    BY <1>2, <2>1, <2>2, <2>3, <2>4 DEF Packed, callVars, mapVars
<1>3. CASE Asked
  BY <1>3 DEF Asked, callVars, chunkVars, askVars, mapVars
<1>4. CASE Return
  BY <1>4 DEF Return, callVars, chunkVars, askVars, mapVars
<1>5. CASE Cancel
  BY <1>5 DEF Cancel, callVars, loopVars, chunkVars, askVars, mapVars
<1> QED
  BY <1>1, <1>2, <1>3, <1>4, <1>5

LEMMA FallBackTypes ==
    ASSUME TypeInv, NEW k \in Keys, FallBack(k)
    PROVE  TypeInv'
<1> USE DEF TypeInv, TranslatorTypeOK, NoBatchesYet, StagesMean
<1>1. Source[k] \in Texts /\ Fallback(Source[k]) \in Value
  BY FallbackTypes
<1>2. k \in AllKeys /\ Source[k] \in Memory
  BY DEF AllKeys, Memory
<1>3. /\ result' \in [AllKeys -> Value \cup {None}]
      /\ memory' \in [Memory -> Value \cup {None}]
  BY <1>1, <1>2 DEF FallBack
<1> QED
  BY <1>3 DEF FallBack, callVars, chunkVars, askVars

\* What an answer leaves in the maps, for a batch of keys.
LEMMA AnsweredMaps ==
    ASSUME TypeInv, NEW b \in batches, Answered(b)
    PROVE  /\ result' \in [AllKeys -> Value \cup {None}]
           /\ memory' \in [Memory -> Value \cup {None}]
           /\ Faithful(memory) => Faithful(memory')
           /\ \A k \in AllKeys : result'[k] = result[k] \/ result'[k].by = "model"
           /\ \A k \in Keys : k \in uncached' => k \in uncached /\ result'[k] = result[k]
           /\ uncached' \subseteq uncached
<1> USE DEF TypeInv, TranslatorTypeOK
<1>1. PICK keys \in SUBSET (b \cup Volunteers) \ {{}} :
      \E answer \in [keys -> UNION {Answers(TextOf(k, b)) : k \in keys}] :
      \E last \in [{TextOf(k, b) : k \in keys} -> keys] :
          /\ \A k \in keys : answer[k].of = TextOf(k, b)
          /\ \A t \in DOMAIN last : TextOf(last[t], b) = t
          /\ result' = [k \in AllKeys |-> IF k \in keys THEN answer[k] ELSE result[k]]
          /\ memory' = Stored(b, answer, last)
          /\ uncached' = StillWithout(keys)
  BY DEF Answered
<1>2. PICK answer \in [keys -> UNION {Answers(TextOf(k, b)) : k \in keys}] :
      \E last \in [{TextOf(k, b) : k \in keys} -> keys] :
          /\ \A k \in keys : answer[k].of = TextOf(k, b)
          /\ \A t \in DOMAIN last : TextOf(last[t], b) = t
          /\ result' = [k \in AllKeys |-> IF k \in keys THEN answer[k] ELSE result[k]]
          /\ memory' = Stored(b, answer, last)
          /\ uncached' = StillWithout(keys)
  BY <1>1
<1>3. PICK last \in [{TextOf(k, b) : k \in keys} -> keys] :
          /\ \A k \in keys : answer[k].of = TextOf(k, b)
          /\ \A t \in DOMAIN last : TextOf(last[t], b) = t
          /\ result' = [k \in AllKeys |-> IF k \in keys THEN answer[k] ELSE result[k]]
          /\ memory' = Stored(b, answer, last)
          /\ uncached' = StillWithout(keys)
  BY <1>2
<1>4. b \subseteq Keys /\ keys \subseteq AllKeys
  BY DEF AllKeys
<1>5. \A k : TextOf(k, b) \in Texts \cup {Unasked}
  BY <1>4 DEF TextOf
<1>6. \A k \in keys : answer[k] \in Value /\ answer[k].by = "model"
  <2> TAKE k \in keys
  <2>1. PICK j \in keys : answer[k] \in Answers(TextOf(j, b))
    BY <1>2
  <2> QED
    BY <2>1, <1>5, AnswerTypes
<1>7. result' \in [AllKeys -> Value \cup {None}]
  BY <1>3, <1>6
<1>8. \A t \in DOMAIN last : last[t] \in keys /\ answer[last[t]].of = t
  BY <1>3
<1>9. memory' = [t \in Memory |-> IF t \in DOMAIN last THEN answer[last[t]] ELSE memory[t]]
  BY <1>3 DEF Stored
<1>10. memory' \in [Memory -> Value \cup {None}]
  BY <1>6, <1>8, <1>9
<1>11. Faithful(memory) => Faithful(memory')
  BY <1>8, <1>9 DEF Faithful, Memory
<1>12. \A k \in AllKeys : result'[k] = result[k] \/ result'[k].by = "model"
  BY <1>3, <1>6
<1>13. uncached' = uncached \ keys
  BY <1>3 DEF StillWithout
<1>14. \A k \in Keys : k \in uncached' => k \in uncached /\ result'[k] = result[k]
  BY <1>3, <1>13 DEF AllKeys
<1> QED
  BY <1>7, <1>10, <1>11, <1>12, <1>13, <1>14

LEMMA GoroutineTypes ==
    ASSUME TypeInv, at = "ask", NEW b \in batches, Goroutine(b)
    PROVE  TypeInv'
<1> USE DEF TypeInv, TranslatorTypeOK, NoBatchesYet, StagesMean
<1>1. stage \in [batches -> Stages] /\ tries \in [batches -> 0 .. MaxTries]
  OBVIOUS
<1> USE DEF Go, Stages, MaxTries
<1>2. CASE Acquire(b)
  BY <1>1, <1>2 DEF Acquire, callVars, loopVars, chunkVars, mapVars
<1>3. CASE Answered(b)
  <2>1. /\ result' \in [AllKeys -> Value \cup {None}]
        /\ memory' \in [Memory -> Value \cup {None}]
        /\ uncached' \subseteq Keys
    BY <1>3, AnsweredMaps
  <2>2. Go(b, "answered") /\ UNCHANGED <<callVars, loopVars, chunkVars, tries, cancelled>>
    BY <1>3 DEF Answered
  <2> QED
    BY <1>1, <2>1, <2>2 DEF callVars, loopVars, chunkVars
<1>4. CASE Refused(b)
  <2>1. tries[b] < MaxTries /\ tries[b] \in 0 .. MaxTries
    BY <1>1, <1>4 DEF Refused
  <2>2. tries' \in [batches -> 0 .. MaxTries] /\ stage' \in [batches -> Stages]
    BY <1>1, <1>4, <2>1 DEF Refused
  <2> QED
    BY <1>1, <1>4, <2>2 DEF Refused, callVars, loopVars, chunkVars, mapVars
<1>5. CASE Retry(b)
  BY <1>1, <1>5 DEF Retry, HasAttempt, callVars, loopVars, chunkVars, mapVars
<1>6. CASE Stop(b)
  BY <1>1, <1>6 DEF Stop, callVars, loopVars, chunkVars, mapVars
<1> QED
  BY <1>2, <1>3, <1>4, <1>5, <1>6 DEF Goroutine

LEMMA TypesStep == TypeInv /\ [TranslatorNext]_vars => TypeInv'
<1> SUFFICES ASSUME TypeInv, [TranslatorNext]_vars PROVE TypeInv'
  OBVIOUS
<1>1. ASSUME NEW k \in Keys, Look(k) \/ Pack(k) \/ FallBack(k) PROVE TypeInv'
  BY <1>1, LookTypes, PackTypes, FallBackTypes
<1>2. ASSUME LooksDone \/ Packed \/ Asked \/ Return \/ Cancel PROVE TypeInv'
  BY <1>2, PhaseTypes
<1>3. ASSUME NEW b \in batches, at = "ask" /\ Goroutine(b) PROVE TypeInv'
  BY <1>3, GoroutineTypes
<1>4. CASE UNCHANGED vars
  BY <1>4 DEF TypeInv, TranslatorTypeOK, NoBatchesYet, StagesMean,
              vars, callVars, loopVars, chunkVars, askVars, mapVars
<1> QED
  BY <1>1, <1>2, <1>3, <1>4 DEF TranslatorNext, Loop

THEOREM TypesAlways == TranslatorSpec => []TypeInv
BY TypesInit, TypesStep, PTL DEF TranslatorSpec

\* The variables of TranslateLocale stay of their types, with any limits: in
\* particular no batch makes more than MaxTries attempts.
THEOREM TranslatorTypeCorrect == TranslatorSpec => []TranslatorTypeOK
<1>1. TypeInv => TranslatorTypeOK
  BY DEF TypeInv
<1> QED
  BY <1>1, TypesAlways, PTL

-----------------------------------------------------------------------------
(* The memory. *)

LEMMA MemoryStep == TypeInv /\ Faithful(memory) /\ [TranslatorNext]_vars => Faithful(memory')
<1> SUFFICES ASSUME TypeInv, Faithful(memory), [TranslatorNext]_vars PROVE Faithful(memory')
  OBVIOUS
<1>1. TypedMemory(memory)
  BY DEF TypedMemory, TypeInv, TranslatorTypeOK
<1>2. ASSUME NEW k \in Keys, Look(k) PROVE Faithful(memory')
  <2>1. CASE Found(k).by # "dictionary" \/ Found(k) = None
    BY <1>2, <2>1 DEF Look, None, mapVars
  <2>2. CASE Found(k).by = "dictionary" /\ Found(k) # None
    <3>1. Found(k).of = Source[k]
      BY <1>1, <2>2, LookupFinds DEF Found
    <3>2. memory' = [memory EXCEPT ![Source[k]] = Found(k)]
      BY <1>2, <2>2 DEF Look
    <3> QED
      BY <1>1, <3>1, <3>2 DEF Faithful, TypedMemory, Memory
  <2> QED
    BY <2>1, <2>2
<1>3. ASSUME NEW k \in Keys, FallBack(k) PROVE Faithful(memory')
  <2>1. Fallback(Source[k]).of = Source[k]
    BY FallbackTypes
  <2>2. memory' = [memory EXCEPT ![Source[k]] = Fallback(Source[k])]
    BY <1>3 DEF FallBack
  <2> QED
    BY <1>1, <2>1, <2>2 DEF Faithful, TypedMemory, Memory
<1>4. ASSUME NEW b \in batches, Goroutine(b) PROVE Faithful(memory')
  <2>1. CASE Answered(b)
    BY <2>1, AnsweredMaps
  <2>2. CASE ~ Answered(b)
    BY <1>4, <2>2 DEF Goroutine, Acquire, Refused, Retry, Stop, mapVars
  <2> QED
    BY <2>1, <2>2
<1>5. ASSUME NEW k \in Keys, Pack(k) PROVE Faithful(memory')
  BY <1>5 DEF Pack, mapVars
<1>6. ASSUME LooksDone \/ Packed \/ Asked \/ Return \/ Cancel PROVE Faithful(memory')
  BY <1>6 DEF LooksDone, Packed, Asked, Return, Cancel, mapVars
<1>7. CASE UNCHANGED vars
  BY <1>7 DEF vars, mapVars
<1> QED
  BY <1>2, <1>3, <1>4, <1>5, <1>6, <1>7 DEF TranslatorNext, Loop

\* Whatever models answer, and in whatever order batches come back, the memory
\* gives a text only values made for it.
THEOREM MemoryIsFaithful == TranslatorSpec => []MemoryFaithful
<1>1. TranslatorInit => Faithful(memory)
  BY DEF TranslatorInit, Faithful, Memory
<1>2. MemoryFaithful <=> Faithful(memory)
  BY DEF MemoryFaithful, Faithful
<1>3. TypeInv /\ MemoryFaithful /\ [TranslatorNext]_vars => MemoryFaithful'
  BY MemoryStep DEF MemoryFaithful, Faithful
<1>4. TranslatorInit => MemoryFaithful
  BY <1>1, <1>2
<1> QED
  BY <1>3, <1>4, TypesAlways, PTL DEF TranslatorSpec

-----------------------------------------------------------------------------
(* No key is lost between the lookup and the fallback. *)

\* A key without a value is still to be packed, or is in a batch; and the
\* batches are over when the fallback begins.
Batched ==
    /\ at = "pack" => uncached \subseteq todo \cup chunk.keys \cup UNION batches
    /\ at = "ask" => uncached \subseteq UNION batches
    /\ at \in {"pack", "ask"} => ~ call.offline
    /\ at \in {"fallback", "done"} /\ ~ call.offline =>
           uncached \subseteq UNION batches /\ \A b \in batches : stage[b] \in Over

LEMMA BatchedStep == TypeInv /\ Batched /\ [TranslatorNext]_vars => Batched'
<1> SUFFICES ASSUME TypeInv, Batched, [TranslatorNext]_vars PROVE Batched'
  OBVIOUS
<1> USE DEF Batched
<1>1. ASSUME NEW k \in Keys, Look(k) PROVE Batched'
  BY <1>1 DEF Look, callVars, chunkVars, askVars
<1>2. ASSUME NEW k \in Keys, Pack(k) PROVE Batched'
  <2>1. UNCHANGED <<at, call, uncached>> /\ at = "pack" /\ todo' = todo \ {k}
    BY <1>2 DEF Pack, callVars, mapVars
  <2>2. CASE Overflows(k)
    <3>1. batches' = batches \cup {chunk.keys} /\ chunk'.keys = {k}
      BY <1>2, <2>2 DEF Pack, NoChunk
    <3> QED
      BY <2>1, <3>1
  <2>3. CASE ~ Overflows(k)
    <3>1. batches' = batches /\ chunk'.keys = chunk.keys \cup {k}
      BY <1>2, <2>3 DEF Pack
    <3> QED
      BY <2>1, <3>1
  <2> QED
    BY <2>2, <2>3
<1>3. ASSUME NEW k \in Keys, FallBack(k) PROVE Batched'
  BY <1>3 DEF FallBack, callVars, chunkVars, askVars
<1>4. CASE LooksDone
  BY <1>4 DEF LooksDone, callVars, chunkVars, askVars, mapVars, TypeInv, TranslatorTypeOK, Call,
              NoBatchesYet
<1>5. CASE Packed
  BY <1>5 DEF Packed, AllChunks, callVars, mapVars
<1>6. CASE Asked
  BY <1>6 DEF Asked, callVars, chunkVars, askVars, mapVars
<1>7. CASE Return
  BY <1>7 DEF Return, callVars, chunkVars, askVars, mapVars
<1>8. CASE Cancel
  BY <1>8 DEF Cancel, callVars, loopVars, chunkVars, askVars, mapVars
<1>9. ASSUME NEW b \in batches, at = "ask" /\ Goroutine(b) PROVE Batched'
  <2>1. uncached' \subseteq uncached
    <3>1. CASE Answered(b)
      BY <3>1, AnsweredMaps
    <3>2. CASE ~ Answered(b)
      BY <1>9, <3>2 DEF Goroutine, Acquire, Refused, Retry, Stop, mapVars
    <3> QED
      BY <3>1, <3>2
  <2>2. UNCHANGED <<at, batches, call>>
    BY <1>9 DEF Goroutine, Acquire, Answered, Refused, Retry, Stop, loopVars, chunkVars, callVars
  <2> QED
    BY <1>9, <2>1, <2>2
<1>10. CASE UNCHANGED vars
  BY <1>10 DEF vars, callVars, loopVars, chunkVars, askVars, mapVars
<1> QED
  BY <1>1, <1>2, <1>3, <1>4, <1>5, <1>6, <1>7, <1>8, <1>9, <1>10 DEF TranslatorNext, Loop

\* With any limits, keys and answers: a key that falls back was in a batch that
\* answered without it, failed three times, or was cancelled.
THEOREM FallsBackAfterAsking == TranslatorSpec => []FallbackAfterAsking
<1>1. TranslatorInit => Batched
  BY DEF TranslatorInit, Batched
<1>2. TypeInv /\ Batched => FallbackAfterAsking
  <2> SUFFICES ASSUME TypeInv, Batched, at \in {"fallback", "done"}, ~ call.offline,
                      NEW k \in Keys, k \in uncached
               PROVE  \E b \in batches : /\ k \in b
                                         /\ stage[b] = "stopped" => cancelled
                                         /\ stage[b] = "spent" => tries[b] = MaxTries
                                         /\ stage[b] \in Over
    BY DEF FallbackAfterAsking, TypeInv, TranslatorTypeOK
  <2>1. PICK b \in batches : k \in b
    BY DEF Batched
  <2> QED
    BY <2>1 DEF Batched, TypeInv, StagesMean
<1> QED
  BY <1>1, <1>2, BatchedStep, TypesAlways, PTL DEF TranslatorSpec

\* All that holds of a state in the middle of a call, with any limits and models.
THEOREM TranslatorIsSound == TranslatorSpec => []TranslatorInv
<1>1. TranslatorTypeOK /\ FallbackAfterAsking /\ MemoryFaithful => TranslatorInv
  BY DEF TranslatorInv
<1> QED
  BY <1>1, TranslatorTypeCorrect, FallsBackAfterAsking, MemoryIsFaithful, PTL

-----------------------------------------------------------------------------
(* Answers outlive the fallback. *)

\* A key that a loop has still to give a value to has none.
NoValueYet ==
    /\ at = "look" => todo \cap uncached = {} /\ \A k \in todo \cup uncached : result[k] = None
    /\ at \in {"pack", "ask"} => \A k \in uncached : result[k] = None
    /\ at = "fallback" => \A k \in todo : result[k] = None

Kept == \A k \in Keys : result[k] # None => result'[k] = result[k] \/ result'[k].by = "model"

LEMMA ValuesStep == TypeInv /\ NoValueYet /\ [TranslatorNext]_vars => NoValueYet' /\ Kept
<1> SUFFICES ASSUME TypeInv, NoValueYet, [TranslatorNext]_vars PROVE NoValueYet' /\ Kept
  OBVIOUS
<1>1. /\ result \in [AllKeys -> Value \cup {None}] /\ Keys \subseteq AllKeys
      /\ todo \subseteq Keys /\ uncached \subseteq Keys
  BY DEF TypeInv, TranslatorTypeOK, AllKeys
<1>2. ASSUME NEW k \in Keys, Look(k) PROVE NoValueYet' /\ Kept
  <2>1. /\ at = "look" /\ at' = at /\ k \in todo /\ todo' = todo \ {k}
        /\ \/ uncached' = uncached \cup {k} /\ result' = result
           \/ uncached' = uncached /\ result' = [result EXCEPT ![k] = Found(k)]
    BY <1>2 DEF Look
  <2> QED
    BY <1>1, <2>1 DEF NoValueYet, Kept
<1>3. ASSUME NEW k \in Keys, FallBack(k) PROVE NoValueYet' /\ Kept
  BY <1>1, <1>3 DEF FallBack, NoValueYet, Kept
<1>4. ASSUME NEW k \in Keys, Pack(k) PROVE NoValueYet' /\ Kept
  BY <1>4 DEF Pack, NoValueYet, Kept, mapVars
<1>5. ASSUME LooksDone \/ Packed \/ Asked \/ Return \/ Cancel PROVE NoValueYet' /\ Kept
  BY <1>5 DEF LooksDone, Packed, Asked, Return, Cancel, NoValueYet, Kept, mapVars, loopVars
<1>6. ASSUME NEW b \in batches, at = "ask" /\ Goroutine(b) PROVE NoValueYet' /\ Kept
  <2>1. CASE Answered(b)
    <3>1. at' = at
      BY <2>1 DEF Answered, loopVars
    <3>2. \A k \in Keys : k \in uncached' => k \in uncached /\ result'[k] = result[k]
      BY <2>1, AnsweredMaps
    <3>3. \A k \in AllKeys : result'[k] = result[k] \/ result'[k].by = "model"
      BY <2>1, AnsweredMaps
    <3>4. uncached' \subseteq uncached
      BY <2>1, AnsweredMaps
    <3> QED
      BY <1>1, <1>6, <3>1, <3>2, <3>3, <3>4 DEF NoValueYet, Kept
  <2>2. CASE ~ Answered(b)
    <3>1. UNCHANGED <<at, todo, result, uncached>>
      BY <1>6, <2>2 DEF Goroutine, Acquire, Refused, Retry, Stop, mapVars, loopVars
    <3> QED
      BY <3>1 DEF NoValueYet, Kept
  <2> QED
    BY <2>1, <2>2
<1>7. CASE UNCHANGED vars
  BY <1>7 DEF vars, mapVars, loopVars, NoValueYet, Kept
<1> QED
  BY <1>2, <1>3, <1>4, <1>5, <1>6, <1>7 DEF TranslatorNext, Loop

\* A value once found or answered is replaced by an answer at most: the lookup
\* and the fallback only fill keys that have none.
THEOREM AnswersAreKept == TranslatorSpec => AnswersKept
<1>1. TranslatorInit => NoValueYet
  BY DEF TranslatorInit, NoValueYet, AllKeys
<1>2. TypeInv /\ NoValueYet /\ [TranslatorNext]_vars => NoValueYet'
  BY ValuesStep
<1>3. TypeInv /\ NoValueYet /\ [TranslatorNext]_vars =>
          [\A k \in Keys : result[k] # None =>
              result'[k] = result[k] \/ result'[k].by = "model"]_vars
  BY ValuesStep DEF Kept
<1> QED
  BY <1>1, <1>2, <1>3, TypesAlways, PTL DEF TranslatorSpec, AnswersKept

-----------------------------------------------------------------------------
(* Every key gets a value, and one it may have.  The invariant ties what the   *)
(* loops still have to do to what the lookup says of the memory as it was when *)
(* the call began.                                                             *)

\* The lookup has nothing for the key.
Missing(k) == Lookup(k, before, call) = None

MayHave(k) == MayReturn(k, before, call) \cup Answers(Unasked)

\* The first loop changes the memory by the dictionary only.
LooksInMemory == at = "look" => \A t \in Texts :
    \/ memory[t] = before[t]
    \/ call.offline /\ t \in Dictionary /\ memory[t] = Made(t, "dictionary")

\* A model is asked, and a fallback made, for what is missing.
AsksForMissing ==
    /\ \A k \in uncached \cup chunk.keys \cup UNION batches : Missing(k)
    /\ at \in {"pack", "ask", "fallback"} => \A k \in todo : Missing(k)

\* A key without a value is one that a loop, or a batch, has yet to deal with.
Covered == \A k \in Keys : result[k] = None =>
    /\ at # "done"
    /\ at = "look" => k \in todo \cup uncached
    /\ at \in {"pack", "ask"} => k \in uncached
    /\ at = "fallback" => k \in todo

Promised == \A k \in Keys : result[k] = None \/ result[k] \in MayHave(k)

PromiseInv == LooksInMemory /\ AsksForMissing /\ Covered /\ Promised

\* What the first loop finds is what the call may return, and what it misses
\* was missing when the call began.
LEMMA FoundIsPromised ==
    ASSUME TypeInv, LooksInMemory, at = "look", NEW k \in Keys
    PROVE  /\ Found(k) = None => Missing(k)
           /\ Found(k) # None => Found(k) \in MayHave(k)
           /\ Found(k) # None /\ Found(k).by = "dictionary" =>
                  \/ Found(k) = memory[Source[k]]
                  \/ /\ call.offline /\ Source[k] \in Dictionary
                     /\ Found(k) = Made(Source[k], "dictionary")
<1> DEFINE t == Source[k]
<1>1. /\ Made(t, "dictionary") # None /\ Made(t, "glossary") # None
      /\ Made(t, "dictionary").by = "dictionary" /\ Made(t, "glossary").by = "glossary"
  BY DEF Made, None
<1>2. t \in Texts
  OBVIOUS
<1>3. \/ memory[t] = before[t]
      \/ call.offline /\ t \in Dictionary /\ memory[t] = Made(t, "dictionary")
  BY <1>2 DEF LooksInMemory
<1>4. Lookup(k, before, call) # None => Lookup(k, before, call) \in MayHave(k)
  BY DEF MayHave, MayReturn
<1>5. ~ InGlossary(k) /\ call.offline /\ t \in Dictionary =>
          Made(t, "dictionary") \in MayHave(k)
  BY DEF MayHave, MayReturn, InDictionary
<1> HIDE DEF t
<1>6. CASE InGlossary(k)
  BY <1>1, <1>4, <1>6 DEF Found, Lookup, t
<1>7. CASE ~ InGlossary(k) /\ InMemory(k, memory, call)
  <2>1. Found(k) = memory[t] /\ Found(k) # None
    BY <1>7 DEF Found, Lookup, InMemory, t
  <2>2. CASE memory[t] = before[t]
    <3>1. Lookup(k, before, call) = before[t]
      BY <1>7, <2>2 DEF Lookup, InMemory, t
    <3> QED
      BY <1>4, <2>1, <2>2, <3>1 DEF t
  <2>3. CASE call.offline /\ t \in Dictionary /\ memory[t] = Made(t, "dictionary")
    BY <1>5, <1>7, <2>1, <2>3 DEF t
  <2> QED
    BY <1>3, <2>2, <2>3
<1>8. CASE ~ InGlossary(k) /\ ~ InMemory(k, memory, call) /\ InDictionary(k, call)
  <2>1. Found(k) = Made(t, "dictionary") /\ call.offline /\ t \in Dictionary
    BY <1>8 DEF Found, Lookup, InDictionary, t
  <2> QED
    BY <1>1, <1>5, <1>8, <2>1 DEF t
<1>9. CASE ~ InGlossary(k) /\ ~ InMemory(k, memory, call) /\ ~ InDictionary(k, call)
  <2>1. Found(k) = None
    BY <1>9 DEF Found, Lookup
  <2>2. memory[t] = before[t]
    BY <1>3, <1>9 DEF InDictionary, t
  <2>3. ~ InMemory(k, before, call)
    BY <1>9, <2>2 DEF InMemory, t
  <2> QED
    BY <1>9, <2>1, <2>3 DEF Missing, Lookup
<1> QED
  BY <1>6, <1>7, <1>8, <1>9

LEMMA LookPromises ==
    ASSUME TypeInv, PromiseInv, NEW k \in Keys, Look(k)
    PROVE  PromiseInv'
<1>1. /\ at = "look" /\ at' = at /\ todo' = todo \ {k}
      /\ UNCHANGED <<call, before, chunk, batches>>
  BY DEF Look, callVars, chunkVars
<1>2. /\ memory \in [Memory -> Value \cup {None}] /\ Source[k] \in Memory
      /\ result \in [AllKeys -> Value \cup {None}] /\ Keys \subseteq AllKeys
  BY DEF TypeInv, TranslatorTypeOK, Memory, AllKeys
<1>3. \A i \in Keys : (Missing(i)' <=> Missing(i)) /\ MayHave(i)' = MayHave(i)
  BY <1>1 DEF Missing, MayHave
<1>4. chunk.keys \subseteq Keys /\ UNION batches \subseteq Keys /\ uncached \subseteq Keys
  BY DEF TypeInv, TranslatorTypeOK
<1>5. CASE Found(k) = None
  <2>1. uncached' = uncached \cup {k} /\ result' = result /\ memory' = memory
    BY <1>5 DEF Look
  <2>2. Missing(k)
    BY <1>1, <1>5, FoundIsPromised DEF PromiseInv
  <2>3. LooksInMemory' /\ Covered' /\ Promised'
    BY <1>1, <1>3, <2>1 DEF PromiseInv, LooksInMemory, Covered, Promised
  <2>4. AsksForMissing'
    BY <1>1, <1>3, <1>4, <2>1, <2>2 DEF PromiseInv, AsksForMissing
  <2> QED
    BY <2>3, <2>4 DEF PromiseInv
<1>6. CASE Found(k) # None
  <2>1. /\ uncached' = uncached
        /\ result' = [result EXCEPT ![k] = Found(k)]
        /\ memory' = IF Found(k).by = "dictionary"
                     THEN [memory EXCEPT ![Source[k]] = Found(k)] ELSE memory
    BY <1>6 DEF Look
  <2>2. Found(k) \in MayHave(k)
    BY <1>1, <1>6, FoundIsPromised DEF PromiseInv
  <2>3. Covered' /\ Promised'
    BY <1>1, <1>2, <1>3, <1>6, <2>1, <2>2 DEF PromiseInv, Covered, Promised
  <2>4. AsksForMissing'
    BY <1>1, <1>3, <1>4, <2>1 DEF PromiseInv, AsksForMissing
  <2>5. LooksInMemory'
    <3> SUFFICES ASSUME NEW t \in Texts
                 PROVE  \/ memory'[t] = before[t]
                        \/ call.offline /\ t \in Dictionary /\ memory'[t] = Made(t, "dictionary")
      BY <1>1 DEF LooksInMemory
    <3>1. CASE memory'[t] = memory[t]
      BY <1>1, <3>1 DEF PromiseInv, LooksInMemory
    <3>2. CASE memory'[t] # memory[t]
      <4>1. t = Source[k] /\ memory'[t] = Found(k) /\ Found(k).by = "dictionary"
        BY <1>2, <2>1, <3>2 DEF Memory
      <4> QED
        BY <1>1, <1>6, <3>2, <4>1, FoundIsPromised DEF PromiseInv
    <3> QED
      BY <3>1, <3>2
  <2> QED
    BY <2>3, <2>4, <2>5 DEF PromiseInv
<1> QED
  BY <1>5, <1>6

LEMMA PackPromises ==
    ASSUME TypeInv, PromiseInv, NEW k \in Keys, Pack(k)
    PROVE  PromiseInv'
<1>1. /\ at = "pack" /\ at' = at /\ todo' = todo \ {k} /\ k \in todo
      /\ UNCHANGED <<call, before, result, uncached, memory>>
  BY DEF Pack, callVars, mapVars
<1>2. \A i \in Keys : (Missing(i)' <=> Missing(i)) /\ MayHave(i)' = MayHave(i)
  BY <1>1 DEF Missing, MayHave
<1>3. chunk.keys \subseteq Keys /\ UNION batches \subseteq Keys /\ uncached \subseteq Keys
      /\ todo \subseteq Keys
  BY DEF TypeInv, TranslatorTypeOK
<1>4. ASSUME NEW i \in chunk'.keys \cup UNION batches'
      PROVE  i = k \/ i \in chunk.keys \cup UNION batches
  <2>1. CASE Overflows(k)
    <3>1. batches' = batches \cup {chunk.keys} /\ chunk'.keys = {k}
      BY <2>1 DEF Pack, NoChunk
    <3> QED
      BY <1>4, <3>1
  <2>2. CASE ~ Overflows(k)
    <3>1. batches' = batches /\ chunk'.keys = chunk.keys \cup {k}
      BY <2>2 DEF Pack
    <3> QED
      BY <1>4, <3>1
  <2> QED
    BY <2>1, <2>2
<1>5. Missing(k)
  BY <1>1 DEF PromiseInv, AsksForMissing
<1>6. AsksForMissing'
  <2>1. \A i \in chunk'.keys \cup UNION batches' : Missing(i)'
    <3> TAKE i \in chunk'.keys \cup UNION batches'
    <3>1. i = k \/ i \in chunk.keys \cup UNION batches
      BY <1>4
    <3>2. Missing(i)
      BY <1>5, <3>1 DEF PromiseInv, AsksForMissing
    <3> QED
      BY <1>1, <3>2 DEF Missing
  <2> QED
    BY <1>1, <1>2, <1>3, <2>1 DEF PromiseInv, AsksForMissing
<1> QED
  BY <1>1, <1>2, <1>6 DEF PromiseInv, LooksInMemory, Covered, Promised

LEMMA FallBackPromises ==
    ASSUME TypeInv, PromiseInv, NEW k \in Keys, FallBack(k)
    PROVE  PromiseInv'
<1>1. /\ at = "fallback" /\ at' = at /\ todo' = todo \ {k} /\ k \in todo
      /\ result' = [result EXCEPT ![k] = Fallback(Source[k])]
      /\ UNCHANGED <<call, before, uncached, chunk, batches>>
  BY DEF FallBack, callVars, chunkVars
<1>2. \A i \in Keys : (Missing(i)' <=> Missing(i)) /\ MayHave(i)' = MayHave(i)
  BY <1>1 DEF Missing, MayHave
<1>3. /\ chunk.keys \subseteq Keys /\ UNION batches \subseteq Keys /\ uncached \subseteq Keys
      /\ todo \subseteq Keys
      /\ result \in [AllKeys -> Value \cup {None}] /\ Keys \subseteq AllKeys
  BY DEF TypeInv, TranslatorTypeOK, AllKeys
<1>4. Missing(k)
  BY <1>1 DEF PromiseInv, AsksForMissing
<1>5. Fallback(Source[k]) \in MayHave(k) /\ Fallback(Source[k]) # None
  BY <1>4, FallbackTypes DEF MayHave, MayReturn, Missing, Fallback, Made, None
<1>6. Covered' /\ Promised'
  BY <1>1, <1>2, <1>3, <1>5 DEF PromiseInv, Covered, Promised
<1>7. AsksForMissing'
  BY <1>1, <1>2, <1>3 DEF PromiseInv, AsksForMissing
<1> QED
  BY <1>1, <1>6, <1>7 DEF PromiseInv, LooksInMemory

\* An answer is made for the text of its key if the key is of the batch.
LEMMA AnsweredPromises ==
    ASSUME TypeInv, PromiseInv, at = "ask", NEW b \in batches, Answered(b)
    PROVE  PromiseInv'
<1>1. PICK keys \in SUBSET (b \cup Volunteers) \ {{}} :
      \E answer \in [keys -> UNION {Answers(TextOf(k, b)) : k \in keys}] :
          /\ \A k \in keys : answer[k].of = TextOf(k, b)
          /\ result' = [k \in AllKeys |-> IF k \in keys THEN answer[k] ELSE result[k]]
          /\ uncached' = StillWithout(keys)
  BY ZenonT(60) DEF Answered
<1>2. PICK answer \in [keys -> UNION {Answers(TextOf(k, b)) : k \in keys}] :
          /\ \A k \in keys : answer[k].of = TextOf(k, b)
          /\ result' = [k \in AllKeys |-> IF k \in keys THEN answer[k] ELSE result[k]]
          /\ uncached' = uncached \ keys
  BY <1>1 DEF StillWithout
<1>3. UNCHANGED <<at, todo, call, before, chunk, batches>>
  BY DEF Answered, loopVars, callVars, chunkVars
<1>4. \A i \in Keys : (Missing(i)' <=> Missing(i)) /\ MayHave(i)' = MayHave(i)
  BY <1>3 DEF Missing, MayHave
<1>5. /\ chunk.keys \subseteq Keys /\ UNION batches \subseteq Keys /\ uncached \subseteq Keys
      /\ todo \subseteq Keys /\ Keys \subseteq AllKeys
  BY DEF TypeInv, TranslatorTypeOK, AllKeys
<1>6. ASSUME NEW k \in keys
      PROVE  answer[k] \in Answers(TextOf(k, b)) /\ answer[k] # None
  <2>1. PICK j \in keys : answer[k] \in Answers(TextOf(j, b))
    BY <1>2
  <2>2. PICK f \in Forms : answer[k] = [of |-> TextOf(j, b), by |-> "model", form |-> f]
    BY <2>1 DEF Answers
  <2>3. answer[k].of = TextOf(j, b) /\ answer[k].by = "model"
    BY <2>2
  <2>4. TextOf(j, b) = TextOf(k, b)
    BY <1>2, <2>3
  <2>5. None.by # "model"
    BY DEF None
  <2> QED
    BY <2>2, <2>3, <2>4, <2>5 DEF Answers
<1>7. ASSUME NEW k \in Keys, k \in keys
      PROVE  answer[k] \in MayHave(k)
  <2>1. CASE k \in b
    <3>1. Missing(k)
      BY <2>1 DEF PromiseInv, AsksForMissing
    <3> QED
      BY <1>6, <1>7, <2>1, <3>1 DEF Missing, MayHave, MayReturn, TextOf
  <2>2. CASE k \notin b
    BY <1>6, <1>7, <2>2 DEF MayHave, TextOf
  <2> QED
    BY <2>1, <2>2
<1>8. \A k \in Keys : result'[k] = IF k \in keys THEN answer[k] ELSE result[k]
  BY <1>2, <1>5
<1>9. Promised'
  BY <1>4, <1>7, <1>8 DEF PromiseInv, Promised
<1>10. Covered'
  BY <1>2, <1>3, <1>6, <1>8 DEF PromiseInv, Covered
<1>11. AsksForMissing'
  BY <1>2, <1>3, <1>4, <1>5 DEF PromiseInv, AsksForMissing
<1> QED
  BY <1>3, <1>9, <1>10, <1>11 DEF PromiseInv, LooksInMemory

LEMMA PromisesStep == TypeInv /\ PromiseInv /\ [TranslatorNext]_vars => PromiseInv'
<1> SUFFICES ASSUME TypeInv, PromiseInv, [TranslatorNext]_vars PROVE PromiseInv'
  OBVIOUS
<1>1. ASSUME NEW k \in Keys, Look(k) \/ Pack(k) \/ FallBack(k) PROVE PromiseInv'
  BY <1>1, LookPromises, PackPromises, FallBackPromises
<1>2. ASSUME UNCHANGED <<call, before, result, uncached, memory>>,
             chunk'.keys \cup UNION batches' \subseteq chunk.keys \cup UNION batches,
             \/ at' = at /\ todo' = todo
             \/ at = "look" /\ todo = {} /\ at' \in {"pack", "fallback"} /\ todo' = uncached
             \/ at = "pack" /\ at' = "ask" /\ todo' = todo
             \/ at = "ask" /\ at' = "fallback" /\ todo' = uncached
             \/ at = "fallback" /\ todo = {} /\ at' = "done" /\ todo' = todo
      PROVE  PromiseInv'
  <2>1. LooksInMemory'
    BY <1>2 DEF PromiseInv, LooksInMemory
  <2>2. AsksForMissing'
    BY <1>2 DEF PromiseInv, AsksForMissing, Missing
  <2>3. Covered' /\ Promised'
    BY <1>2 DEF PromiseInv, Covered, Promised, MayHave
  <2> QED
    BY <2>1, <2>2, <2>3 DEF PromiseInv
<1>3. CASE LooksDone \/ Asked \/ Return
  BY <1>2, <1>3 DEF LooksDone, Asked, Return, callVars, chunkVars, mapVars
<1>4. CASE Packed
  <2>1. chunk'.keys \cup UNION batches' \subseteq chunk.keys \cup UNION batches
    BY <1>4 DEF Packed, AllChunks, NoChunk
  <2> QED
    BY <1>2, <1>4, <2>1 DEF Packed, callVars, mapVars
<1>5. CASE Cancel \/ UNCHANGED vars
  BY <1>2, <1>5 DEF Cancel, vars, callVars, loopVars, chunkVars, mapVars
<1>6. ASSUME NEW b \in batches, at = "ask" /\ Goroutine(b) PROVE PromiseInv'
  <2>1. CASE Answered(b)
    BY <1>6, <2>1, AnsweredPromises
  <2>2. CASE ~ Answered(b)
    BY <1>2, <1>6, <2>2
    DEF Goroutine, Acquire, Refused, Retry, Stop, callVars, loopVars, chunkVars, mapVars
  <2> QED
    BY <2>1, <2>2
<1> QED
  BY <1>1, <1>3, <1>4, <1>5, <1>6 DEF TranslatorNext, Loop

\* With any limits, models and memory: when the call returns every key has a
\* value, the one that the order of lookup gives it or one that was made for
\* what the lookup missed.
THEOREM CallsReturnAsPromised == TranslatorSpec => []ReturnsAsPromised
<1>1. TranslatorInit => PromiseInv
  BY DEF TranslatorInit, PromiseInv, LooksInMemory, AsksForMissing, Covered, Promised, NoChunk,
     AllKeys
<1>2. PromiseInv => ReturnsAsPromised
  BY DEF PromiseInv, Covered, Promised, MayHave, ReturnsAsPromised
<1> QED
  BY <1>1, <1>2, PromisesStep, TypesAlways, PTL DEF TranslatorSpec
=============================================================================
