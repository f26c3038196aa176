---------------------------- MODULE PipelineProofs ----------------------------
(***************************************************************************)
(* The localization pipeline, for any number of files, locales and runs,   *)
(* and any number of edits, restores, failed writes and killed runs.       *)
(*                                                                         *)
(* Typed gives the types of everything, the locals of the runs included.   *)
(* On it rest four arguments that do not need each other: what a run has   *)
(* in hand for each key (ReportTrue), what it leaves alone (PersonKept),   *)
(* where a string is while it moves from the code to the catalog           *)
(* (SourceKnowsCode, TextRecoverable), and what the memory has for what    *)
(* is in the catalogs (MemoryAgrees).                                      *)
(***************************************************************************)
EXTENDS Pipeline, TLAPS

Entries == {"none", "original", "humanized"}
Stages  == Active \cup {"idle", "failed", "done", "dead"}
Plans   == UNION {[S -> Content] : S \in SUBSET Files}
Values  == T!Value \cup {None}

Local == [at : Stages, mode : {"skip", "replace"}, dry : BOOLEAN, alone : BOOLEAN,
          scanned : SUBSET Files, entry : [Files -> Entries],
          known : [Locales -> Catalog], plan : Plans, data : [Locales -> Catalog],
          mem : TM, flagged : SUBSET Files, round : 0 .. 2, passed : BOOLEAN,
          todo : SUBSET Locales]
Dir == [files : SUBSET Files, backup : [Names -> Content \cup {<<>>}],
        was : [Files -> Content \cup {<<>>}], made : Nat]

Disk == /\ code \in [Files -> Content]
        /\ src \in [Files -> Entries]
        /\ cat \in [Locales -> Catalog]
        /\ saved \in TM
        /\ ckpts \in [0 .. MaxTime -> Dir]
Typed == /\ Disk
         /\ clock \in 0 .. MaxTime
         /\ run \in [Runs -> Local]
         /\ spent \in [mishaps : Nat, edits : Nat, restores : Nat]

LEMMA TypedImpliesTypeOK == Typed => PipelineTypeOK
<1> SUFFICES ASSUME Typed PROVE PipelineTypeOK
  OBVIOUS
<1>1. \A s \in DOMAIN ckpts : /\ ckpts[s].files \subseteq Files
                              /\ ckpts[s].backup \in [Names -> Content \cup {<<>>}]
  BY DEF Typed, Disk, Dir
<1>2. ASSUME NEW p \in Plans PROVE p \in [DOMAIN p -> Content]
  BY DEF Plans
<1>3. ASSUME NEW r \in Runs
      PROVE  /\ run[r].at \in Active \cup {"idle", "failed", "done", "dead"}
             /\ run[r].known \in [Locales -> Catalog] /\ run[r].data \in [Locales -> Catalog]
             /\ run[r].mem \in TM
             /\ run[r].plan \in [DOMAIN run[r].plan -> Content]
             /\ run[r].scanned \subseteq Files /\ run[r].flagged \subseteq Files
             /\ run[r].round \in 0 .. 2
  <2>1. run[r] \in Local
    BY DEF Typed
  <2> QED
    BY <1>2, <2>1 DEF Local, Stages
<1> QED
  BY <1>1, <1>3 DEF Typed, Disk, PipelineTypeOK, Entries

-----------------------------------------------------------------------------
(* Values, and what a call of the translator may return. *)

LEMMA NoValue == None \notin T!Value /\ None \in Values
BY DEF None, Values, T!None, T!Value, T!Origins

\* A text without glossary and dictionary: what the memory has, unless it is
\* from an old version or not wanted, else an answer or the fallback.
LEMMA Returned ==
    ASSUME NEW t \in Texts, NEW mem \in [Texts -> Values], NEW keys,
           NEW v \in T!MayReturn(t, mem, Feedback(keys))
    PROVE  /\ v \in T!Value
           /\ T!Lookup(t, mem, Feedback(keys)) # None => v = mem[t]
           /\ T!Lookup(t, mem, Feedback(keys)) = None => v.of = t /\ v.by \in {"model", "fallback"}
<1>1. ~T!InGlossary(t) /\ ~T!InDictionary(t, Feedback(keys))
  BY DEF T!InGlossary, T!InDictionary
<1>2. T!Lookup(t, mem, Feedback(keys)) =
        IF T!InMemory(t, mem, Feedback(keys)) THEN mem[t] ELSE None
  BY <1>1 DEF T!Lookup, T!InMemory, None
<1>3. T!InMemory(t, mem, Feedback(keys)) => mem[t] \in T!Value /\ mem[t] # None
  BY DEF T!InMemory, Values, None
<1>4. T!Answers(t) \cup {T!Fallback(t)} \subseteq
        {x \in T!Value : x.of = t /\ x.by \in {"model", "fallback"}}
  BY PipelineAssumption DEF T!Answers, T!Fallback, T!Made, T!Value, T!Origins
<1>5. v \in IF T!Lookup(t, mem, Feedback(keys)) # None
             THEN {T!Lookup(t, mem, Feedback(keys))}
             ELSE T!Answers(t) \cup {T!Fallback(t)}
  BY <1>1 DEF T!MayReturn, None
<1> QED
  BY <1>2, <1>3, <1>4, <1>5

-----------------------------------------------------------------------------
(* The locals of a run, and how a step changes them. *)

\* Run r becomes x; the others stay.
Becomes(r, x) ==
    /\ run' \in [Runs -> Local]
    /\ run'[r] = x
    /\ \A q \in Runs : q # r => run'[q] = run[q]

LEMMA UpdateBecomes ==
    ASSUME Typed, NEW r \in Runs, NEW x \in Local, run' = [run EXCEPT ![r] = x]
    PROVE  Becomes(r, x)
BY DEF Typed, Becomes

LEMMA FreshTypes ==
    /\ Fresh \in Local
    /\ Fresh.at = "idle" /\ Fresh.alone = TRUE /\ Fresh.mem = [l \in Locales |-> [t \in Texts |-> None]]
<1>1. [f \in {} |-> "refs"] \in Plans
  BY DEF Plans
<1>2. [l \in Locales |-> [f \in Files |-> None]] \in [Locales -> Catalog]
  BY DEF Catalog
<1>3. [l \in Locales |-> [t \in Texts |-> None]] \in TM
  BY DEF TM
<1> QED
  BY <1>1, <1>2, <1>3 DEF Fresh, Local, Stages, Active, Entries

LEMMA EndedTypes ==
    ASSUME Typed, NEW r \in Runs, NEW how \in Stages
    PROVE  /\ Ended(r, how) \in Local
           /\ Ended(r, how).at = how /\ Ended(r, how).alone = run[r].alone
<1>1. run[r] \in Local
  BY DEF Typed
<1> QED
  BY <1>1, FreshTypes DEF Ended, Local

LEMMA PlanTypes ==
    ASSUME NEW S \in SUBSET Files, NEW p \in [S -> Content]
    PROVE  /\ p \in Plans
           /\ \A f \in S : [g \in S \ {f} |-> p[g]] \in Plans
<1>1. p \in Plans
  BY DEF Plans
<1>2. ASSUME NEW f \in S PROVE [g \in S \ {f} |-> p[g]] \in Plans
  <2>1. [g \in S \ {f} |-> p[g]] \in [S \ {f} -> Content] /\ S \ {f} \in SUBSET Files
    OBVIOUS
  <2> HIDE DEF Plans
  <2> QED
    BY <2>1 DEF Plans
<1> QED
  BY <1>1, <1>2

LEMMA PlanShape ==
    ASSUME NEW p \in Plans
    PROVE  DOMAIN p \in SUBSET Files /\ p \in [DOMAIN p -> Content]
BY DEF Plans

LEMMA OwnTypes == \A f \in Files : {Own(f, "literal"), Own(f, "refs"), Own(f, "garbled"),
                                    Own(f, "torn")} \subseteq Content
BY DEF Own, Content

\* What a verdict of the critic makes of a run.
LEMMA VerifiedBy ==
    ASSUME Typed, NEW r \in Runs, NEW x \in Local
    PROVE  LET passed == Passes(r, x.data) IN
           /\ Verified(r, x) \in Local
           /\ \/ /\ Verified(r, x) = [x EXCEPT !.at = "retry", !.passed = FALSE]
                 /\ x.round < 2
              \/ x.dry /\ Verified(r, x) = Ended(r, "done")
              \/ ~x.dry /\ Verified(r, x) = [x EXCEPT !.at = "code", !.passed = passed]
<1>1. Passes(r, x.data) \in BOOLEAN
  BY DEF Passes
<1>2. [x EXCEPT !.at = "retry", !.passed = FALSE] \in Local
      /\ [x EXCEPT !.at = "code", !.passed = Passes(r, x.data)] \in Local
  BY <1>1 DEF Local, Stages, Active
<1>3. Ended(r, "done") \in Local
  BY EndedTypes DEF Stages
<1> QED
  BY <1>2, <1>3 DEF Verified

\* The locals but for the place in the run, the critic's verdict, and whether
\* the run is alone.
Alike(x, y) ==
    /\ y.mode = x.mode /\ y.dry = x.dry /\ y.scanned = x.scanned
    /\ y.entry = x.entry /\ y.known = x.known /\ y.plan = x.plan /\ y.data = x.data
    /\ y.mem = x.mem /\ y.flagged = x.flagged /\ y.round = x.round /\ y.todo = x.todo

LEMMA VerifiedShape ==
    ASSUME Typed, NEW r \in Runs, NEW x \in Local
    PROVE  /\ Verified(r, x) \in Local
           /\ \/ x.dry /\ Verified(r, x) = Ended(r, "done")
              \/ /\ Alike(x, Verified(r, x)) /\ Verified(r, x).alone = x.alone
                 /\ \/ Verified(r, x).at = "retry" /\ x.round < 2
                    \/ /\ Verified(r, x).at = "code" /\ ~x.dry
                       /\ Verified(r, x).passed = Passes(r, x.data)
<1> DEFINE passed == Passes(r, x.data)
           y1 == [x EXCEPT !.at = "retry", !.passed = FALSE]
           y2 == [x EXCEPT !.at = "code", !.passed = passed]
<1>1. /\ Verified(r, x) \in Local
      /\ \/ Verified(r, x) = y1 /\ x.round < 2
         \/ x.dry /\ Verified(r, x) = Ended(r, "done")
         \/ ~x.dry /\ Verified(r, x) = y2
  BY VerifiedBy
<1>2. Alike(x, y1) /\ y1.at = "retry" /\ y1.alone = x.alone
  BY DEF Alike, Local
<1> HIDE DEF passed
<1>3. Alike(x, y2) /\ y2.at = "code" /\ y2.passed = passed /\ y2.alone = x.alone
  BY DEF Alike, Local
<1> HIDE DEF y1, y2
<1> QED
  BY <1>1, <1>2, <1>3 DEF passed

\* The values that come back, and what is made of them.
LEMMA RepliesTypes ==
    ASSUME Typed, NEW r \in Runs, NEW ask \in [Locales -> SUBSET Files], NEW keys,
           \A l \in Locales : ask[l] \subseteq KeysOf(r),
           NEW v \in Replies(r, ask, Feedback(keys))
    PROVE  /\ v \in [Locales -> [Files -> Values]]
           /\ \A l \in Locales, f \in Files :
                 /\ f \notin ask[l] => v[l][f] = None
                 /\ f \in ask[l] => v[l][f] \in T!MayReturn(TextOf(r, f), run[r].mem[l], Feedback(keys))
<1>1. run[r] \in Local
  BY DEF Typed
<1>2. ASSUME NEW l \in Locales, NEW f \in Files
      PROVE  /\ f \notin ask[l] => v[l][f] = None
             /\ f \in ask[l] => v[l][f] \in T!MayReturn(TextOf(r, f), run[r].mem[l], Feedback(keys))
  <2>1. v[l][f] \in MayCome(r, ask, Feedback(keys), l, f)
    BY DEF Replies
  <2> QED
    BY <2>1 DEF MayCome
<1>3. ASSUME NEW l \in Locales, NEW f \in Files PROVE v[l][f] \in Values
  <2>1. CASE f \in ask[l]
    <3>1. TextOf(r, f) \in Texts
      BY <1>1, <2>1 DEF TextOf, KeysOf, Texts, Local, Entries
    <3>2. run[r].mem[l] \in [Texts -> Values]
      BY <1>1 DEF Local, TM, Values
    <3> QED
      BY <1>2, <2>1, <3>1, <3>2, Returned DEF Values
  <2> QED
    BY <1>2, <2>1, NoValue
<1>4. \E S : v \in [Locales -> [Files -> S]]
  BY DEF Replies
<1> QED
  BY <1>2, <1>3, <1>4

LEMMA MadeOfReplies ==
    ASSUME Typed, NEW r \in Runs, NEW v \in [Locales -> [Files -> Values]], NEW call
    PROVE  /\ \A old \in [Locales -> Catalog] : Merged(old, v) \in [Locales -> Catalog]
           /\ Kept(r) \in [Locales -> Catalog]
           /\ Learned(r, v, call) \in TM
<1>1. run[r] \in Local
  BY DEF Typed
<1>2. \A old \in [Locales -> Catalog] : Merged(old, v) \in [Locales -> Catalog]
  BY DEF Merged, Catalog, Values
<1>3. Kept(r) \in [Locales -> Catalog]
  BY <1>1, NoValue DEF Kept, Catalog, Local
<1>4. Learned(r, v, call) \in TM
  <2>1. run[r].mem \in [Locales -> [Texts -> Values]]
    BY <1>1 DEF Local, TM, Values
  <2>2. \A t \in Texts : t[1] \in Files
    BY DEF Texts
  <2> QED
    BY <2>1, <2>2 DEF Learned, TM, Values
<1> QED
  BY <1>2, <1>3, <1>4

-----------------------------------------------------------------------------
(* What each step of a run makes of it. *)

LEMMA ReferBecomes ==
    ASSUME Typed, NEW r \in Runs, Refer(r)
    PROVE  \E e \in [Files -> Entries] :
              /\ \A f \in Files : e[f] = Referred(r, f)
              /\ \/ Becomes(r, Ended(r, "done")) /\ \A f \in Files : e[f] = "none"
                 \/ \E at \in {"plan", "checkpoint"} :
                       /\ at = "plan" <=> run[r].dry
                       /\ Becomes(r, [run[r] EXCEPT !.entry = e, !.at = at])
<1>1. run[r] \in Local /\ run \in [Runs -> Local]
  BY DEF Typed
<1> DEFINE e == [f \in Files |-> Referred(r, f)]
           at == IF run[r].dry THEN "plan" ELSE "checkpoint"
<1>2. e \in [Files -> Entries]
  BY <1>1 DEF Referred, Local, Entries
<1>3. run' = [run EXCEPT ![r] = IF \A f \in Files : e[f] = "none" THEN Ended(r, "done")
                                ELSE [@ EXCEPT !.entry = e, !.at = at]]
  BY DEF Refer
<1>4. at \in {"plan", "checkpoint"} /\ (at = "plan" <=> run[r].dry)
  BY <1>1 DEF Local
<1>5. \A f \in Files : e[f] = Referred(r, f)
  OBVIOUS
<1> HIDE DEF e, at
<1>6. [run[r] EXCEPT !.entry = e, !.at = at] \in Local
  BY <1>1, <1>2, <1>4 DEF Local, Stages, Active
<1>7. Ended(r, "done") \in Local
  BY EndedTypes DEF Stages
<1> QED
  BY <1>1, <1>2, <1>3, <1>4, <1>5, <1>6, <1>7, UpdateBecomes

LEMMA PlanBecomes ==
    ASSUME Typed, NEW r \in Runs, Plan(r)
    PROVE  \/ Becomes(r, Ended(r, "failed"))
           \/ \E p \in Plans :
                 /\ DOMAIN p \subseteq run[r].scanned
                 /\ \A f \in DOMAIN p : p[f] = Own(f, IF code[f] = Own(f, "literal")
                                                     THEN "refs" ELSE "garbled")
                 /\ Becomes(r, [run[r] EXCEPT !.at = "translate", !.plan = p])
<1>1. run[r] \in Local /\ run \in [Runs -> Local]
  BY DEF Typed
<1>2. CASE run' = [run EXCEPT ![r] = Ended(r, "failed")]
  <2>1. Ended(r, "failed") \in Local
    BY EndedTypes DEF Stages
  <2> QED
    BY <1>2, <2>1, UpdateBecomes
<1>3. ASSUME NEW files \in SUBSET run[r].scanned,
             run' = [run EXCEPT ![r].at = "translate",
                                ![r].plan = [f \in files |->
                                    Own(f, IF code[f] = Own(f, "literal") THEN "refs" ELSE "garbled")]]
      PROVE  \E p \in Plans :
                 /\ DOMAIN p \subseteq run[r].scanned
                 /\ \A f \in DOMAIN p : p[f] = Own(f, IF code[f] = Own(f, "literal")
                                                     THEN "refs" ELSE "garbled")
                 /\ Becomes(r, [run[r] EXCEPT !.at = "translate", !.plan = p])
  <2> DEFINE p == [f \in files |-> Own(f, IF code[f] = Own(f, "literal") THEN "refs" ELSE "garbled")]
  <2>1. files \subseteq Files
    BY <1>1 DEF Local
  <2>2. p \in [files -> Content]
    BY <2>1, OwnTypes
  <2>3. p \in Plans
    BY <2>1, <2>2, PlanTypes
  <2>4. run' = [run EXCEPT ![r] = [run[r] EXCEPT !.at = "translate", !.plan = p]]
    BY <1>1, <1>3
  <2>5. DOMAIN p = files
        /\ \A f \in files : p[f] = Own(f, IF code[f] = Own(f, "literal") THEN "refs" ELSE "garbled")
    OBVIOUS
  <2> HIDE DEF p
  <2>6. [run[r] EXCEPT !.at = "translate", !.plan = p] \in Local
    BY <1>1, <2>3 DEF Local, Stages, Active
  <2>7. Becomes(r, [run[r] EXCEPT !.at = "translate", !.plan = p])
    BY <2>4, <2>6, UpdateBecomes
  <2> QED
    BY <2>3, <2>5, <2>7
<1> QED
  BY <1>2, <1>3 DEF Plan

\* A reply to a first translation, or to a retry, and the run it makes.
LEMMA TranslateBecomes ==
    ASSUME Typed, NEW r \in Runs, Translate(r)
    PROVE  \E v \in [Locales -> [Files -> Values]] :
              /\ \A l \in Locales, f \in Files :
                    /\ f \notin Wanted(r, l) => v[l][f] = None
                    /\ f \in Wanted(r, l) =>
                         v[l][f] \in T!MayReturn(TextOf(r, f), run[r].mem[l], Feedback({}))
              /\ LET x == [run[r] EXCEPT !.data = Merged(Kept(r), v),
                                         !.mem = Learned(r, v, Feedback({}))]
                 IN  x \in Local /\ Becomes(r, Verified(r, x))
<1>1. run[r] \in Local /\ run \in [Runs -> Local]
  BY DEF Typed
<1> DEFINE ask == [l \in Locales |-> Wanted(r, l)]
<1>2. ask \in [Locales -> SUBSET Files] /\ \A l \in Locales : ask[l] \subseteq KeysOf(r)
  BY DEF Wanted, KeysOf
<1>3. PICK v \in Replies(r, ask, Feedback({})) :
         run' = [run EXCEPT ![r] = Verified(r, [run[r] EXCEPT !.data = Merged(Kept(r), v),
                                                  !.mem = Learned(r, v, Feedback({}))])]
  BY DEF Translate
<1>4. \A l \in Locales : ask[l] = Wanted(r, l)
  OBVIOUS
<1> HIDE DEF ask
<1>5. /\ v \in [Locales -> [Files -> Values]]
      /\ \A l \in Locales, f \in Files :
            /\ f \notin ask[l] => v[l][f] = None
            /\ f \in ask[l] => v[l][f] \in T!MayReturn(TextOf(r, f), run[r].mem[l], Feedback({}))
  BY <1>2, RepliesTypes
<1> DEFINE x == [run[r] EXCEPT !.data = Merged(Kept(r), v), !.mem = Learned(r, v, Feedback({}))]
<1>6. x \in Local
  <2>1. Merged(Kept(r), v) \in [Locales -> Catalog] /\ Learned(r, v, Feedback({})) \in TM
    BY <1>5, MadeOfReplies
  <2> QED
    BY <1>1, <2>1 DEF Local
<1>7. run' = [run EXCEPT ![r] = Verified(r, x)]
  BY <1>1, <1>3
<1> HIDE DEF x
<1>8. Becomes(r, Verified(r, x))
  BY <1>6, <1>7, VerifiedBy, UpdateBecomes
<1> QED
  BY <1>4, <1>5, <1>6, <1>8 DEF x

\* The keys that a retry asks for.
Flagged(r) == run[r].flagged \cup
              {f \in KeysOf(r) : \E l \in Locales : Hinted(r, run[r].data[l][f], f)}
Again(r)   == Feedback({TextOf(r, f) : f \in Flagged(r)})

\* The keys that were flagged are keys of the run.
FlaggedKeys == \A r \in Runs : run[r].flagged \subseteq KeysOf(r)

LEMMA RetryBecomes ==
    ASSUME Typed, FlaggedKeys, NEW r \in Runs, Retry(r), run[r].round < 2
    PROVE  \E v \in [Locales -> [Files -> Values]] :
              /\ \A l \in Locales, f \in Files :
                    /\ f \notin Flagged(r) => v[l][f] = None
                    /\ f \in Flagged(r) =>
                         v[l][f] \in T!MayReturn(TextOf(r, f), run[r].mem[l], Again(r))
              /\ LET x == [run[r] EXCEPT !.round = run[r].round + 1, !.flagged = Flagged(r),
                                         !.data = Merged(run[r].data, v),
                                         !.mem = Learned(r, v, Again(r))]
                 IN  x \in Local /\ Becomes(r, Verified(r, x))
<1>1. run[r] \in Local /\ run \in [Runs -> Local]
  BY DEF Typed
<1> DEFINE ask == [l \in Locales |-> Flagged(r)]
           keys == {TextOf(r, f) : f \in Flagged(r)}
<1>2. /\ ask \in [Locales -> SUBSET Files] /\ \A l \in Locales : ask[l] \subseteq KeysOf(r)
      /\ Flagged(r) \in SUBSET Files
  BY DEF Flagged, KeysOf, FlaggedKeys
<1>3. PICK v \in Replies(r, ask, Feedback(keys)) :
         run' = [run EXCEPT ![r] = Verified(r, [run[r] EXCEPT !.round = run[r].round + 1,
                                                         !.flagged = Flagged(r),
                                                         !.data = Merged(run[r].data, v),
                                                         !.mem = Learned(r, v, Feedback(keys))])]
  BY Zenon DEF Retry, Flagged
<1>4. \A l \in Locales : ask[l] = Flagged(r)
  OBVIOUS
<1>5. Feedback(keys) = Again(r)
  BY DEF Again
<1> HIDE DEF ask, keys
<1>6. /\ v \in [Locales -> [Files -> Values]]
      /\ \A l \in Locales, f \in Files :
            /\ f \notin ask[l] => v[l][f] = None
            /\ f \in ask[l] => v[l][f] \in T!MayReturn(TextOf(r, f), run[r].mem[l], Feedback(keys))
  BY <1>2, RepliesTypes
<1> DEFINE x == [run[r] EXCEPT !.round = run[r].round + 1, !.flagged = Flagged(r),
                               !.data = Merged(run[r].data, v),
                               !.mem = Learned(r, v, Again(r))]
<1>7. x \in Local
  <2>1. Merged(run[r].data, v) \in [Locales -> Catalog] /\ Learned(r, v, Again(r)) \in TM
    BY <1>1, <1>6, MadeOfReplies DEF Local
  <2>2. run[r].round + 1 \in 0 .. 2
    BY <1>1 DEF Local
  <2> QED
    BY <1>1, <1>2, <2>1, <2>2 DEF Local
<1>8. run' = [run EXCEPT ![r] = Verified(r, x)]
  BY <1>1, <1>3, <1>5
<1> HIDE DEF x
<1>9. Becomes(r, Verified(r, x))
  BY <1>7, <1>8, VerifiedBy, UpdateBecomes
<1> QED
  BY <1>4, <1>5, <1>6, <1>7, <1>9 DEF x

\* A write that succeeds, and one that fails or in which the run is killed.
SpentType == spent' \in [mishaps : Nat, edits : Nat, restores : Nat]

LEMMA SpendBy ==
    ASSUME Typed, NEW what \in {"mishaps", "edits", "restores"}, NEW max, Spend(what, max)
    PROVE  /\ SpentType
           /\ spent'[what] = spent[what] + 1
           /\ \A w \in {"mishaps", "edits", "restores"} : w # what => spent'[w] = spent[w]
BY DEF Typed, Spend, SpentType

LEMMA WritesBecomes ==
    ASSUME Typed, NEW r \in Runs, NEW x \in Local, Writes(r, x)
    PROVE  Becomes(r, x) /\ spent' = spent
BY UpdateBecomes DEF Writes

LEMMA BreaksBecomes ==
    ASSUME Typed, NEW r \in Runs, NEW x \in Local, Breaks(r, x)
    PROVE  /\ Becomes(r, x) \/ Becomes(r, Ended(r, "dead"))
           /\ SpentType /\ spent'.mishaps = spent.mishaps + 1
           /\ spent'.edits = spent.edits
<1>1. Ended(r, "dead") \in Local
  BY EndedTypes DEF Stages
<1>2. run' = [run EXCEPT ![r] = x] \/ run' = [run EXCEPT ![r] = Ended(r, "dead")]
  BY DEF Breaks
<1>3. SpentType /\ spent'.mishaps = spent.mishaps + 1 /\ spent'.edits = spent.edits
  BY SpendBy DEF Breaks
<1> QED
  BY <1>1, <1>2, <1>3, UpdateBecomes

\* Writes or Breaks, whatever else it does.
LEMMA WriteBecomes ==
    ASSUME Typed, NEW r \in Runs, NEW x \in Local, Writes(r, x) \/ Breaks(r, x)
    PROVE  /\ \/ Becomes(r, x)
              \/ Becomes(r, Ended(r, "dead")) /\ spent'.mishaps # spent.mishaps
           /\ SpentType /\ spent'.mishaps >= spent.mishaps /\ spent'.edits = spent.edits
<1>1. spent.mishaps \in Nat
  BY DEF Typed
<1> QED
  BY <1>1, WritesBecomes, BreaksBecomes DEF Typed, SpentType

LEMMA BeginBecomes ==
    ASSUME Typed, NEW r \in Runs, Begin(r)
    PROVE  /\ run' \in [Runs -> Local]
           /\ run'[r].at = "refs" /\ run'[r].alone = (Busy = {})
           /\ run'[r].mem = saved /\ run'[r].known = cat
           /\ run'[r].scanned = {f \in Files : code[f] = Own(f, "literal")}
           /\ \A f \in Files : run'[r].entry[f] =
                 IF code[f] = Own(f, "literal") THEN "original" ELSE src[f]
           /\ run'[r].flagged = {} /\ run'[r].round = 0 /\ DOMAIN run'[r].plan = {}
           /\ \A q \in Runs : q # r =>
                 /\ Alike(run[q], run'[q]) /\ run'[q].at = run[q].at
                 /\ run'[q].passed = run[q].passed
                 /\ run'[q].alone = (run[q].alone /\ q \notin Busy)
<1>1. PICK request \in Requests :
        LET scanned == {f \in Files : code[f] = Own(f, "literal")}
            begun == [Fresh EXCEPT !.at = "refs", !.mode = request.mode, !.dry = request.dry,
                        !.alone = (Busy = {}), !.mem = saved, !.known = cat,
                        !.scanned = scanned,
                        !.entry = [f \in Files |-> IF f \in scanned THEN "original" ELSE src[f]]]
        IN run' = [q \in Runs |-> IF q = r THEN begun
                                 ELSE [run[q] EXCEPT !.alone = @ /\ q \notin Busy]]
  BY DEF Begin
<1> DEFINE scanned == {f \in Files : code[f] = Own(f, "literal")}
           entry == [f \in Files |-> IF f \in scanned THEN "original" ELSE src[f]]
           lone == (Busy = {})
           x == [Fresh EXCEPT !.at = "refs", !.mode = request.mode, !.dry = request.dry,
                    !.alone = lone, !.mem = saved, !.known = cat,
                    !.scanned = scanned, !.entry = entry]
           Other(q) == [run[q] EXCEPT !.alone = run[q].alone /\ q \notin Busy]
<1>2. run' = [q \in Runs |-> IF q = r THEN x ELSE Other(q)]
  BY <1>1
<1>3. scanned \in SUBSET Files /\ entry \in [Files -> Entries] /\ lone \in BOOLEAN
  BY DEF Typed, Disk, Entries
<1>4. request.mode \in {"skip", "replace"} /\ request.dry \in BOOLEAN
  BY PipelineAssumption
<1>5. saved \in TM /\ cat \in [Locales -> Catalog]
  BY DEF Typed, Disk
<1>6. \A f \in Files : entry[f] = IF code[f] = Own(f, "literal") THEN "original" ELSE src[f]
  OBVIOUS
<1> HIDE DEF scanned, entry, lone
<1>7. x \in Local
  BY <1>3, <1>4, <1>5, FreshTypes DEF Local, Stages, Active
<1>8. /\ x.at = "refs" /\ x.alone = lone /\ x.mem = saved /\ x.known = cat
      /\ x.scanned = scanned /\ x.entry = entry /\ x.flagged = {} /\ x.round = 0
      /\ DOMAIN x.plan = {}
  BY DEF Fresh
<1> HIDE DEF x
<1>9. ASSUME NEW q \in Runs
      PROVE  /\ Other(q) \in Local
             /\ Alike(run[q], Other(q)) /\ Other(q).at = run[q].at
             /\ Other(q).passed = run[q].passed
             /\ Other(q).alone = (run[q].alone /\ q \notin Busy)
  <2> DEFINE b == run[q].alone /\ q \notin Busy
  <2>1. run[q] \in Local /\ b \in BOOLEAN
    BY DEF Typed, Local
  <2> HIDE DEF b
  <2>2. /\ Other(q) = [run[q] EXCEPT !.alone = b]
    BY DEF b
  <2> HIDE DEF Other
  <2>3. /\ Other(q) \in Local
        /\ Alike(run[q], Other(q)) /\ Other(q).at = run[q].at
        /\ Other(q).passed = run[q].passed /\ Other(q).alone = b
    BY <2>1, <2>2 DEF Alike, Local
  <2> QED
    BY <2>3 DEF b
<1> HIDE DEF Other
<1>10. /\ run' \in [Runs -> Local] /\ run'[r] = x
       /\ \A q \in Runs : q # r => run'[q] = Other(q)
  BY <1>2, <1>7, <1>9
<1>11. /\ run'[r].at = "refs" /\ run'[r].alone = lone
       /\ run'[r].mem = saved /\ run'[r].known = cat
       /\ run'[r].scanned = scanned
       /\ \A f \in Files : run'[r].entry[f] =
             IF code[f] = Own(f, "literal") THEN "original" ELSE src[f]
       /\ run'[r].flagged = {} /\ run'[r].round = 0 /\ DOMAIN run'[r].plan = {}
  BY <1>6, <1>8, <1>10
<1>12. ASSUME NEW q \in Runs, q # r
       PROVE  /\ Alike(run[q], run'[q]) /\ run'[q].at = run[q].at
              /\ run'[q].passed = run[q].passed
              /\ run'[q].alone = (run[q].alone /\ q \notin Busy)
  BY <1>9, <1>10, <1>12
<1> QED
  BY <1>10, <1>11, <1>12 DEF scanned, lone

\* A checkpoint is taken, or the run is killed before it wrote anything.
LEMMA CheckpointBecomes ==
    ASSUME Typed, NEW r \in Runs, Checkpoint(r)
    PROVE  /\ \/ Becomes(r, [run[r] EXCEPT !.at = "plan"])
              \/ Becomes(r, Ended(r, "dead")) /\ ckpts' = ckpts /\ spent'.mishaps # spent.mishaps
           /\ clock' \in clock .. MaxTime /\ clock' \in 0 .. MaxTime
           /\ SpentType /\ spent'.mishaps >= spent.mishaps /\ spent'.edits = spent.edits
           /\ \/ ckpts' = ckpts /\ spent'.mishaps # spent.mishaps
              \/ \E last \in [Names -> Files], backup \in [Names -> Content \cup {<<>>}] :
                   /\ \A f \in run[r].scanned :
                         Base[last[Base[f]]] = Base[f] /\ last[Base[f]] \in run[r].scanned
                   /\ \/ backup = Backups(ckpts[clock'].backup, run[r].scanned, last)
                      \/ /\ spent'.mishaps # spent.mishaps
                         /\ \E f \in run[r].scanned :
                              LET all == Backups(ckpts[clock'].backup, run[r].scanned, last) IN
                              \/ backup = [all EXCEPT ![Base[f]] = ckpts[clock'].backup[Base[f]]]
                              \/ backup = [all EXCEPT ![Base[f]] = Own(f, "torn")]
                   /\ ckpts' = [ckpts EXCEPT ![clock'] =
                         [files |-> run[r].scanned, backup |-> backup, was |-> code,
                          made |-> ckpts[clock'].made + 1]]
<1>1. run[r] \in Local /\ run[r].scanned \subseteq Files
  BY DEF Typed, Local
<1> DEFINE next == [run[r] EXCEPT !.at = "plan"]
           files == run[r].scanned
           dir == ckpts[clock'].backup
<1>2. next \in Local
  BY <1>1 DEF Local, Stages, Active
<1>3. clock' \in clock .. MaxTime /\ clock' \in 0 .. MaxTime
  BY DEF Checkpoint, Typed
<1>4. dir \in [Names -> Content \cup {<<>>}]
  BY <1>3 DEF Typed, Disk, Dir
<1>5. \A last \in [Names -> Files] :
        Backups(dir, files, last) \in [Names -> Content \cup {<<>>}]
  BY <1>4 DEF Backups, Typed, Disk
<1>6. spent.mishaps \in Nat
  BY DEF Typed
<1> DEFINE Took(backup) == ckpts' = [ckpts EXCEPT ![clock'] =
               [files |-> files, backup |-> backup, was |-> code, made |-> ckpts[clock'].made + 1]]
           Picks(last) == \A f \in files :
               Base[last[Base[f]]] = Base[f] /\ last[Base[f]] \in files
<1>7. \/ \E last \in [Names -> Files] :
            /\ Picks(last)
            /\ \/ Writes(r, next) /\ Took(Backups(dir, files, last))
               \/ /\ run' = [run EXCEPT ![r] = next] /\ Spend("mishaps", MaxMishaps)
                  /\ \E backup \in Partly(dir, files, last) : Took(backup)
      \/ Breaks(r, next) /\ ckpts' = ckpts
  BY <1>3 DEF Checkpoint, Typed, Disk
<1> HIDE DEF next, dir
<1>8. CASE Breaks(r, next) /\ ckpts' = ckpts
  <2>1. /\ Becomes(r, next) \/ Becomes(r, Ended(r, "dead"))
        /\ SpentType /\ spent'.mishaps = spent.mishaps + 1 /\ spent'.edits = spent.edits
    BY <1>2, <1>8, BreaksBecomes
  <2> QED
    BY <1>3, <1>6, <1>8, <2>1 DEF next
<1>9. ASSUME NEW last \in [Names -> Files], Picks(last),
             Writes(r, next), Took(Backups(dir, files, last))
      PROVE  /\ Becomes(r, next) /\ SpentType /\ spent'.mishaps >= spent.mishaps
             /\ spent'.edits = spent.edits
             /\ \E backup \in [Names -> Content \cup {<<>>}] :
                  backup = Backups(dir, files, last) /\ Took(backup)
  <2>1. Becomes(r, next) /\ spent' = spent
    BY <1>2, <1>9, WritesBecomes
  <2>2. SpentType /\ spent'.mishaps >= spent.mishaps /\ spent'.edits = spent.edits
    BY <1>6, <2>1 DEF SpentType, Typed
  <2>3. Backups(dir, files, last) \in [Names -> Content \cup {<<>>}]
    BY <1>5
  <2> HIDE DEF Took
  <2> QED
    BY <1>9, <2>1, <2>2, <2>3
<1>10. ASSUME NEW last \in [Names -> Files], Picks(last),
              run' = [run EXCEPT ![r] = next], Spend("mishaps", MaxMishaps),
              NEW backup \in Partly(dir, files, last), Took(backup)
       PROVE  /\ Becomes(r, next) /\ SpentType /\ spent'.mishaps >= spent.mishaps
              /\ spent'.mishaps # spent.mishaps /\ spent'.edits = spent.edits
              /\ backup \in [Names -> Content \cup {<<>>}]
              /\ \E f \in files :
                   \/ backup = [Backups(dir, files, last) EXCEPT ![Base[f]] = dir[Base[f]]]
                   \/ backup = [Backups(dir, files, last) EXCEPT ![Base[f]] = Own(f, "torn")]
  <2>1. PICK f \in files :
           \/ backup = [Backups(dir, files, last) EXCEPT ![Base[f]] = dir[Base[f]]]
           \/ backup = [Backups(dir, files, last) EXCEPT ![Base[f]] = Own(f, "torn")]
    BY <1>10 DEF Partly
  <2>2. f \in Files /\ Base[f] \in Names
    BY <1>1 DEF Names
  <2>3. Own(f, "torn") \in Content
    BY <2>2, OwnTypes
  <2>4. Backups(dir, files, last) \in [Names -> Content \cup {<<>>}]
    BY <1>5
  <2>5. backup \in [Names -> Content \cup {<<>>}]
    BY <1>4, <2>1, <2>2, <2>3, <2>4
  <2>6. Becomes(r, next)
    BY <1>2, <1>10, UpdateBecomes
  <2>7. SpentType /\ spent'.mishaps = spent.mishaps + 1 /\ spent'.edits = spent.edits
    BY <1>10, SpendBy
  <2> QED
    BY <1>6, <2>1, <2>5, <2>6, <2>7
<1> QED
  <2>1. CASE \E last \in [Names -> Files] :
                /\ Picks(last) /\ Writes(r, next) /\ Took(Backups(dir, files, last))
    BY <1>3, <1>9, <2>1 DEF next, dir
  <2>2. CASE \E last \in [Names -> Files] :
                /\ Picks(last)
                /\ run' = [run EXCEPT ![r] = next] /\ Spend("mishaps", MaxMishaps)
                /\ \E backup \in Partly(dir, files, last) : Took(backup)
    <3>1. PICK last \in [Names -> Files] :
                /\ Picks(last)
                /\ run' = [run EXCEPT ![r] = next] /\ Spend("mishaps", MaxMishaps)
                /\ \E backup \in Partly(dir, files, last) : Took(backup)
      BY <2>2
    <3>2. PICK backup \in Partly(dir, files, last) : Took(backup)
      BY <3>1
    <3> DEFINE Torn(b) == \E f \in files :
                 \/ b = [Backups(dir, files, last) EXCEPT ![Base[f]] = dir[Base[f]]]
                 \/ b = [Backups(dir, files, last) EXCEPT ![Base[f]] = Own(f, "torn")]
    <3>3. /\ Becomes(r, next) /\ SpentType /\ spent'.mishaps >= spent.mishaps
          /\ spent'.mishaps # spent.mishaps /\ spent'.edits = spent.edits
          /\ backup \in [Names -> Content \cup {<<>>}]
          /\ Torn(backup)
      <4> HIDE DEF Took, Picks
      <4> QED
        BY <1>10, <3>1, <3>2
    <3>4. \E b \in [Names -> Content \cup {<<>>}] :
            /\ spent'.mishaps # spent.mishaps /\ Torn(b)
            /\ Took(b)
      <4> HIDE DEF Took, Torn
      <4> QED
        BY <3>2, <3>3
    <3> HIDE DEF Torn
    <3> QED
      BY <1>3, <3>1, <3>3, <3>4 DEF next, dir, Torn
  <2> QED
    BY <1>7, <1>8, <2>1, <2>2

\* The run after a write, which failed if the mishaps are not what they were.
Goes(r, x) ==
    /\ \/ Becomes(r, x)
       \/ Becomes(r, Ended(r, "dead")) /\ spent'.mishaps # spent.mishaps
    /\ SpentType /\ spent'.mishaps >= spent.mishaps /\ spent'.edits = spent.edits

LEMMA WriteCodeBecomes ==
    ASSUME Typed, NEW r \in Runs, NEW f \in Files, WriteCode(r, f)
    PROVE  LET x == [run[r] EXCEPT !.plan = [g \in DOMAIN run[r].plan \ {f} |-> run[r].plan[g]]] IN
           /\ x \in Local /\ Goes(r, x)
           /\ code' \in [Files -> Content]
           /\ run[r].plan[f] \in Content
           /\ \/ code' = [code EXCEPT ![f] = run[r].plan[f]]
              \/ /\ spent'.mishaps # spent.mishaps
                 /\ code' = code \/ code' = [code EXCEPT ![f] = Own(f, "torn")]
<1>1. run[r] \in Local /\ code \in [Files -> Content]
  BY DEF Typed, Disk
<1> DEFINE p == run[r].plan
           less == [g \in DOMAIN p \ {f} |-> p[g]]
           x == [run[r] EXCEPT !.plan = less]
<1>2. f \in DOMAIN p /\ p \in Plans
  BY <1>1 DEF WriteCode, Local
<1>3. DOMAIN p \in SUBSET Files /\ p \in [DOMAIN p -> Content]
  BY <1>2, PlanShape
<1>4. less \in Plans /\ p[f] \in Content
  BY <1>2, <1>3, PlanTypes
<1>5. \/ Writes(r, x) /\ code' = [code EXCEPT ![f] = p[f]]
      \/ Breaks(r, x) /\ code' \in {code, [code EXCEPT ![f] = Own(f, "torn")]}
  BY <1>1 DEF WriteCode, Local
<1> HIDE DEF less
<1>6. x \in Local
  BY <1>1, <1>4 DEF Local
<1> HIDE DEF x
<1>7. Goes(r, x)
  BY <1>5, <1>6, WriteBecomes DEF Goes
<1>8. Own(f, "torn") \in Content
  BY OwnTypes
<1>9. Breaks(r, x) => spent'.mishaps # spent.mishaps
  BY <1>6, BreaksBecomes DEF Typed
<1>10. code' \in [Files -> Content]
  BY <1>1, <1>4, <1>5, <1>8
<1> QED
  BY <1>4, <1>5, <1>6, <1>7, <1>9, <1>10 DEF x, less

LEMMA WriteSourceBecomes ==
    ASSUME Typed, NEW r \in Runs, WriteSource(r)
    PROVE  LET x == [run[r] EXCEPT !.at = "targets", !.todo = Locales] IN
           /\ x \in Local /\ Goes(r, x)
           /\ src' \in [Files -> Entries]
           /\ \/ src' = run[r].entry
              \/ spent'.mishaps # spent.mishaps /\ (src' = src \/ src' = [f \in Files |-> "none"])
<1>1. run[r] \in Local /\ src \in [Files -> Entries]
  BY DEF Typed, Disk
<1> DEFINE x == [run[r] EXCEPT !.at = "targets", !.todo = Locales]
<1>2. x \in Local
  BY <1>1 DEF Local, Stages, Active
<1>3. \/ Writes(r, x) /\ src' = run[r].entry
      \/ Breaks(r, x) /\ src' \in {src, [f \in Files |-> "none"]}
  BY DEF WriteSource, SourceCatalog
<1> HIDE DEF x
<1>4. Goes(r, x)
  BY <1>2, <1>3, WriteBecomes DEF Goes
<1>5. Breaks(r, x) => spent'.mishaps # spent.mishaps
  BY <1>2, BreaksBecomes DEF Typed
<1>6. src' \in [Files -> Entries]
  BY <1>1, <1>3 DEF Local, Entries
<1> QED
  BY <1>2, <1>3, <1>4, <1>5, <1>6 DEF x

LEMMA WriteTargetBecomes ==
    ASSUME Typed, NEW r \in Runs, NEW l \in Locales, WriteTarget(r, l)
    PROVE  LET x == [run[r] EXCEPT !.todo = run[r].todo \ {l}] IN
           /\ x \in Local /\ Goes(r, x)
           /\ cat' \in [Locales -> Catalog]
           /\ \/ cat' = [cat EXCEPT ![l] = run[r].data[l]]
              \/ /\ spent'.mishaps # spent.mishaps
                 /\ cat' = cat \/ cat' = [cat EXCEPT ![l] = [f \in Files |-> None]]
<1>1. run[r] \in Local /\ cat \in [Locales -> Catalog]
  BY DEF Typed, Disk
<1> DEFINE x == [run[r] EXCEPT !.todo = run[r].todo \ {l}]
<1>2. x \in Local
  BY <1>1 DEF Local
<1>3. \/ Writes(r, x) /\ cat' = [cat EXCEPT ![l] = run[r].data[l]]
      \/ Breaks(r, x) /\ cat' \in {cat, [cat EXCEPT ![l] = [f \in Files |-> None]]}
  BY <1>1 DEF WriteTarget, Local
<1> HIDE DEF x
<1>4. Goes(r, x)
  BY <1>2, <1>3, WriteBecomes DEF Goes
<1>5. Breaks(r, x) => spent'.mishaps # spent.mishaps
  BY <1>2, BreaksBecomes DEF Typed
<1>6. [f \in Files |-> None] \in Catalog /\ run[r].data[l] \in Catalog
  BY <1>1 DEF Catalog, Local
<1>7. cat' \in [Locales -> Catalog]
  BY <1>1, <1>3, <1>6
<1> QED
  BY <1>2, <1>3, <1>4, <1>5, <1>7 DEF x

LEMMA SaveMemoryBecomes ==
    ASSUME Typed, NEW r \in Runs, SaveMemory(r)
    PROVE  /\ Goes(r, Ended(r, "done"))
           /\ saved' \in TM
           /\ saved' = run[r].mem \/ spent'.mishaps # spent.mishaps
<1>1. run[r] \in Local /\ saved \in TM /\ Fresh.mem \in TM
  BY FreshTypes DEF Typed, Disk, Local
<1>2. Ended(r, "done") \in Local
  BY EndedTypes DEF Stages
<1>3. \/ Writes(r, Ended(r, "done")) /\ saved' = run[r].mem
      \/ Breaks(r, Ended(r, "done")) /\ saved' \in {saved, Fresh.mem}
  BY DEF SaveMemory
<1>4. Goes(r, Ended(r, "done"))
  BY <1>2, <1>3, WriteBecomes DEF Goes
<1>5. Breaks(r, Ended(r, "done")) => spent'.mishaps # spent.mishaps
  BY <1>2, BreaksBecomes DEF Typed
<1>6. saved' \in TM
  BY <1>1, <1>3 DEF Local
<1> QED
  BY <1>3, <1>4, <1>5, <1>6

LEMMA DieBecomes ==
    ASSUME Typed, NEW r \in Runs, Die(r)
    PROVE  Becomes(r, Ended(r, "dead")) /\ SpentType /\ spent'.mishaps = spent.mishaps + 1
<1>1. Ended(r, "dead") \in Local
  BY EndedTypes DEF Stages
<1> QED
  BY <1>1, UpdateBecomes, SpendBy DEF Die

LEMMA EditBecomes ==
    ASSUME Typed, NEW l \in Locales, NEW f \in Files, Edit(l, f)
    PROVE  /\ cat' \in [Locales -> Catalog]
           /\ cat'[l][f].by = "person" /\ cat'[l][f].of = <<f, "original">>
           /\ \A m \in Locales, g \in Files : <<m, g>> # <<l, f>> => cat'[m][g] = cat[m][g]
           /\ SpentType /\ spent'.mishaps = spent.mishaps /\ spent'.edits = spent.edits + 1
<1>1. cat \in [Locales -> Catalog]
  BY DEF Typed, Disk
<1>2. PICK form \in Forms : cat' = [cat EXCEPT ![l][f] =
                     [of |-> <<f, "original">>, by |-> "person", form |-> form]]
  BY DEF Edit
<1> DEFINE v == [of |-> <<f, "original">>, by |-> "person", form |-> form]
<1>3. v \in T!Value /\ v.by = "person" /\ v.of = <<f, "original">>
  BY PipelineAssumption DEF T!Value, T!Origins, Texts
<1>4. cat' = [cat EXCEPT ![l] = [cat[l] EXCEPT ![f] = v]]
  BY <1>1, <1>2 DEF Catalog
<1> HIDE DEF v
<1>5. [cat[l] EXCEPT ![f] = v] \in Catalog
  BY <1>1, <1>3 DEF Catalog
<1>6. cat' \in [Locales -> Catalog]
  BY <1>1, <1>4, <1>5
<1>7. /\ cat'[l][f] = v
      /\ \A m \in Locales, g \in Files : <<m, g>> # <<l, f>> => cat'[m][g] = cat[m][g]
  BY <1>1, <1>4 DEF Catalog
<1>8. SpentType /\ spent'.edits = spent.edits + 1 /\ spent'.mishaps = spent.mishaps
  BY SpendBy DEF Edit
<1> QED
  BY <1>3, <1>6, <1>7, <1>8

LEMMA RestoreTypes ==
    ASSUME Typed, NEW s \in DOMAIN ckpts
    PROVE  /\ s \in 0 .. MaxTime /\ ckpts[s] \in Dir
           /\ Restored(s) \in [Files -> Content]
<1>1. s \in 0 .. MaxTime /\ ckpts[s] \in Dir /\ code \in [Files -> Content]
  BY DEF Typed, Disk
<1>2. \A f \in Files : Base[f] \in Names
  BY DEF Names
<1> QED
  BY <1>1, <1>2 DEF Restored, Dir

LEMMA RestoreFailsBy ==
    ASSUME Typed, NEW s \in DOMAIN ckpts, NEW f \in Files, RestoreFails(s, f)
    PROVE  /\ code' \in [Files -> Content]
           /\ \A g \in Files : g # f => code'[g] = Restored(s)[g]
           /\ code'[f] = code[f] \/ code'[f] = Own(f, "torn")
           /\ SpentType /\ spent'.mishaps = spent.mishaps + 1
<1>1. Own(f, "torn") \in Content /\ code[f] \in Content
  BY OwnTypes DEF Typed, Disk
<1>2. Restored(s) \in [Files -> Content]
  BY RestoreTypes
<1> QED
  BY <1>1, <1>2, SpendBy DEF RestoreFails

-----------------------------------------------------------------------------
(***************************************************************************)
(* Types, for which a run that is at a retry has retries left.             *)
(***************************************************************************)
RoundsLeft == \A r \in Runs : run[r].at = "retry" => run[r].round < 2
Sized == Typed /\ FlaggedKeys /\ RoundsLeft

\* Run r becomes x, which has flagged some of its keys.
LEMMA SizedBecomes ==
    ASSUME Sized, NEW r \in Runs, NEW x \in Local, Becomes(r, x),
           \A f \in x.flagged : x.entry[f] # "none",
           x.at = "retry" => x.round < 2
    PROVE  run' \in [Runs -> Local] /\ FlaggedKeys' /\ RoundsLeft'
<1>1. ASSUME NEW q \in Runs
      PROVE  /\ run'[q].flagged \subseteq {f \in Files : run'[q].entry[f] # "none"}
             /\ run'[q].at = "retry" => run'[q].round < 2
  <2>1. CASE q = r
    BY <2>1 DEF Becomes, Local
  <2>2. CASE q # r
    BY <2>2 DEF Becomes, Sized, FlaggedKeys, RoundsLeft, KeysOf
  <2> QED
    BY <2>1, <2>2
<1> QED
  BY <1>1 DEF Becomes, FlaggedKeys, RoundsLeft, KeysOf

LEMMA SizedEnds ==
    ASSUME Sized, NEW r \in Runs, NEW how \in {"done", "dead", "failed"}, Becomes(r, Ended(r, how))
    PROVE  run' \in [Runs -> Local] /\ FlaggedKeys' /\ RoundsLeft'
<1>1. Ended(r, how) \in Local /\ Ended(r, how).at = how
  BY EndedTypes DEF Stages, Sized
<1>2. Ended(r, how).flagged = {}
  BY DEF Ended, Fresh
<1> QED
  BY <1>1, <1>2, SizedBecomes

LEMMA SizedGoes ==
    ASSUME Sized, NEW r \in Runs, NEW x \in Local, Goes(r, x),
           \A f \in x.flagged : x.entry[f] # "none",
           x.at = "retry" => x.round < 2
    PROVE  run' \in [Runs -> Local] /\ FlaggedKeys' /\ RoundsLeft' /\ SpentType
BY SizedBecomes, SizedEnds DEF Goes

LEMMA SizedVerified ==
    ASSUME Sized, NEW r \in Runs, NEW x \in Local, Becomes(r, Verified(r, x)),
           \A f \in x.flagged : x.entry[f] # "none"
    PROVE  run' \in [Runs -> Local] /\ FlaggedKeys' /\ RoundsLeft'
<1>1. Typed
  BY DEF Sized
<1>2. CASE Verified(r, x) = Ended(r, "done")
  BY <1>2, SizedEnds
<1>3. CASE Verified(r, x) # Ended(r, "done")
  <2>1. /\ Verified(r, x) \in Local
        /\ Verified(r, x).flagged = x.flagged /\ Verified(r, x).entry = x.entry
        /\ Verified(r, x).at = "retry" => Verified(r, x).round < 2
    BY <1>1, <1>3, VerifiedShape DEF Alike
  <2> QED
    BY <2>1, SizedBecomes
<1> QED
  BY <1>2, <1>3

\* What a step leaves of the disk has the types it must have.
LEMMA SizedRunStep ==
    ASSUME Sized, NEW r \in Runs, RunStep(r)
    PROVE  Sized'
<1> USE DEF Sized
<1>1. run[r] \in Local /\ run[r].flagged \subseteq KeysOf(r)
  BY DEF Typed, FlaggedKeys
<1>2. \A f \in run[r].flagged : run[r].entry[f] # "none"
  BY <1>1 DEF KeysOf
<1> DEFINE Moved == run' \in [Runs -> Local] /\ FlaggedKeys' /\ RoundsLeft'
<1>a. ASSUME UNCHANGED <<diskVars, clock, spent>>, Moved PROVE Sized'
  BY <1>a DEF Typed, Disk, diskVars
<1>3. CASE Refer(r)
  <2>1. UNCHANGED <<diskVars, clock, spent>>
    BY <1>3 DEF Refer
  <2>2. PICK e \in [Files -> Entries] :
          /\ \A f \in Files : e[f] = Referred(r, f)
          /\ \/ Becomes(r, Ended(r, "done"))
             \/ \E at \in {"plan", "checkpoint"} :
                   Becomes(r, [run[r] EXCEPT !.entry = e, !.at = at])
    BY <1>3, ReferBecomes
  <2>3. ASSUME NEW at \in {"plan", "checkpoint"},
               Becomes(r, [run[r] EXCEPT !.entry = e, !.at = at])
        PROVE  Moved
    <3> DEFINE x == [run[r] EXCEPT !.entry = e, !.at = at]
    <3>1. x \in Local /\ x.flagged = run[r].flagged /\ x.entry = e /\ x.at = at
      BY <1>1 DEF Local, Stages, Active
    <3>2. \A f \in run[r].flagged : e[f] # "none"
      BY <1>1, <1>2, <2>2 DEF Referred, Local
    <3> HIDE DEF x
    <3> QED
      BY <2>3, <3>1, <3>2, SizedBecomes DEF x
  <2> QED
    BY <1>a, <2>1, <2>2, <2>3, SizedEnds
<1>4. CASE Checkpoint(r)
  <2> DEFINE x == [run[r] EXCEPT !.at = "plan"]
  <2>1. x \in Local /\ x.flagged = run[r].flagged /\ x.entry = run[r].entry /\ x.at = "plan"
    BY <1>1 DEF Local, Stages, Active
  <2>2. Becomes(r, x) \/ Becomes(r, Ended(r, "dead"))
    BY <1>4, CheckpointBecomes
  <2> HIDE DEF x
  <2>3. Moved
    BY <1>2, <2>1, <2>2, SizedBecomes, SizedEnds
  <2>4. UNCHANGED <<code, src, cat, saved>>
    BY <1>4 DEF Checkpoint
  <2>5. clock' \in 0 .. MaxTime /\ SpentType
    BY <1>4, CheckpointBecomes
  <2>6. ckpts' \in [0 .. MaxTime -> Dir]
    <3>1. CASE ckpts' = ckpts
      BY <3>1 DEF Typed, Disk
    <3>2. ASSUME NEW backup \in [Names -> Content \cup {<<>>}],
                 ckpts' = [ckpts EXCEPT ![clock'] =
                             [files |-> run[r].scanned, backup |-> backup, was |-> code,
                              made |-> ckpts[clock'].made + 1]]
          PROVE  ckpts' \in [0 .. MaxTime -> Dir]
      <4>1. ckpts[clock'].made \in Nat /\ code \in [Files -> Content \cup {<<>>}]
        BY <2>5 DEF Typed, Disk, Dir
      <4>2. [files |-> run[r].scanned, backup |-> backup, was |-> code,
             made |-> ckpts[clock'].made + 1] \in Dir
        BY <1>1, <4>1 DEF Dir, Local
      <4> QED
        BY <3>2, <4>2 DEF Typed, Disk
    <3> QED
      BY <1>4, <3>1, <3>2, CheckpointBecomes
  <2> QED
    BY <2>3, <2>4, <2>5, <2>6 DEF Typed, Disk, SpentType
<1>5. CASE Plan(r)
  <2>1. UNCHANGED <<diskVars, clock, spent>>
    BY <1>5 DEF Plan
  <2>2. \/ Becomes(r, Ended(r, "failed"))
        \/ \E p \in Plans : Becomes(r, [run[r] EXCEPT !.at = "translate", !.plan = p])
    BY <1>5, PlanBecomes
  <2>3. ASSUME NEW p \in Plans, Becomes(r, [run[r] EXCEPT !.at = "translate", !.plan = p])
        PROVE  Moved
    <3> DEFINE x == [run[r] EXCEPT !.at = "translate", !.plan = p]
    <3>1. /\ x \in Local /\ x.flagged = run[r].flagged
          /\ x.entry = run[r].entry /\ x.at = "translate"
      BY <1>1 DEF Local, Stages, Active
    <3> HIDE DEF x
    <3> QED
      BY <1>2, <2>3, <3>1, SizedBecomes DEF x
  <2> QED
    BY <1>a, <2>1, <2>2, <2>3, SizedEnds
<1>6. CASE Translate(r)
  <2>1. UNCHANGED <<diskVars, clock, spent>>
    BY <1>6 DEF Translate
  <2>2. PICK v \in [Locales -> [Files -> Values]] :
          LET x == [run[r] EXCEPT !.data = Merged(Kept(r), v),
                                  !.mem = Learned(r, v, Feedback({}))]
          IN  x \in Local /\ Becomes(r, Verified(r, x))
    BY <1>6, TranslateBecomes
  <2> DEFINE x == [run[r] EXCEPT !.data = Merged(Kept(r), v),
                                 !.mem = Learned(r, v, Feedback({}))]
  <2>3. x.flagged = run[r].flagged /\ x.entry = run[r].entry
    BY <1>1 DEF Local
  <2>4. x \in Local /\ Becomes(r, Verified(r, x))
    BY <2>2
  <2> HIDE DEF x
  <2>5. Moved
    BY <1>2, <2>3, <2>4, SizedVerified
  <2> QED
    BY <1>a, <2>1, <2>5
<1>7. CASE Retry(r)
  <2>1. UNCHANGED <<diskVars, clock, spent>>
    BY <1>7 DEF Retry
  <2>2. run[r].round < 2
    BY <1>7 DEF Retry, RoundsLeft
  <2>3. PICK v \in [Locales -> [Files -> Values]] :
          LET x == [run[r] EXCEPT !.round = run[r].round + 1, !.flagged = Flagged(r),
                                  !.data = Merged(run[r].data, v),
                                  !.mem = Learned(r, v, Again(r))]
          IN  x \in Local /\ Becomes(r, Verified(r, x))
    BY <1>7, <2>2, RetryBecomes
  <2> DEFINE x == [run[r] EXCEPT !.round = run[r].round + 1, !.flagged = Flagged(r),
                                 !.data = Merged(run[r].data, v),
                                 !.mem = Learned(r, v, Again(r))]
  <2>4. x.flagged = Flagged(r) /\ x.entry = run[r].entry
    BY <1>1 DEF Local
  <2>5. x \in Local /\ Becomes(r, Verified(r, x))
    BY <2>3
  <2>6. \A f \in Flagged(r) : run[r].entry[f] # "none"
    BY <1>2 DEF Flagged, KeysOf
  <2> HIDE DEF x
  <2>7. Moved
    BY <2>4, <2>5, <2>6, SizedVerified
  <2> QED
    BY <1>a, <2>1, <2>7
<1>8. ASSUME NEW f \in Files, WriteCode(r, f) PROVE Sized'
  <2> DEFINE x == [run[r] EXCEPT !.plan = [g \in DOMAIN run[r].plan \ {f} |-> run[r].plan[g]]]
  <2>1. x \in Local /\ Goes(r, x) /\ code' \in [Files -> Content]
    BY <1>8, WriteCodeBecomes
  <2>2. x.flagged = run[r].flagged /\ x.entry = run[r].entry /\ x.at = "code"
    BY <1>1, <1>8 DEF Local, WriteCode
  <2> HIDE DEF x
  <2>3. Moved /\ SpentType
    BY <1>2, <2>1, <2>2, SizedGoes
  <2> QED
    BY <1>8, <2>1, <2>3 DEF Typed, Disk, SpentType, WriteCode
<1>9. CASE WriteSource(r)
  <2> DEFINE x == [run[r] EXCEPT !.at = "targets", !.todo = Locales]
  <2>1. x \in Local /\ Goes(r, x) /\ src' \in [Files -> Entries]
    BY <1>9, WriteSourceBecomes
  <2>2. x.flagged = run[r].flagged /\ x.entry = run[r].entry /\ x.at = "targets"
    BY <1>1 DEF Local
  <2> HIDE DEF x
  <2>3. Moved /\ SpentType
    BY <1>2, <2>1, <2>2, SizedGoes
  <2> QED
    BY <1>9, <2>1, <2>3 DEF Typed, Disk, SpentType, WriteSource
<1>10. ASSUME NEW l \in Locales, WriteTarget(r, l) PROVE Sized'
  <2> DEFINE x == [run[r] EXCEPT !.todo = run[r].todo \ {l}]
  <2>1. x \in Local /\ Goes(r, x) /\ cat' \in [Locales -> Catalog]
    BY <1>10, WriteTargetBecomes
  <2>2. x.flagged = run[r].flagged /\ x.entry = run[r].entry /\ x.at = "targets"
    BY <1>1, <1>10 DEF Local, WriteTarget
  <2> HIDE DEF x
  <2>3. Moved /\ SpentType
    BY <1>2, <2>1, <2>2, SizedGoes
  <2> QED
    BY <1>10, <2>1, <2>3 DEF Typed, Disk, SpentType, WriteTarget
<1>11. CASE SaveMemory(r)
  <2>1. Goes(r, Ended(r, "done")) /\ saved' \in TM
    BY <1>11, SaveMemoryBecomes
  <2>2. Moved /\ SpentType
    BY <2>1, SizedEnds DEF Goes
  <2> QED
    BY <1>11, <2>1, <2>2 DEF Typed, Disk, SpentType, SaveMemory
<1> QED
  BY <1>3, <1>4, <1>5, <1>6, <1>7, <1>8, <1>9, <1>10, <1>11 DEF RunStep

LEMMA SizedPeople ==
    ASSUME Sized, People
    PROVE  Sized'
<1> USE DEF Sized
<1>1. ASSUME NEW r \in Runs, Begin(r) PROVE Sized'
  <2>1. UNCHANGED <<diskVars, clock, spent>>
    BY <1>1 DEF Begin
  <2>2. /\ run' \in [Runs -> Local]
        /\ run'[r].at = "refs" /\ run'[r].flagged = {}
        /\ \A q \in Runs : q # r => /\ run'[q].at = run[q].at /\ run'[q].round = run[q].round
                                   /\ run'[q].flagged = run[q].flagged
                                   /\ run'[q].entry = run[q].entry
    BY <1>1, BeginBecomes DEF Alike
  <2>3. FlaggedKeys' /\ RoundsLeft'
    <3>1. ASSUME NEW q \in Runs
          PROVE  /\ run'[q].flagged \subseteq {f \in Files : run'[q].entry[f] # "none"}
                 /\ run'[q].at = "retry" => run'[q].round < 2
      BY <2>2 DEF FlaggedKeys, KeysOf, RoundsLeft
    <3> QED
      BY <3>1 DEF FlaggedKeys, KeysOf, RoundsLeft
  <2> QED
    BY <2>1, <2>2, <2>3 DEF Typed, Disk, diskVars
<1>2. ASSUME NEW r \in Runs, Die(r) PROVE Sized'
  <2>1. run' \in [Runs -> Local] /\ FlaggedKeys' /\ RoundsLeft' /\ SpentType
    BY <1>2, DieBecomes, SizedEnds
  <2> QED
    BY <1>2, <2>1 DEF Typed, Disk, SpentType, Die, diskVars
<1>3. ASSUME NEW l \in Locales, NEW f \in Files, Edit(l, f) PROVE Sized'
  <2>1. cat' \in [Locales -> Catalog] /\ SpentType
    BY <1>3, EditBecomes
  <2>2. UNCHANGED <<code, src, saved, ckpts, clock, run>>
    BY <1>3 DEF Edit
  <2> QED
    BY <2>1, <2>2 DEF Typed, Disk, SpentType, FlaggedKeys, RoundsLeft, KeysOf
<1>4. ASSUME NEW s \in DOMAIN ckpts, Restore(s) PROVE Sized'
  <2>1. code' \in [Files -> Content]
    BY <1>4, RestoreTypes DEF Restore
  <2>2. UNCHANGED <<src, cat, saved, ckpts, clock, run>> /\ SpentType
    BY <1>4, SpendBy DEF Restore
  <2> QED
    BY <2>1, <2>2 DEF Typed, Disk, SpentType, FlaggedKeys, RoundsLeft, KeysOf
<1>5. ASSUME NEW s \in DOMAIN ckpts, NEW f \in Files, RestoreFails(s, f) PROVE Sized'
  <2>1. code' \in [Files -> Content] /\ SpentType
    BY <1>5, RestoreFailsBy
  <2>2. UNCHANGED <<src, cat, saved, ckpts, clock, run>>
    BY <1>5 DEF RestoreFails
  <2> QED
    BY <2>1, <2>2 DEF Typed, Disk, SpentType, FlaggedKeys, RoundsLeft, KeysOf
<1> QED
  BY <1>1, <1>2, <1>3, <1>4, <1>5 DEF People

LEMMA SizedInit ==
    ASSUME PipelineInit PROVE Sized
<1>1. Disk
  <2>1. NoCkpt \in Dir
    BY DEF NoCkpt, Dir
  <2>2. [l \in Locales |-> [f \in Files |-> None]] \in [Locales -> Catalog]
    BY DEF Catalog
  <2>3. code \in [Files -> Content]
    BY OwnTypes DEF PipelineInit
  <2>4. saved \in TM
    BY FreshTypes DEF PipelineInit, Local
  <2> QED
    BY <2>1, <2>2, <2>3, <2>4 DEF PipelineInit, Disk, Entries
<1>2. run \in [Runs -> Local] /\ \A r \in Runs : run[r].flagged = {} /\ run[r].at = "idle"
  BY FreshTypes DEF PipelineInit, Fresh
<1>3. clock \in 0 .. MaxTime
  BY PipelineAssumption DEF PipelineInit
<1>4. spent \in [mishaps : Nat, edits : Nat, restores : Nat]
  BY DEF PipelineInit
<1> QED
  BY <1>1, <1>2, <1>3, <1>4 DEF Sized, Typed, FlaggedKeys, RoundsLeft

LEMMA SizedNext ==
    ASSUME Sized, [PipelineNext]_pipeVars PROVE Sized'
<1>1. CASE UNCHANGED pipeVars
  BY <1>1 DEF pipeVars, diskVars, Sized, Typed, Disk, FlaggedKeys, RoundsLeft, KeysOf
<1> QED
  BY <1>1, SizedRunStep, SizedPeople DEF PipelineNext

LEMMA SizedAlways == PipelineSpec => []Sized
BY SizedInit, SizedNext, PTL DEF PipelineSpec

\* Whatever the runs and the people do, each variable has a value of its type:
\* no run has more than two retries, none plans a file that is not there.
THEOREM PipelineTypeCorrect == PipelineSpec => []PipelineTypeOK
BY SizedAlways, TypedImpliesTypeOK, PTL DEF Sized

-----------------------------------------------------------------------------
(***************************************************************************)
(* What a run has in hand once it has translated: a value for each key, in *)
(* mode "skip" the values it found, unless they were flagged, and a report *)
(* on these values and no others.                                          *)
(***************************************************************************)
Done == {"retry", "code", "targets"}
Held(q) ==
    /\ run[q].at \in Done =>
          \A l \in Locales, f \in Files :
             /\ f \in KeysOf(q) => run[q].data[l][f] # None
             /\ run[q].mode = "skip" /\ f \notin run[q].flagged /\ ~Missing(run[q].known[l][f])
                   => run[q].data[l][f] = run[q].known[l][f]
    /\ run[q].at \in {"code", "targets"} => run[q].passed = Passes(q, run[q].data)
InHand == \A q \in Runs : Held(q)

LEMMA PassesOf ==
    ASSUME NEW q \in Runs, NEW data, run'[q].entry = run[q].entry, run'[q].data = data
    PROVE  Passes(q, run[q].data)' = Passes(q, data)
<1>1. KeysOf(q)' = KeysOf(q)
  BY DEF KeysOf
<1>2. ASSUME NEW l \in Locales, NEW f \in Files
      PROVE  Wrong(q, run[q].data[l][f], f)' = Wrong(q, data[l][f], f)
  BY DEF Wrong
<1> QED
  BY <1>1, <1>2 DEF Passes, KeysOf

\* It matters only what a run has in hand, not what it still has to write.
LEMMA HeldOn ==
    ASSUME NEW q \in Runs, Held(q),
           run'[q].entry = run[q].entry, run'[q].data = run[q].data,
           run'[q].known = run[q].known, run'[q].mode = run[q].mode,
           run'[q].flagged = run[q].flagged, run'[q].passed = run[q].passed,
           run'[q].at = run[q].at \/ (run[q].at = "code" /\ run'[q].at = "targets")
    PROVE  Held(q)'
<1>1. KeysOf(q)' = KeysOf(q)
  BY DEF KeysOf
<1>2. Passes(q, run[q].data)' = Passes(q, run[q].data)
  BY <1>1, PassesOf
<1>3. run'[q].at \in Done => run[q].at \in Done
  BY DEF Done
<1>4. run'[q].at \in {"code", "targets"} => run'[q].passed = Passes(q, run[q].data)'
  BY <1>2 DEF Held
<1>5. ASSUME run'[q].at \in Done, NEW l \in Locales, NEW f \in Files
      PROVE  /\ f \in KeysOf(q)' => run'[q].data[l][f] # None
             /\ run'[q].mode = "skip" /\ f \notin run'[q].flagged /\ ~Missing(run'[q].known[l][f])
                   => run'[q].data[l][f] = run'[q].known[l][f]
  BY <1>1, <1>3, <1>5 DEF Held
<1> QED
  BY <1>4, <1>5 DEF Held, Missing

LEMMA HeldElsewhere ==
    ASSUME Sized, NEW r \in Runs, NEW x, Becomes(r, x), InHand
    PROVE  \A q \in Runs : q # r => Held(q)'
<1> SUFFICES ASSUME NEW q \in Runs, q # r PROVE Held(q)'
  OBVIOUS
<1>1. run'[q] = run[q] /\ Held(q)
  BY DEF Becomes, InHand
<1> QED
  BY <1>1, HeldOn

LEMMA HeldBefore ==
    ASSUME NEW q \in Runs, run'[q].at \notin Done PROVE Held(q)'
BY DEF Held, Done

LEMMA HeldEnds ==
    ASSUME Sized, NEW r \in Runs, NEW how \in {"done", "dead", "failed"},
           Becomes(r, Ended(r, how)), InHand
    PROVE  InHand'
<1>1. Ended(r, how).at = how
  BY EndedTypes DEF Stages, Sized
<1>2. Held(r)'
  BY <1>1, HeldBefore DEF Becomes, Done
<1> QED
  BY <1>2, HeldElsewhere DEF InHand

LEMMA HeldWrites ==
    ASSUME Sized, NEW r \in Runs, NEW x, Goes(r, x), InHand,
           Alike([run[r] EXCEPT !.plan = x.plan, !.todo = x.todo], x), x.passed = run[r].passed,
           x.at = run[r].at \/ (run[r].at = "code" /\ x.at = "targets")
    PROVE  InHand'
<1>1. run[r] \in Local
  BY DEF Sized, Typed
<1>2. ASSUME Becomes(r, x) PROVE Held(r)'
  BY <1>1, <1>2, HeldOn DEF Becomes, InHand, Alike, Local
<1> QED
  BY <1>2, HeldEnds, HeldElsewhere DEF Goes, InHand

\* The critic's verdict is on the values that the run goes on with.
LEMMA HeldVerified ==
    ASSUME Sized, NEW r \in Runs, NEW x \in Local, Becomes(r, Verified(r, x)), InHand,
           x.entry = run[r].entry,
           \A l \in Locales, f \in Files :
              /\ f \in KeysOf(r) => x.data[l][f] # None
              /\ x.mode = "skip" /\ f \notin x.flagged /\ ~Missing(x.known[l][f])
                    => x.data[l][f] = x.known[l][f]
    PROVE  InHand'
<1>1. CASE Verified(r, x) = Ended(r, "done")
  BY <1>1, HeldEnds
<1>2. CASE Verified(r, x) # Ended(r, "done")
  <2>1. /\ Alike(x, run'[r]) /\ run'[r].at \in {"retry", "code"}
        /\ run'[r].at = "code" => run'[r].passed = Passes(r, x.data)
    BY <1>2, VerifiedShape DEF Sized, Becomes
  <2>2. Held(r)'
    <3>1. KeysOf(r)' = KeysOf(r) /\ Passes(r, run[r].data)' = Passes(r, x.data)
      BY <2>1, PassesOf DEF KeysOf, Alike
    <3>2. run'[r].at \in {"code", "targets"} => run'[r].passed = Passes(r, run[r].data)'
      BY <2>1, <3>1
    <3>3. ASSUME NEW l \in Locales, NEW f \in Files
          PROVE  /\ f \in KeysOf(r)' => run'[r].data[l][f] # None
                 /\ run'[r].mode = "skip" /\ f \notin run'[r].flagged
                    /\ ~Missing(run'[r].known[l][f]) => run'[r].data[l][f] = run'[r].known[l][f]
      BY <2>1, <3>1 DEF Alike
    <3> QED
      BY <3>2, <3>3 DEF Held, Missing
  <2> QED
    BY <2>2, HeldElsewhere DEF InHand
<1> QED
  BY <1>1, <1>2

LEMMA HeldTranslate ==
    ASSUME Sized, InHand, NEW r \in Runs, Translate(r) PROVE InHand'
<1>1. run[r] \in Local
  BY DEF Sized, Typed
<1>2. PICK v \in [Locales -> [Files -> Values]] :
        /\ \A l \in Locales, f \in Files :
              /\ f \notin Wanted(r, l) => v[l][f] = None
              /\ f \in Wanted(r, l) =>
                   v[l][f] \in T!MayReturn(TextOf(r, f), run[r].mem[l], Feedback({}))
        /\ LET x == [run[r] EXCEPT !.data = Merged(Kept(r), v),
                                   !.mem = Learned(r, v, Feedback({}))]
           IN  x \in Local /\ Becomes(r, Verified(r, x))
  BY TranslateBecomes DEF Sized
<1> DEFINE data == Merged(Kept(r), v)
           x == [run[r] EXCEPT !.data = data, !.mem = Learned(r, v, Feedback({}))]
<1>3. ASSUME NEW l \in Locales, NEW f \in Files
      PROVE  /\ f \in KeysOf(r) => data[l][f] # None
             /\ run[r].mode = "skip" /\ ~Missing(run[r].known[l][f])
                    => data[l][f] = run[r].known[l][f]
  <2>1. data[l][f] = IF v[l][f] # None THEN v[l][f] ELSE Kept(r)[l][f]
    BY DEF Merged
  <2>2. f \in Wanted(r, l) => v[l][f] # None
    <3> SUFFICES ASSUME f \in Wanted(r, l) PROVE v[l][f] # None
      OBVIOUS
    <3>1. TextOf(r, f) \in Texts
      BY <1>1 DEF TextOf, KeysOf, Texts, Local, Entries, Wanted
    <3>2. run[r].mem[l] \in [Texts -> Values]
      BY <1>1 DEF Local, TM, Values
    <3>3. v[l][f] \in T!MayReturn(TextOf(r, f), run[r].mem[l], Feedback({}))
      BY <1>2
    <3> QED
      BY <3>1, <3>2, <3>3, Returned, NoValue
  <2>3. ASSUME f \in KeysOf(r), f \notin Wanted(r, l)
        PROVE  data[l][f] = run[r].known[l][f] /\ data[l][f] # None
    <3>1. run[r].mode # "replace" /\ ~Missing(run[r].known[l][f])
      BY <2>3 DEF Wanted
    <3>2. Kept(r)[l][f] = run[r].known[l][f]
      BY <3>1 DEF Kept
    <3>3. v[l][f] = None
      BY <1>2, <2>3
    <3> QED
      BY <2>1, <3>1, <3>2, <3>3 DEF Missing
  <2>4. ASSUME run[r].mode = "skip", ~Missing(run[r].known[l][f])
        PROVE  data[l][f] = run[r].known[l][f]
    <3>1. f \notin Wanted(r, l)
      BY <2>4 DEF Wanted
    <3>2. Kept(r)[l][f] = run[r].known[l][f]
      BY <2>4 DEF Kept
    <3>3. v[l][f] = None
      BY <1>2, <3>1
    <3> QED
      BY <2>1, <3>2, <3>3
  <2> HIDE DEF data
  <2> QED
    BY <1>2, <2>1, <2>2, <2>3, <2>4
<1> HIDE DEF data
<1>4. /\ x.entry = run[r].entry /\ x.data = data /\ x.mode = run[r].mode
      /\ x.known = run[r].known /\ x.flagged = run[r].flagged
  BY <1>1 DEF Local
<1>5. x \in Local /\ Becomes(r, Verified(r, x))
  BY <1>2 DEF data
<1> HIDE DEF x
<1> QED
  BY <1>3, <1>4, <1>5, HeldVerified

LEMMA HeldRetry ==
    ASSUME Sized, InHand, NEW r \in Runs, Retry(r) PROVE InHand'
<1>1. run[r] \in Local /\ run[r].at = "retry" /\ run[r].round < 2 /\ Held(r)
  BY DEF Sized, Typed, RoundsLeft, Retry, InHand
<1>2. PICK v \in [Locales -> [Files -> Values]] :
        /\ \A l \in Locales, f \in Files :
              /\ f \notin Flagged(r) => v[l][f] = None
              /\ f \in Flagged(r) =>
                   v[l][f] \in T!MayReturn(TextOf(r, f), run[r].mem[l], Again(r))
        /\ LET x == [run[r] EXCEPT !.round = run[r].round + 1, !.flagged = Flagged(r),
                                   !.data = Merged(run[r].data, v),
                                   !.mem = Learned(r, v, Again(r))]
           IN  x \in Local /\ Becomes(r, Verified(r, x))
  BY <1>1, RetryBecomes DEF Sized
<1> DEFINE data == Merged(run[r].data, v)
           x == [run[r] EXCEPT !.round = run[r].round + 1, !.flagged = Flagged(r),
                               !.data = data, !.mem = Learned(r, v, Again(r))]
<1>3. ASSUME NEW l \in Locales, NEW f \in Files
      PROVE  /\ f \in KeysOf(r) => data[l][f] # None
             /\ run[r].mode = "skip" /\ f \notin Flagged(r) /\ ~Missing(run[r].known[l][f])
                    => data[l][f] = run[r].known[l][f]
  <2>1. data[l][f] = IF v[l][f] # None THEN v[l][f] ELSE run[r].data[l][f]
    BY DEF Merged
  <2>2. f \notin Flagged(r) => v[l][f] = None /\ f \notin run[r].flagged
    BY <1>2 DEF Flagged
  <2> HIDE DEF data
  <2> QED
    BY <1>1, <2>1, <2>2 DEF Held, Done
<1> HIDE DEF data
<1>4. /\ x.entry = run[r].entry /\ x.data = data /\ x.mode = run[r].mode
      /\ x.known = run[r].known /\ x.flagged = Flagged(r)
  BY <1>1 DEF Local
<1>5. x \in Local /\ Becomes(r, Verified(r, x))
  BY <1>2 DEF data
<1> HIDE DEF x
<1> QED
  BY <1>3, <1>4, <1>5, HeldVerified

\* Steps before the translation.
LEMMA HeldEarly ==
    ASSUME Sized, InHand, NEW r \in Runs, NEW x, Becomes(r, x), x.at \notin Done
    PROVE  InHand'
BY HeldBefore, HeldElsewhere DEF InHand, Becomes

LEMMA InHandNext ==
    ASSUME Sized, InHand, [PipelineNext]_pipeVars PROVE InHand'
<1>1. \A r \in Runs : run[r] \in Local
  BY DEF Sized, Typed
<1>2. CASE UNCHANGED run
  BY <1>2, HeldOn DEF InHand
<1>3. ASSUME NEW r \in Runs, Refer(r) PROVE InHand'
  <2>1. PICK e \in [Files -> Entries] :
          \/ Becomes(r, Ended(r, "done"))
          \/ \E at \in {"plan", "checkpoint"} :
                   Becomes(r, [run[r] EXCEPT !.entry = e, !.at = at])
    BY <1>3, ReferBecomes DEF Sized
  <2>2. ASSUME NEW at \in {"plan", "checkpoint"},
               Becomes(r, [run[r] EXCEPT !.entry = e, !.at = at])
        PROVE  InHand'
    <3>1. [run[r] EXCEPT !.entry = e, !.at = at].at \notin Done
      BY <1>1 DEF Local, Done
    <3> QED
      BY <2>2, <3>1, HeldEarly
  <2> QED
    BY <2>1, <2>2, HeldEnds
<1>4. ASSUME NEW r \in Runs, Checkpoint(r) PROVE InHand'
  <2>1. [run[r] EXCEPT !.at = "plan"].at \notin Done
    BY <1>1 DEF Local, Done
  <2>2. Becomes(r, [run[r] EXCEPT !.at = "plan"]) \/ Becomes(r, Ended(r, "dead"))
    BY <1>4, CheckpointBecomes DEF Sized
  <2> QED
    BY <2>1, <2>2, HeldEarly, HeldEnds
<1>5. ASSUME NEW r \in Runs, Plan(r) PROVE InHand'
  <2>1. \/ Becomes(r, Ended(r, "failed"))
        \/ \E p \in Plans : Becomes(r, [run[r] EXCEPT !.at = "translate", !.plan = p])
    BY <1>5, PlanBecomes DEF Sized
  <2>2. \A p \in Plans : [run[r] EXCEPT !.at = "translate", !.plan = p].at \notin Done
    BY <1>1 DEF Local, Done
  <2> QED
    BY <2>1, <2>2, HeldEarly, HeldEnds
<1>6. ASSUME NEW r \in Runs, NEW f \in Files, WriteCode(r, f) PROVE InHand'
  <2> DEFINE less == [g \in DOMAIN run[r].plan \ {f} |-> run[r].plan[g]]
             x == [run[r] EXCEPT !.plan = less]
  <2>1. Goes(r, x)
    BY <1>6, WriteCodeBecomes DEF Sized
  <2> HIDE DEF less
  <2>2. /\ Alike([run[r] EXCEPT !.plan = x.plan, !.todo = x.todo], x)
        /\ x.passed = run[r].passed /\ x.at = run[r].at
    BY <1>1 DEF Alike, Local
  <2> QED
    BY <2>1, <2>2, HeldWrites
<1>7. ASSUME NEW r \in Runs, WriteSource(r) PROVE InHand'
  <2> DEFINE x == [run[r] EXCEPT !.at = "targets", !.todo = Locales]
  <2>1. Goes(r, x)
    BY <1>7, WriteSourceBecomes DEF Sized
  <2>2. /\ Alike([run[r] EXCEPT !.plan = x.plan, !.todo = x.todo], x)
        /\ x.passed = run[r].passed /\ x.at = "targets"
    BY <1>1 DEF Alike, Local
  <2> QED
    BY <1>7, <2>1, <2>2, HeldWrites DEF WriteSource
<1>8. ASSUME NEW r \in Runs, NEW l \in Locales, WriteTarget(r, l) PROVE InHand'
  <2> DEFINE x == [run[r] EXCEPT !.todo = run[r].todo \ {l}]
  <2>1. Goes(r, x)
    BY <1>8, WriteTargetBecomes DEF Sized
  <2>2. /\ Alike([run[r] EXCEPT !.plan = x.plan, !.todo = x.todo], x)
        /\ x.passed = run[r].passed /\ x.at = run[r].at
    BY <1>1 DEF Alike, Local
  <2> QED
    BY <2>1, <2>2, HeldWrites
<1>9. ASSUME NEW r \in Runs, SaveMemory(r) PROVE InHand'
  BY <1>9, SaveMemoryBecomes, HeldEnds DEF Sized, Goes
<1>10. ASSUME NEW r \in Runs, Begin(r) PROVE InHand'
  <2>1. ASSUME NEW q \in Runs, q # r PROVE Held(q)'
    BY <1>10, <2>1, BeginBecomes, HeldOn DEF Sized, InHand, Alike
  <2>2. Held(r)'
    BY <1>10, BeginBecomes, HeldBefore DEF Sized, Done
  <2> QED
    BY <2>1, <2>2 DEF InHand
<1>11. ASSUME NEW r \in Runs, Die(r) PROVE InHand'
  BY <1>11, DieBecomes, HeldEnds DEF Sized
<1> QED
  BY <1>2, <1>3, <1>4, <1>5, <1>6, <1>7, <1>8, <1>9, <1>10, <1>11, HeldTranslate, HeldRetry
     DEF PipelineNext, RunStep, People, pipeVars, Edit, Restore, RestoreFails

LEMMA InHandAlways == PipelineSpec => [](Sized /\ InHand)
<1>1. PipelineInit => InHand
  BY FreshTypes DEF PipelineInit, InHand, Held, Done
<1> QED
  BY <1>1, SizedInit, SizedNext, InHandNext, PTL DEF PipelineSpec

\* The report of a run is about what the run writes: passed says that no value
\* has lost a placeholder, after the last retry as after the first look.
THEOREM ReportsAreTrue == PipelineSpec => []ReportTrue
<1>1. Sized /\ InHand => ReportTrue
  BY DEF InHand, Held, Done, ReportTrue, KeysOf
<1> QED
  BY <1>1, InHandAlways, PTL

\* A run that fills in what is missing writes over nothing that a person wrote
\* before it read the catalogs, unless the critic flagged the key.
THEOREM PersonsAreKept == PipelineSpec => PersonKept
<1> DEFINE Over(l, f) ==
             cat[l][f].by = "person" /\ ~Missing(cat[l][f]) /\ cat'[l][f] # cat[l][f] =>
              \/ spent'.mishaps # spent.mishaps \/ spent'.edits # spent.edits
              \/ \E r \in Runs : /\ run[r].at = "targets"
                                 /\ \/ run[r].mode = "replace"
                                    \/ run[r].known[l][f] # cat[l][f]
                                    \/ f \in run[r].flagged
<1>1. ASSUME Sized, InHand, [PipelineNext]_pipeVars, NEW l \in Locales, NEW f \in Files
      PROVE  Over(l, f)
  <2>1. cat \in [Locales -> Catalog] /\ spent.edits \in Nat
    BY <1>1 DEF Sized, Typed, Disk
  <2>2. CASE UNCHANGED cat
    BY <2>2
  <2>3. ASSUME NEW m \in Locales, NEW g \in Files, Edit(m, g) PROVE Over(l, f)
    BY <1>1, <2>1, <2>3, EditBecomes DEF Sized
  <2>4. ASSUME NEW r \in Runs, NEW m \in Locales, WriteTarget(r, m) PROVE Over(l, f)
    <3>1. run[r] \in Local /\ run[r].at = "targets" /\ Held(r)
      BY <1>1, <2>4 DEF Sized, Typed, InHand, WriteTarget
    <3>2. spent'.mishaps # spent.mishaps \/ cat' = [cat EXCEPT ![m] = run[r].data[m]]
      BY <1>1, <2>4, WriteTargetBecomes DEF Sized
    <3>3. ASSUME run[r].mode = "skip", run[r].known[l][f] = cat[l][f],
                 f \notin run[r].flagged, ~Missing(cat[l][f])
          PROVE  run[r].data[l][f] = cat[l][f]
      BY <3>1, <3>3 DEF Held, Done
    <3>4. run[r].mode \in {"skip", "replace"}
      BY <3>1 DEF Local
    <3> QED
      BY <2>1, <3>1, <3>2, <3>3, <3>4
  <2> QED
    BY <1>1, <2>2, <2>3, <2>4
       DEF PipelineNext, RunStep, People, pipeVars, diskVars, Refer, Checkpoint, Plan, Translate,
           Retry, WriteCode, WriteSource, SaveMemory, Begin, Die, Restore, RestoreFails
<1>2. ASSUME Sized, InHand, [PipelineNext]_pipeVars
      PROVE  \A l \in Locales, f \in Files : Over(l, f)
  BY <1>1, <1>2
<1>3. PipelineSpec => [][\A l \in Locales, f \in Files : Over(l, f)]_pipeVars
  BY <1>2, InHandAlways, PTL DEF PipelineSpec
<1> QED
  BY <1>3 DEF PersonKept

-----------------------------------------------------------------------------
(***************************************************************************)
(* The way of a string, from the code over a checkpoint to the source      *)
(* catalog: what each step does to the places where it may be.             *)
(***************************************************************************)
Mishap == spent'.mishaps # spent.mishaps
Past   == {"plan", "translate", "retry", "code"}

\* Run r takes a step, or is over.
Moves(r) ==
    /\ run' \in [Runs -> Local]
    /\ \A q \in Runs : q # r => run'[q] = run[q]
    /\ run[r].at \in Active /\ run'[r].at # "idle" /\ run'[r].alone = run[r].alone
    /\ run'[r].at \in Active =>
          /\ run'[r].scanned = run[r].scanned /\ run'[r].dry = run[r].dry
          /\ DOMAIN run'[r].plan \subseteq DOMAIN run[r].plan \cup run[r].scanned
          /\ \A f \in Files : run[r].entry[f] # "none" => run'[r].entry[f] = run[r].entry[f]
          /\ run'[r].at \in {"refs", "checkpoint"} => run[r].at \in {"refs", "checkpoint"}
          /\ run[r].at = "targets" => run'[r].at = "targets"
          /\ run'[r].at \in {"checkpoint", "code", "targets"} =>
                ~run[r].dry \/ run[r].at \in {"checkpoint", "code", "targets"}

\* A run writes the source catalog before it leaves the code, and has taken a
\* checkpoint before it goes past it, if nothing fails.
Stays(r)  == run[r].at = "code" => run'[r].at = "code" \/ Mishap
Backed(r) == run'[r].at \in Past /\ ~run'[r].dry => run[r].at \in Past \/ Mishap

MovesOn(r) == Moves(r) /\ Stays(r) /\ Backed(r) /\ UNCHANGED <<code, src, ckpts>>

Starts(r) ==
    /\ run' \in [Runs -> Local]
    /\ run[r].at = "idle" /\ run'[r].at = "refs" /\ run'[r].alone = (Busy = {})
    /\ run'[r].scanned = {f \in Files : code[f] = Own(f, "literal")}
    /\ \A f \in Files : run'[r].entry[f] =
          IF code[f] = Own(f, "literal") THEN "original" ELSE src[f]
    /\ DOMAIN run'[r].plan = {}
    /\ \A q \in Runs : q # r => /\ Alike(run[q], run'[q]) /\ run'[q].at = run[q].at
                               /\ run'[q].alone = (run[q].alone /\ q \notin Busy)
    /\ UNCHANGED <<code, src, ckpts>>

\* The backups that a checkpoint leaves.
Copied(r, dir, backup) ==
    \E last \in [Names -> Files] :
        /\ \A f \in run[r].scanned :
              Base[last[Base[f]]] = Base[f] /\ last[Base[f]] \in run[r].scanned
        /\ \/ backup = Backups(dir, run[r].scanned, last)
           \/ Mishap /\ \E f \in run[r].scanned :
                LET all == Backups(dir, run[r].scanned, last) IN
                \/ backup = [all EXCEPT ![Base[f]] = dir[Base[f]]]
                \/ backup = [all EXCEPT ![Base[f]] = Own(f, "torn")]

Secures(r) ==
    /\ Moves(r) /\ run[r].at = "checkpoint"
    /\ UNCHANGED <<code, src>>
    /\ \E s \in 0 .. MaxTime, backup \in [Names -> Content \cup {<<>>}] :
          /\ Copied(r, ckpts[s].backup, backup)
          /\ ckpts' = [ckpts EXCEPT ![s] = [files |-> run[r].scanned, backup |-> backup,
                                            was |-> code, made |-> ckpts[s].made + 1]]

Patches(r) ==
    /\ Moves(r) /\ Stays(r) /\ Backed(r) /\ run[r].at = "code"
    /\ UNCHANGED <<src, ckpts>>
    /\ \E f \in DOMAIN run[r].plan : \/ code' = [code EXCEPT ![f] = run[r].plan[f]]
                                     \/ Mishap /\ code' = [code EXCEPT ![f] = Own(f, "torn")]

Records(r) ==
    /\ Moves(r) /\ Backed(r) /\ run[r].at = "code"
    /\ UNCHANGED <<code, ckpts>>
    /\ src' = run[r].entry \/ Mishap

RollsBack ==
    /\ UNCHANGED <<src, ckpts, run>>
    /\ \E s \in DOMAIN ckpts :
          \/ code' = Restored(s)
          \/ Mishap /\ \E f \in ckpts[s].files :
                /\ \A g \in Files : g # f => code'[g] = Restored(s)[g]
                /\ code'[f] = code[f] \/ code'[f] = Own(f, "torn")

Rests == UNCHANGED <<code, src, ckpts, run>>

LEMMA EndMoves ==
    ASSUME Sized, NEW r \in Runs, NEW how \in {"done", "dead", "failed"},
           Becomes(r, Ended(r, how)), run[r].at \in Active
    PROVE  Moves(r) /\ run'[r].at \notin Active
<1>1. Ended(r, how).at = how /\ Ended(r, how).alone = run[r].alone
  BY EndedTypes DEF Stages, Sized
<1> QED
  BY <1>1 DEF Becomes, Moves, Active

LEMMA GoesMoves ==
    ASSUME Sized, NEW r \in Runs, NEW x, Goes(r, x), run[r].at \in {"code", "targets"},
           x.at \in {run[r].at, "targets"}, x.alone = run[r].alone,
           x.scanned = run[r].scanned, x.dry = run[r].dry, x.entry = run[r].entry,
           DOMAIN x.plan \subseteq DOMAIN run[r].plan
    PROVE  Moves(r) /\ (run'[r].at = x.at \/ (Mishap /\ run'[r].at \notin Active))
<1>1. CASE Becomes(r, x)
  BY <1>1 DEF Becomes, Moves, Active
<1>2. CASE Becomes(r, Ended(r, "dead")) /\ Mishap
  BY <1>2, EndMoves DEF Active
<1> QED
  BY <1>1, <1>2 DEF Goes, Mishap

LEMMA VerifiedMoves ==
    ASSUME Sized, NEW r \in Runs, NEW x \in Local, Becomes(r, Verified(r, x)),
           run[r].at \in {"translate", "retry"}, x.alone = run[r].alone,
           x.scanned = run[r].scanned, x.dry = run[r].dry, x.entry = run[r].entry,
           x.plan = run[r].plan
    PROVE  Moves(r) /\ Stays(r) /\ Backed(r)
<1>1. CASE Verified(r, x) = Ended(r, "done")
  BY <1>1, EndMoves DEF Active, Stays, Backed, Past
<1>2. CASE Verified(r, x) # Ended(r, "done")
  <2>1. /\ Alike(x, run'[r]) /\ run'[r].alone = x.alone
        /\ run'[r].at = "retry" \/ (run'[r].at = "code" /\ ~x.dry)
    BY <1>2, VerifiedShape DEF Sized, Becomes
  <2> QED
    BY <2>1 DEF Becomes, Moves, Stays, Backed, Alike, Active, Past
<1> QED
  BY <1>1, <1>2

LEMMA StepKinds ==
    ASSUME Sized, [PipelineNext]_pipeVars
    PROVE  /\ spent.mishaps \in Nat /\ spent'.mishaps \in Nat /\ spent'.mishaps >= spent.mishaps
           /\ \/ \E r \in Runs : \/ MovesOn(r) \/ Starts(r) \/ Secures(r)
                                 \/ Patches(r) \/ Records(r)
              \/ RollsBack
              \/ Rests
<1> DEFINE More == spent'.mishaps \in Nat /\ spent'.mishaps >= spent.mishaps
           Kind == \/ \E r \in Runs : \/ MovesOn(r) \/ Starts(r) \/ Secures(r)
                                     \/ Patches(r) \/ Records(r)
                   \/ RollsBack
                   \/ Rests
<1>1. spent.mishaps \in Nat /\ \A r \in Runs : run[r] \in Local
  BY DEF Sized, Typed
<1>2. UNCHANGED spent => More
  BY <1>1
<1>3. SpentType /\ spent'.mishaps >= spent.mishaps => More
  BY DEF SpentType
<1>4. SpentType /\ spent'.mishaps = spent.mishaps + 1 => More /\ Mishap
  BY <1>1 DEF SpentType, Mishap
<1> HIDE DEF More
<1>5. ASSUME NEW r \in Runs, Refer(r) PROVE More /\ MovesOn(r)
  <2>1. UNCHANGED <<code, src, ckpts, spent>> /\ run[r].at = "refs"
    BY <1>5 DEF Refer, diskVars
  <2>2. PICK e \in [Files -> Entries] :
          /\ \A f \in Files : e[f] = Referred(r, f)
          /\ \/ Becomes(r, Ended(r, "done"))
             \/ \E at \in {"plan", "checkpoint"} :
                   /\ at = "plan" <=> run[r].dry
                   /\ Becomes(r, [run[r] EXCEPT !.entry = e, !.at = at])
    BY <1>5, ReferBecomes DEF Sized
  <2>3. ASSUME NEW at \in {"plan", "checkpoint"}, at = "plan" <=> run[r].dry,
               Becomes(r, [run[r] EXCEPT !.entry = e, !.at = at])
        PROVE  Moves(r) /\ Stays(r) /\ Backed(r)
    <3> DEFINE x == [run[r] EXCEPT !.entry = e, !.at = at]
    <3>1. /\ x.at = at /\ x.alone = run[r].alone /\ x.scanned = run[r].scanned
          /\ x.dry = run[r].dry /\ x.plan = run[r].plan /\ x.entry = e
      BY <1>1 DEF Local
    <3>2. \A f \in Files : run[r].entry[f] # "none" => e[f] = run[r].entry[f]
      BY <2>2 DEF Referred
    <3>3. run' \in [Runs -> Local] /\ run'[r] = x /\ \A q \in Runs : q # r => run'[q] = run[q]
      BY <2>3 DEF Becomes
    <3> HIDE DEF x
    <3> QED
      BY <2>1, <2>3, <3>1, <3>2, <3>3 DEF Moves, Stays, Backed, Active, Past
  <2>4. Becomes(r, Ended(r, "done")) => Moves(r) /\ Stays(r) /\ Backed(r)
    BY <2>1, EndMoves DEF Active, Stays, Backed, Past
  <2> QED
    BY <1>2, <2>1, <2>2, <2>3, <2>4 DEF MovesOn
<1>6. ASSUME NEW r \in Runs, Checkpoint(r) PROVE More /\ (MovesOn(r) \/ Secures(r))
  <2> DEFINE x == [run[r] EXCEPT !.at = "plan"]
  <2>1. run[r].at = "checkpoint" /\ UNCHANGED <<code, src>>
    BY <1>6 DEF Checkpoint
  <2>2. /\ x.at = "plan" /\ x.alone = run[r].alone /\ x.scanned = run[r].scanned
        /\ x.dry = run[r].dry /\ x.plan = run[r].plan /\ x.entry = run[r].entry
    BY <1>1 DEF Local
  <2>3. /\ Becomes(r, x) \/ Becomes(r, Ended(r, "dead"))
        /\ SpentType /\ spent'.mishaps >= spent.mishaps
        /\ clock' \in 0 .. MaxTime
        /\ \/ ckpts' = ckpts /\ Mishap
           \/ \E last \in [Names -> Files], backup \in [Names -> Content \cup {<<>>}] :
                   /\ \A f \in run[r].scanned :
                         Base[last[Base[f]]] = Base[f] /\ last[Base[f]] \in run[r].scanned
                   /\ \/ backup = Backups(ckpts[clock'].backup, run[r].scanned, last)
                      \/ /\ Mishap
                         /\ \E f \in run[r].scanned :
                              LET all == Backups(ckpts[clock'].backup, run[r].scanned, last) IN
                              \/ backup = [all EXCEPT ![Base[f]] = ckpts[clock'].backup[Base[f]]]
                              \/ backup = [all EXCEPT ![Base[f]] = Own(f, "torn")]
                   /\ ckpts' = [ckpts EXCEPT ![clock'] =
                         [files |-> run[r].scanned, backup |-> backup, was |-> code,
                          made |-> ckpts[clock'].made + 1]]
    BY <1>6, CheckpointBecomes DEF Sized, Mishap
  <2> HIDE DEF x
  <2>4. Moves(r)
    <3>1. CASE Becomes(r, x)
      BY <2>1, <2>2, <3>1 DEF Becomes, Moves, Active
    <3> QED
      BY <2>1, <2>3, <3>1, EndMoves DEF Active
  <2>5. CASE ckpts' = ckpts /\ Mishap
    BY <1>3, <2>1, <2>3, <2>4, <2>5 DEF MovesOn, Stays, Backed
  <2>6. ASSUME NEW backup \in [Names -> Content \cup {<<>>}],
               Copied(r, ckpts[clock'].backup, backup),
               ckpts' = [ckpts EXCEPT ![clock'] =
                         [files |-> run[r].scanned, backup |-> backup, was |-> code,
                          made |-> ckpts[clock'].made + 1]]
        PROVE  Secures(r)
    <3>1. PICK s \in 0 .. MaxTime : s = clock'
      BY <2>3
    <3> QED
      BY <2>1, <2>4, <2>6, <3>1 DEF Secures
  <2>7. (ckpts' = ckpts /\ Mishap) \/ Secures(r)
    BY <2>3, <2>6 DEF Copied
  <2> QED
    BY <1>3, <2>3, <2>5, <2>7
<1>7. ASSUME NEW r \in Runs, Plan(r) PROVE More /\ MovesOn(r)
  <2>1. UNCHANGED <<code, src, ckpts, spent>> /\ run[r].at = "plan"
    BY <1>7 DEF Plan, diskVars
  <2>2. \/ Becomes(r, Ended(r, "failed"))
        \/ \E p \in Plans :
              /\ DOMAIN p \subseteq run[r].scanned
              /\ Becomes(r, [run[r] EXCEPT !.at = "translate", !.plan = p])
    BY <1>7, PlanBecomes DEF Sized
  <2>3. ASSUME NEW p \in Plans, DOMAIN p \subseteq run[r].scanned,
               Becomes(r, [run[r] EXCEPT !.at = "translate", !.plan = p])
        PROVE  Moves(r) /\ Stays(r) /\ Backed(r)
    <3> DEFINE x == [run[r] EXCEPT !.at = "translate", !.plan = p]
    <3>1. /\ x.at = "translate" /\ x.alone = run[r].alone /\ x.scanned = run[r].scanned
          /\ x.dry = run[r].dry /\ x.plan = p /\ x.entry = run[r].entry
      BY <1>1 DEF Local
    <3>2. run' \in [Runs -> Local] /\ run'[r] = x /\ \A q \in Runs : q # r => run'[q] = run[q]
      BY <2>3 DEF Becomes
    <3> HIDE DEF x
    <3> QED
      BY <2>1, <2>3, <3>1, <3>2 DEF Moves, Stays, Backed, Active, Past
  <2>4. Becomes(r, Ended(r, "failed")) => Moves(r) /\ Stays(r) /\ Backed(r)
    BY <2>1, EndMoves DEF Active, Stays, Backed, Past
  <2> QED
    BY <1>2, <2>1, <2>2, <2>3, <2>4 DEF MovesOn
<1>8. ASSUME NEW r \in Runs, Translate(r) PROVE More /\ MovesOn(r)
  <2>1. UNCHANGED <<code, src, ckpts, spent>> /\ run[r].at = "translate"
    BY <1>8 DEF Translate, diskVars
  <2>2. PICK v \in [Locales -> [Files -> Values]] :
          LET x == [run[r] EXCEPT !.data = Merged(Kept(r), v),
                                  !.mem = Learned(r, v, Feedback({}))]
          IN  x \in Local /\ Becomes(r, Verified(r, x))
    BY <1>8, TranslateBecomes DEF Sized
  <2> DEFINE x == [run[r] EXCEPT !.data = Merged(Kept(r), v),
                                 !.mem = Learned(r, v, Feedback({}))]
  <2>3. /\ x.alone = run[r].alone /\ x.scanned = run[r].scanned
        /\ x.dry = run[r].dry /\ x.plan = run[r].plan /\ x.entry = run[r].entry
    BY <1>1 DEF Local
  <2>4. x \in Local /\ Becomes(r, Verified(r, x))
    BY <2>2
  <2> HIDE DEF x
  <2> QED
    BY <1>2, <2>1, <2>3, <2>4, VerifiedMoves DEF MovesOn
<1>9. ASSUME NEW r \in Runs, Retry(r) PROVE More /\ MovesOn(r)
  <2>1. UNCHANGED <<code, src, ckpts, spent>> /\ run[r].at = "retry" /\ run[r].round < 2
    BY <1>9 DEF Retry, diskVars, Sized, RoundsLeft
  <2>2. PICK v \in [Locales -> [Files -> Values]] :
          LET x == [run[r] EXCEPT !.round = run[r].round + 1, !.flagged = Flagged(r),
                                  !.data = Merged(run[r].data, v),
                                  !.mem = Learned(r, v, Again(r))]
          IN  x \in Local /\ Becomes(r, Verified(r, x))
    BY <1>9, <2>1, RetryBecomes DEF Sized
  <2> DEFINE x == [run[r] EXCEPT !.round = run[r].round + 1, !.flagged = Flagged(r),
                                 !.data = Merged(run[r].data, v),
                                 !.mem = Learned(r, v, Again(r))]
  <2>3. /\ x.alone = run[r].alone /\ x.scanned = run[r].scanned
        /\ x.dry = run[r].dry /\ x.plan = run[r].plan /\ x.entry = run[r].entry
    BY <1>1 DEF Local
  <2>4. x \in Local /\ Becomes(r, Verified(r, x))
    BY <2>2
  <2> HIDE DEF x
  <2> QED
    BY <1>2, <2>1, <2>3, <2>4, VerifiedMoves DEF MovesOn
<1>10. ASSUME NEW r \in Runs, NEW f \in Files, WriteCode(r, f)
       PROVE  More /\ (MovesOn(r) \/ Patches(r))
  <2> DEFINE less == [g \in DOMAIN run[r].plan \ {f} |-> run[r].plan[g]]
             x == [run[r] EXCEPT !.plan = less]
  <2>1. /\ run[r].at = "code" /\ f \in DOMAIN run[r].plan
        /\ UNCHANGED <<src, ckpts>>
    BY <1>10 DEF WriteCode
  <2>2. /\ Goes(r, x)
        /\ \/ code' = [code EXCEPT ![f] = run[r].plan[f]]
           \/ Mishap /\ (code' = code \/ code' = [code EXCEPT ![f] = Own(f, "torn")])
    BY <1>10, WriteCodeBecomes DEF Sized, Mishap
  <2>3. DOMAIN less \subseteq DOMAIN run[r].plan
    OBVIOUS
  <2> HIDE DEF less
  <2>4. /\ x.at = "code" /\ x.alone = run[r].alone /\ x.scanned = run[r].scanned
        /\ x.dry = run[r].dry /\ x.plan = less /\ x.entry = run[r].entry
    BY <1>1, <2>1 DEF Local
  <2> HIDE DEF x
  <2>5. Moves(r) /\ Stays(r) /\ Backed(r)
    BY <2>1, <2>2, <2>3, <2>4, GoesMoves DEF Stays, Backed, Past, Active
  <2> QED
    BY <1>3, <2>1, <2>2, <2>5 DEF MovesOn, Patches, Goes
<1>11. ASSUME NEW r \in Runs, WriteSource(r) PROVE More /\ Records(r)
  <2> DEFINE x == [run[r] EXCEPT !.at = "targets", !.todo = Locales]
  <2>1. run[r].at = "code" /\ UNCHANGED <<code, ckpts>>
    BY <1>11 DEF WriteSource
  <2>2. Goes(r, x) /\ (src' = run[r].entry \/ Mishap)
    BY <1>11, WriteSourceBecomes DEF Sized, Mishap
  <2>3. /\ x.at = "targets" /\ x.alone = run[r].alone /\ x.scanned = run[r].scanned
        /\ x.dry = run[r].dry /\ x.plan = run[r].plan /\ x.entry = run[r].entry
    BY <1>1 DEF Local
  <2> HIDE DEF x
  <2>4. Moves(r) /\ Backed(r)
    BY <2>1, <2>2, <2>3, GoesMoves DEF Backed, Past, Active
  <2> QED
    BY <1>3, <2>1, <2>2, <2>4 DEF Records, Goes
<1>12. ASSUME NEW r \in Runs, NEW l \in Locales, WriteTarget(r, l) PROVE More /\ MovesOn(r)
  <2> DEFINE x == [run[r] EXCEPT !.todo = run[r].todo \ {l}]
  <2>1. run[r].at = "targets" /\ UNCHANGED <<code, src, ckpts>>
    BY <1>12 DEF WriteTarget
  <2>2. Goes(r, x)
    BY <1>12, WriteTargetBecomes DEF Sized
  <2>3. /\ x.at = "targets" /\ x.alone = run[r].alone /\ x.scanned = run[r].scanned
        /\ x.dry = run[r].dry /\ x.plan = run[r].plan /\ x.entry = run[r].entry
    BY <1>1, <2>1 DEF Local
  <2> HIDE DEF x
  <2>4. Moves(r) /\ Stays(r) /\ Backed(r)
    BY <2>1, <2>2, <2>3, GoesMoves DEF Stays, Backed, Past, Active
  <2> QED
    BY <1>3, <2>1, <2>2, <2>4 DEF MovesOn, Goes
<1>13. ASSUME NEW r \in Runs, SaveMemory(r) PROVE More /\ MovesOn(r)
  <2>1. run[r].at = "targets" /\ UNCHANGED <<code, src, ckpts>>
    BY <1>13 DEF SaveMemory
  <2>2. Goes(r, Ended(r, "done"))
    BY <1>13, SaveMemoryBecomes DEF Sized
  <2>3. Moves(r) /\ Stays(r) /\ Backed(r)
    BY <2>1, <2>2, EndMoves DEF Goes, Stays, Backed, Past, Active
  <2> QED
    BY <1>3, <2>1, <2>2, <2>3 DEF MovesOn, Goes
<1>14. ASSUME NEW r \in Runs, Begin(r) PROVE More /\ Starts(r)
  <2>1. UNCHANGED <<code, src, ckpts, spent>> /\ run[r].at = "idle"
    BY <1>14 DEF Begin, diskVars
  <2> QED
    BY <1>2, <1>14, <2>1, BeginBecomes DEF Starts, Sized
<1>15. ASSUME NEW r \in Runs, Die(r) PROVE More /\ MovesOn(r)
  <2>1. run[r].at \in Active /\ UNCHANGED <<code, src, ckpts>>
    BY <1>15 DEF Die, diskVars
  <2> QED
    BY <1>4, <1>15, <2>1, DieBecomes, EndMoves DEF MovesOn, Stays, Backed, Sized
<1>16. ASSUME NEW l \in Locales, NEW f \in Files, Edit(l, f) PROVE More /\ Rests
  <2>1. SpentType /\ spent'.mishaps = spent.mishaps
    BY <1>16, EditBecomes DEF Sized
  <2> QED
    BY <1>1, <1>3, <1>16, <2>1 DEF Rests, Edit
<1>17. ASSUME NEW s \in DOMAIN ckpts, Restore(s) PROVE More /\ RollsBack
  <2>1. SpentType /\ spent'.mishaps = spent.mishaps
    BY <1>17, SpendBy DEF Restore, Sized
  <2> QED
    BY <1>1, <1>3, <1>17, <2>1 DEF RollsBack, Restore
<1>18. ASSUME NEW s \in DOMAIN ckpts, NEW f \in Files, RestoreFails(s, f) PROVE More /\ RollsBack
  <2>1. f \in ckpts[s].files /\ UNCHANGED <<src, ckpts, run>>
    BY <1>18 DEF RestoreFails
  <2> QED
    BY <1>4, <1>18, <2>1, RestoreFailsBy DEF RollsBack, Sized
<1>19. ASSUME UNCHANGED pipeVars PROVE More /\ Rests
  BY <1>2, <1>19 DEF Rests, pipeVars, diskVars
<1>20. More /\ Kind
  <2> HIDE DEF Kind
  <2>1. (\E r \in Runs : \/ MovesOn(r) \/ Starts(r) \/ Secures(r) \/ Patches(r) \/ Records(r))
        \/ RollsBack \/ Rests => Kind
    BY DEF Kind
  <2> QED
    BY <1>5, <1>6, <1>7, <1>8, <1>9, <1>10, <1>11, <1>12, <1>13, <1>14, <1>15, <1>16, <1>17,
       <1>18, <1>19, <2>1 DEF PipelineNext, RunStep, People
<1> QED
  BY <1>1, <1>20 DEF More

\* A run found what it has scanned as a literal, and it plans and writes
\* nothing else, and nothing when it is dry.
Scans(q) ==
    run[q].at \in Active =>
        /\ \A f \in run[q].scanned : run[q].entry[f] = "original"
        /\ DOMAIN run[q].plan \subseteq run[q].scanned
        /\ run[q].at \in {"checkpoint", "code", "targets"} => ~run[q].dry

AllAlone == \A r \in Runs : run[r].at = "idle" \/ run[r].alone

\* No two runs are in progress if none has met another; a directory that no
\* run has written into is as new.
Way ==
    /\ \A q \in Runs : Scans(q)
    /\ AllAlone => \A p, q \in Busy : p = q
    /\ \A s \in DOMAIN ckpts : ckpts[s].made = 0 => ckpts[s] = NoCkpt

\* Once two runs have met, they have.
LEMMA AloneBefore ==
    ASSUME Sized, NEW r \in Runs, Moves(r) \/ Starts(r), AllAlone'
    PROVE  AllAlone /\ (Starts(r) => Busy = {})
<1>1. \A q \in Runs : run'[q].at = "idle" \/ run'[q].alone
  BY DEF AllAlone
<1>2. CASE Moves(r)
  <2>1. \A q \in Runs : run[q].at = "idle" \/ run[q].alone
    BY <1>1, <1>2 DEF Moves
  <2>2. ~Starts(r)
    BY <1>2 DEF Moves, Starts, Active
  <2> QED
    BY <2>1, <2>2 DEF AllAlone
<1>3. CASE Starts(r)
  <2>1. \A q \in Runs : run[q].at = "idle" \/ run[q].alone
    BY <1>1, <1>3 DEF Starts
  <2>2. Busy = {}
    BY <1>1, <1>3 DEF Starts
  <2> QED
    BY <2>1, <2>2 DEF AllAlone
<1> QED
  BY <1>2, <1>3

LEMMA MovesWay ==
    ASSUME Sized, Way, NEW r \in Runs, Moves(r)
    PROVE  /\ \A q \in Runs : Scans(q)'
           /\ AllAlone' => \A p, q \in Busy' : p = q
           /\ Busy' \subseteq Busy
<1>1. ASSUME NEW q \in Runs PROVE Scans(q)'
  <2>1. CASE q = r
    <3>1. run[r] \in Local /\ Scans(r)
      BY DEF Sized, Typed, Way
    <3>2. run[r].scanned \subseteq Files
      BY <3>1 DEF Local
    <3>3. SUFFICES ASSUME run'[r].at \in Active PROVE Scans(r)'
      BY <2>1 DEF Scans
    <3>4. \A f \in run'[r].scanned : run'[r].entry[f] = "original"
      BY <3>1, <3>2, <3>3 DEF Moves, Scans
    <3>5. DOMAIN run'[r].plan \subseteq run'[r].scanned
      BY <3>1, <3>3 DEF Moves, Scans
    <3>6. run'[r].at \in {"checkpoint", "code", "targets"} => ~run'[r].dry
      BY <3>1, <3>3 DEF Moves, Scans
    <3> QED
      BY <3>4, <3>5, <3>6 DEF Scans
  <2>2. CASE q # r
    BY <2>2 DEF Moves, Way, Scans
  <2> QED
    BY <2>1, <2>2
<1>2. Busy' \subseteq Busy
  BY DEF Moves, Busy
<1> QED
  BY <1>1, <1>2, AloneBefore DEF Way

LEMMA WayNext ==
    ASSUME Sized, Way, [PipelineNext]_pipeVars PROVE Way'
<1> DEFINE Made == \A s \in DOMAIN ckpts : ckpts[s].made = 0 => ckpts[s] = NoCkpt
<1>1. Made /\ (UNCHANGED ckpts => Made')
  BY DEF Way
<1>2. ASSUME NEW r \in Runs, MovesOn(r) \/ Patches(r) \/ Records(r) PROVE Way'
  <2>1. Moves(r) /\ UNCHANGED ckpts
    BY <1>2 DEF MovesOn, Patches, Records
  <2> QED
    BY <1>1, <2>1, MovesWay DEF Way
<1>3. ASSUME NEW r \in Runs, Secures(r) PROVE Way'
  <2>1. PICK s \in 0 .. MaxTime, backup \in [Names -> Content \cup {<<>>}] :
          ckpts' = [ckpts EXCEPT ![s] = [files |-> run[r].scanned, backup |-> backup,
                                            was |-> code, made |-> ckpts[s].made + 1]]
    BY <1>3 DEF Secures
  <2>2. ckpts[s].made \in Nat /\ DOMAIN ckpts = 0 .. MaxTime
    BY DEF Sized, Typed, Disk, Dir
  <2>3. Made'
    BY <1>1, <2>1, <2>2
  <2> QED
    BY <1>3, <2>3, MovesWay DEF Way, Secures
<1>4. ASSUME NEW r \in Runs, Starts(r) PROVE Way'
  <2>1. Made'
    BY <1>1, <1>4 DEF Starts
  <2>2. Scans(r)'
    BY <1>4 DEF Starts, Scans
  <2>3. ASSUME NEW q \in Runs, q # r PROVE Scans(q)'
    BY <1>4, <2>3 DEF Starts, Scans, Way, Alike
  <2>4. ASSUME AllAlone' PROVE \A p, q \in Busy' : p = q
    <3>1. Busy = {}
      BY <1>4, <2>4, AloneBefore
    <3> QED
      BY <1>4, <3>1 DEF Busy, Starts
  <2> QED
    BY <2>1, <2>2, <2>3, <2>4 DEF Way
<1>5. CASE RollsBack \/ Rests
  BY <1>5 DEF RollsBack, Rests, Way, Scans, AllAlone, Busy
<1> QED
  BY <1>2, <1>3, <1>4, <1>5, StepKinds

LEMMA WayAlways == PipelineSpec => [](Sized /\ Way)
<1>1. PipelineInit => Way
  <2> SUFFICES ASSUME PipelineInit PROVE Way
    OBVIOUS
  <2>1. \A r \in Runs : run[r].at = "idle"
    BY FreshTypes DEF PipelineInit
  <2>2. \A s \in DOMAIN ckpts : ckpts[s] = NoCkpt
    BY DEF PipelineInit
  <2> QED
    BY <2>1, <2>2 DEF Way, Scans, Busy, Active
<1> QED
  BY <1>1, SizedInit, SizedNext, WayNext, PTL DEF PipelineSpec

-----------------------------------------------------------------------------
(***************************************************************************)
(* Runs that take turns, and nothing fails: a backup is of a literal; a    *)
(* run has scanned literals until it takes its checkpoint; and what the    *)
(* code refers to has its string in the source catalog, or in the run that *)
(* has put the reference there, and any run that will write the source     *)
(* catalog has it too.                                                     *)
(***************************************************************************)
Literals == {Own(g, "literal") : g \in Files}
Knows ==
    AllAlone /\ Smooth =>
      /\ \A s \in DOMAIN ckpts, n \in Names : ckpts[s].backup[n] \in Literals \cup {<<>>}
      /\ \A r \in Busy : run[r].at \in {"refs", "checkpoint"} =>
             \A f \in run[r].scanned : code[f] \in Literals
      /\ \A f \in Files : code[f] = Own(f, "refs") =>
             /\ \A r \in Busy : run[r].at # "targets" => run[r].entry[f] = "original"
             /\ src[f] = "original" \/ \E r \in Busy : run[r].at = "code"

LEMMA LiteralNotRefs == \A f \in Files : Own(f, "refs") \notin Literals
BY DEF Own, Literals

LEMMA KnowsNext ==
    ASSUME Sized, Way, Knows, [PipelineNext]_pipeVars PROVE Knows'
<1> DEFINE Then ==
             /\ \A s \in DOMAIN ckpts', n \in Names : ckpts'[s].backup[n] \in Literals \cup {<<>>}
             /\ \A q \in Busy' : run'[q].at \in {"refs", "checkpoint"} =>
                    \A f \in run'[q].scanned : code'[f] \in Literals
             /\ \A f \in Files : code'[f] = Own(f, "refs") =>
                    /\ \A q \in Busy' : run'[q].at # "targets" => run'[q].entry[f] = "original"
                    /\ src'[f] = "original" \/ \E q \in Busy' : run'[q].at = "code"
<1> SUFFICES ASSUME AllAlone', Smooth' PROVE Then
  BY DEF Knows
<1>0. Smooth /\ ~Mishap
  BY StepKinds DEF Smooth, Mishap
<1>b. Busy \subseteq Runs /\ \A q \in Runs : q \in Busy <=> run[q].at \in Active
  BY DEF Busy
<1>c. Busy' \subseteq Runs /\ \A q \in Runs : q \in Busy' <=> run'[q].at \in Active
  BY DEF Busy
<1>1. ASSUME NEW r \in Runs, Moves(r)
      PROVE  AllAlone /\ Busy = {r} /\ Busy' \subseteq {r} /\ Scans(r)
  BY <1>1, <1>b, AloneBefore, MovesWay DEF Way, Moves
<1>2. ASSUME NEW r \in Runs, MovesOn(r) PROVE Then
  <2>1. Moves(r) /\ UNCHANGED <<code, src, ckpts>> /\ (run[r].at = "code" => run'[r].at = "code")
    BY <1>0, <1>2 DEF MovesOn, Stays
  <2>2. AllAlone /\ Busy = {r} /\ Busy' \subseteq {r}
    BY <1>1, <2>1
  <2>3. "code" \in Active
    BY DEF Active
  <2>4. ASSUME NEW q \in Busy' PROVE q = r /\ run'[r].at \in Active
    BY <1>c, <2>2, <2>4
  <2> QED
    BY <1>0, <1>c, <2>1, <2>2, <2>3, <2>4 DEF Knows, Moves
<1>3. ASSUME NEW r \in Runs, Starts(r) PROVE Then
  <2>1. AllAlone /\ Busy = {}
    BY <1>3, AloneBefore
  <2>2. \A q \in Busy' : q = r
    BY <1>3, <1>b, <1>c, <2>1 DEF Starts
  <2>3. UNCHANGED <<code, src, ckpts>>
    BY <1>3 DEF Starts
  <2>4. \A f \in run'[r].scanned : code'[f] \in Literals
    BY <1>3, <2>3 DEF Starts, Literals
  <2>5. ASSUME NEW f \in Files, code'[f] = Own(f, "refs")
        PROVE  src'[f] = "original" /\ run'[r].entry[f] = "original"
    <3>1. src[f] = "original"
      BY <1>0, <2>1, <2>3, <2>5 DEF Knows
    <3> QED
      BY <1>3, <2>3, <2>5, <3>1 DEF Starts
  <2> QED
    BY <1>0, <2>1, <2>2, <2>3, <2>4, <2>5 DEF Knows
<1>4. ASSUME NEW r \in Runs, Secures(r) PROVE Then
  <2>1. Moves(r) /\ UNCHANGED <<code, src>> /\ run[r].at = "checkpoint"
    BY <1>4 DEF Secures
  <2>2. AllAlone /\ Busy = {r} /\ Busy' \subseteq {r}
    BY <1>1, <2>1
  <2>3. \A f \in run[r].scanned : code[f] \in Literals
    BY <1>0, <2>1, <2>2 DEF Knows
  <2>4. PICK s \in 0 .. MaxTime, backup \in [Names -> Content \cup {<<>>}] :
          /\ Copied(r, ckpts[s].backup, backup)
          /\ ckpts' = [ckpts EXCEPT ![s] = [files |-> run[r].scanned, backup |-> backup,
                                            was |-> code, made |-> ckpts[s].made + 1]]
    BY <1>4 DEF Secures
  <2>5. DOMAIN ckpts = 0 .. MaxTime
    BY DEF Sized, Typed, Disk
  <2>6. \A n \in Names : backup[n] \in Literals \cup {<<>>}
    <3>1. \A n \in Names : ckpts[s].backup[n] \in Literals \cup {<<>>}
      BY <1>0, <2>2, <2>5 DEF Knows
    <3>2. PICK last \in [Names -> Files] :
            /\ \A f \in run[r].scanned : last[Base[f]] \in run[r].scanned
            /\ backup = Backups(ckpts[s].backup, run[r].scanned, last)
      BY <1>0, <2>4 DEF Copied
    <3> QED
      BY <2>3, <3>1, <3>2 DEF Backups
  <2>7. \A t \in DOMAIN ckpts', n \in Names : ckpts'[t].backup[n] \in Literals \cup {<<>>}
    BY <1>0, <2>2, <2>4, <2>5, <2>6 DEF Knows
  <2>8. ASSUME NEW q \in Busy' PROVE q = r /\ run'[r].at \in Active
    BY <1>c, <2>2, <2>8
  <2> QED
    BY <1>0, <1>c, <2>1, <2>2, <2>3, <2>7, <2>8 DEF Knows, Moves
<1>5. ASSUME NEW r \in Runs, Patches(r) PROVE Then
  <2>1. Moves(r) /\ UNCHANGED <<src, ckpts>> /\ run[r].at = "code" /\ run'[r].at = "code"
    BY <1>0, <1>5 DEF Patches, Stays
  <2>2. AllAlone /\ Busy = {r} /\ Busy' \subseteq {r} /\ Scans(r)
    BY <1>1, <2>1
  <2>3. PICK f \in DOMAIN run[r].plan : code' = [code EXCEPT ![f] = run[r].plan[f]]
    BY <1>0, <1>5 DEF Patches
  <2>4. run[r].entry[f] = "original" /\ f \in Files
    BY <2>1, <2>2, <2>3 DEF Scans, Active, Sized, Typed, Local
  <2>5. \A g \in Files : code'[g] = Own(g, "refs") => run[r].entry[g] = "original"
    BY <1>0, <2>1, <2>2, <2>3, <2>4 DEF Knows
  <2>6. ASSUME NEW q \in Busy' PROVE q = r
    BY <2>2, <2>6
  <2>7. r \in Busy' /\ \A g \in Files : run[r].entry[g] # "none" => run'[r].entry[g] = run[r].entry[g]
    BY <1>c, <2>1 DEF Active, Moves
  <2> QED
    BY <1>0, <2>1, <2>2, <2>5, <2>6, <2>7 DEF Knows
<1>6. ASSUME NEW r \in Runs, Records(r) PROVE Then
  <2>1. Moves(r) /\ UNCHANGED <<code, ckpts>> /\ run[r].at = "code" /\ src' = run[r].entry
    BY <1>0, <1>6 DEF Records
  <2>2. AllAlone /\ Busy = {r} /\ Busy' \subseteq {r}
    BY <1>1, <2>1
  <2>3. \A g \in Files : code'[g] = Own(g, "refs") => run[r].entry[g] = "original"
    BY <1>0, <2>1, <2>2 DEF Knows
  <2>4. ASSUME NEW q \in Busy' PROVE q = r /\ run'[r].at \in Active
    BY <1>c, <2>2, <2>4
  <2>5. run'[r].at \in Active => run'[r].at \notin {"refs", "checkpoint"} /\
          \A g \in Files : run[r].entry[g] # "none" => run'[r].entry[g] = run[r].entry[g]
    BY <2>1 DEF Moves
  <2> QED
    BY <1>0, <2>1, <2>2, <2>3, <2>4, <2>5 DEF Knows
<1>7. CASE RollsBack
  <2>1. UNCHANGED <<src, ckpts, run>> /\ AllAlone /\ Busy' = Busy
    BY <1>7 DEF RollsBack, AllAlone, Busy
  <2>2. PICK s \in DOMAIN ckpts : code' = Restored(s)
    BY <1>0, <1>7 DEF RollsBack
  <2>3. \A f \in Files : code'[f] = code[f] \/ code'[f] \in Literals
    <3>1. \A f \in Files : Base[f] \in Names
      BY DEF Names
    <3> QED
      BY <1>0, <2>1, <2>2, <3>1 DEF Restored, Knows
  <2>4. \A r \in Runs : run[r].scanned \subseteq Files
    BY DEF Sized, Typed, Local
  <2> QED
    BY <1>0, <1>b, <2>1, <2>3, <2>4, LiteralNotRefs DEF Knows
<1>8. CASE Rests
  <2>1. UNCHANGED <<code, src, ckpts, run>> /\ AllAlone /\ Busy' = Busy
    BY <1>8 DEF Rests, AllAlone, Busy
  <2> QED
    BY <1>0, <2>1 DEF Knows
<1> QED
  BY <1>2, <1>3, <1>4, <1>5, <1>6, <1>7, <1>8, StepKinds

\* Between runs that took turns and succeeded, code that refers to a key finds
\* the string it replaced under that key, whatever was restored in between.
THEOREM CodeIsKnown == PipelineSpec => []SourceKnowsCode
<1>1. PipelineInit => Knows
  <2> SUFFICES ASSUME PipelineInit PROVE Knows
    OBVIOUS
  <2>1. \A r \in Runs : run[r].at = "idle"
    BY FreshTypes DEF PipelineInit
  <2>2. Busy = {}
    BY <2>1 DEF Busy, Active
  <2>3. \A s \in DOMAIN ckpts, n \in Names : ckpts[s].backup[n] = <<>>
    BY DEF PipelineInit, NoCkpt
  <2>4. \A f \in Files : code[f] \in Literals
    BY DEF PipelineInit, Literals
  <2> QED
    BY <2>2, <2>3, <2>4, LiteralNotRefs DEF Knows
<1>2. Knows => SourceKnowsCode
  BY DEF Knows, SourceKnowsCode, InTurn, AllAlone
<1>3. Sized /\ Way /\ Knows /\ [PipelineNext]_pipeVars => Knows'
  BY KnowsNext
<1> QED
  BY <1>1, <1>2, <1>3, WayAlways, PTL DEF PipelineSpec

-----------------------------------------------------------------------------
(***************************************************************************)
(* One mishap.  As long as nothing has failed, every string is in its file *)
(* or in a checkpoint, even if runs have met: so the mishap itself loses   *)
(* nothing.  After it, if no runs have met, a string that is neither in    *)
(* its file nor in a checkpoint is in the source catalog, or in the run    *)
(* that took it out of the file.                                           *)
(***************************************************************************)
Lit(f) == Own(f, "literal")

\* The part of OneMishap that is about names and directories.
Apart ==
    /\ \A f, g \in Files : Base[f] = Base[g] => f = g
    /\ \A s \in DOMAIN ckpts :
           /\ ckpts[s].made <= 1
           /\ \A n \in Names : ckpts[s].backup[n] \notin {Own(f, "torn") : f \in Files}

Safe ==
    Apart /\ Smooth =>
      /\ \A f \in Files : code[f] = Lit(f) \/ InCheckpoint(f)
      /\ \A s \in DOMAIN ckpts : \A f \in ckpts[s].files : InCheckpoint(f)
      /\ \A r \in Busy : run[r].at \in Past /\ ~run[r].dry =>
             \A f \in run[r].scanned : InCheckpoint(f)

Known(f) ==
    /\ src[f] = "original" \/ \E r \in Busy : run[r].at = "code"
    /\ \A r \in Busy : run[r].at # "targets" => run[r].entry[f] = "original"

Traced ==
    Apart /\ spent.mishaps <= 1 /\ AllAlone =>
      /\ \A f \in Files : code[f] = Lit(f) \/ InCheckpoint(f) \/ Known(f)
      /\ \A s \in DOMAIN ckpts : \A f \in ckpts[s].files :
             \/ ckpts[s].backup[Base[f]] = Lit(f)
             \/ ckpts[s].backup[Base[f]] = <<>> /\ spent.mishaps # 0
      /\ \A r \in Busy : run[r].at \in {"refs", "checkpoint"} =>
             \A f \in run[r].scanned :
                code[f] = Lit(f) \/ (code[f] = Own(f, "torn") /\ spent.mishaps # 0)

\* A checkpoint in a directory of its own.
LEMMA SecuresApart ==
    ASSUME Sized, Way, NEW r \in Runs, Secures(r), Apart'
    PROVE  \E s \in DOMAIN ckpts :
             /\ ckpts[s] = NoCkpt /\ DOMAIN ckpts' = DOMAIN ckpts
             /\ ckpts'[s].files = run[r].scanned
             /\ \A f \in run[r].scanned :
                   \/ ckpts'[s].backup[Base[f]] = code[f] /\ code[f] # Own(f, "torn")
                   \/ ckpts'[s].backup[Base[f]] = <<>> /\ Mishap
             /\ \A t \in DOMAIN ckpts : t # s => ckpts'[t] = ckpts[t]
<1>1. PICK s \in 0 .. MaxTime, backup \in [Names -> Content \cup {<<>>}] :
          /\ Copied(r, ckpts[s].backup, backup)
          /\ ckpts' = [ckpts EXCEPT ![s] = [files |-> run[r].scanned, backup |-> backup,
                                            was |-> code, made |-> ckpts[s].made + 1]]
  BY DEF Secures
<1>2. DOMAIN ckpts = 0 .. MaxTime /\ ckpts[s].made \in Nat /\ run[r].scanned \subseteq Files
  BY DEF Sized, Typed, Disk, Dir, Local
<1>3. /\ ckpts'[s].files = run[r].scanned /\ ckpts'[s].backup = backup
      /\ ckpts'[s].made = ckpts[s].made + 1 /\ DOMAIN ckpts' = DOMAIN ckpts
      /\ \A t \in DOMAIN ckpts : t # s => ckpts'[t] = ckpts[t]
  BY <1>1, <1>2
<1>4. ckpts[s] = NoCkpt
  <2>1. ckpts[s].made + 1 <= 1
    BY <1>2, <1>3 DEF Apart
  <2> QED
    BY <1>2, <2>1 DEF Way
<1>5. \A f \in Files : Base[f] \in Names
  BY DEF Names
<1>6. \A n \in Names : ckpts[s].backup[n] = <<>>
  BY <1>4 DEF NoCkpt
<1>7. PICK last \in [Names -> Files] :
        /\ \A f \in run[r].scanned :
              Base[last[Base[f]]] = Base[f] /\ last[Base[f]] \in run[r].scanned
        /\ \/ backup = Backups(ckpts[s].backup, run[r].scanned, last)
           \/ Mishap /\ \E f \in run[r].scanned :
                LET all == Backups(ckpts[s].backup, run[r].scanned, last) IN
                \/ backup = [all EXCEPT ![Base[f]] = ckpts[s].backup[Base[f]]]
                \/ backup = [all EXCEPT ![Base[f]] = Own(f, "torn")]
  BY <1>1 DEF Copied
<1> DEFINE all == Backups(ckpts[s].backup, run[r].scanned, last)
<1>8. \A f \in run[r].scanned : last[Base[f]] = f
  BY <1>2, <1>5, <1>7 DEF Apart
<1>9. /\ DOMAIN all = Names
      /\ \A f \in run[r].scanned : all[Base[f]] = code[f]
  BY <1>2, <1>5, <1>8 DEF Backups
<1>10. \A f \in Files : backup[Base[f]] # Own(f, "torn")
  BY <1>1, <1>2, <1>3, <1>5 DEF Apart
<1> HIDE DEF all
<1>11. ASSUME NEW f \in run[r].scanned
       PROVE  \/ backup[Base[f]] = code[f] /\ code[f] # Own(f, "torn")
              \/ backup[Base[f]] = <<>> /\ Mishap
  <2>1. CASE backup = all
    BY <1>2, <1>9, <1>10, <2>1
  <2>2. ASSUME Mishap, NEW g \in run[r].scanned, backup = [all EXCEPT ![Base[g]] = ckpts[s].backup[Base[g]]]
        PROVE  \/ backup[Base[f]] = code[f] /\ code[f] # Own(f, "torn")
               \/ backup[Base[f]] = <<>> /\ Mishap
    BY <1>2, <1>5, <1>6, <1>9, <1>10, <2>2
  <2>3. ASSUME NEW g \in run[r].scanned, backup = [all EXCEPT ![Base[g]] = Own(g, "torn")]
        PROVE  FALSE
    BY <1>2, <1>5, <1>9, <1>10, <2>3
  <2> QED
    BY <1>7, <2>1, <2>2, <2>3 DEF all
<1> QED
  BY <1>2, <1>3, <1>4, <1>11

\* What is in a checkpoint stays there.
LEMMA CheckpointsStay ==
    ASSUME Sized, Way, [PipelineNext]_pipeVars, Apart'
    PROVE  Apart /\ \A f \in Files : InCheckpoint(f) => InCheckpoint(f)'
<1>1. CASE UNCHANGED ckpts
  BY <1>1 DEF Apart, InCheckpoint
<1>2. ASSUME NEW r \in Runs, Secures(r)
      PROVE  Apart /\ \A f \in Files : InCheckpoint(f) => InCheckpoint(f)'
  <2>1. PICK s \in DOMAIN ckpts :
             /\ ckpts[s] = NoCkpt /\ DOMAIN ckpts' = DOMAIN ckpts
             /\ \A t \in DOMAIN ckpts : t # s => ckpts'[t] = ckpts[t]
    BY <1>2, SecuresApart
  <2>2. \A n \in Names : ckpts[s].backup[n] = <<>>
    BY <2>1 DEF NoCkpt
  <2>3. ckpts[s].made = 0 /\ ckpts[s].files = {}
    BY <2>1 DEF NoCkpt
  <2>4. \A f \in Files : Own(f, "torn") # <<>>
    BY DEF Own
  <2>5. Apart
    BY <2>1, <2>2, <2>3, <2>4 DEF Apart
  <2>6. \A f \in Files : InCheckpoint(f) => InCheckpoint(f)'
    BY <2>1, <2>3 DEF InCheckpoint
  <2> QED
    BY <2>5, <2>6
<1> QED
  BY <1>1, <1>2, StepKinds DEF MovesOn, Starts, Patches, Records, RollsBack, Rests

\* A run that writes code has it in a checkpoint, and so has a rollback.
LEMMA StillThere ==
    ASSUME Sized, Way, Safe, [PipelineNext]_pipeVars, Apart', Smooth
    PROVE  \A f \in Files : code'[f] = Lit(f) \/ InCheckpoint(f)'
<1>1. Apart /\ \A f \in Files : InCheckpoint(f) => InCheckpoint(f)'
  BY CheckpointsStay
<1>2. \A f \in Files : code[f] = Lit(f) \/ InCheckpoint(f)
  BY <1>1 DEF Safe
<1>3. CASE UNCHANGED code
  BY <1>1, <1>2, <1>3
<1>4. ASSUME NEW r \in Runs, Patches(r)
      PROVE  \A f \in Files : code'[f] = Lit(f) \/ InCheckpoint(f)'
  <2>1. r \in Busy /\ Scans(r) /\ run[r].at = "code"
    BY <1>4 DEF Patches, Moves, Busy, Way
  <2>2. \A f \in DOMAIN run[r].plan : InCheckpoint(f)
    BY <1>1, <2>1 DEF Scans, Busy, Safe, Past
  <2>3. PICK f \in DOMAIN run[r].plan : \E c : code' = [code EXCEPT ![f] = c]
    BY <1>4 DEF Patches
  <2>4. \A g \in Files : g # f => code'[g] = code[g]
    BY <2>3 DEF Sized, Typed, Disk
  <2> QED
    BY <1>1, <1>2, <2>2, <2>4
<1>5. CASE RollsBack
  <2>1. PICK s \in DOMAIN ckpts : \A g \in Files : g \notin ckpts[s].files => code'[g] = code[g]
    <3>1. \A s \in DOMAIN ckpts, g \in Files : g \notin ckpts[s].files => Restored(s)[g] = code[g]
      BY DEF Restored
    <3> QED
      BY <1>5, <3>1 DEF RollsBack
  <2>2. \A f \in ckpts[s].files : InCheckpoint(f)
    BY <1>1 DEF Safe
  <2> QED
    BY <1>1, <1>2, <2>1, <2>2
<1> QED
  BY <1>3, <1>4, <1>5, StepKinds DEF MovesOn, Starts, Secures, Records, Rests

LEMMA SafeNext ==
    ASSUME Sized, Way, Safe, [PipelineNext]_pipeVars PROVE Safe'
<1> SUFFICES ASSUME Apart', Smooth'
             PROVE  /\ \A s \in DOMAIN ckpts' : \A f \in ckpts'[s].files : InCheckpoint(f)'
                    /\ \A q \in Busy' : run'[q].at \in Past /\ ~run'[q].dry =>
                           \A f \in run'[q].scanned : InCheckpoint(f)'
  <2>1. Smooth' => Smooth
    BY StepKinds DEF Smooth
  <2> QED
    BY <2>1, StillThere DEF Safe
<1> DEFINE Listed == \A s \in DOMAIN ckpts' : \A f \in ckpts'[s].files : InCheckpoint(f)'
           Taken(q) == run'[q].at \in Past /\ ~run'[q].dry =>
                           \A f \in run'[q].scanned : InCheckpoint(f)'
<1>1. Smooth /\ ~Mishap /\ Apart /\ \A f \in Files : InCheckpoint(f) => InCheckpoint(f)'
  BY StepKinds, CheckpointsStay DEF Smooth, Mishap
<1>2. \A q \in Runs : run[q].scanned \subseteq Files
  BY DEF Sized, Typed, Local
<1>3. \A s \in DOMAIN ckpts : ckpts[s].files \subseteq Files
  BY DEF Sized, Typed, Disk, Dir
<1>4. UNCHANGED ckpts => Listed
  BY <1>1, <1>3 DEF Safe
<1>5. ASSUME NEW q \in Runs, run[q].at \in Past, run'[q].dry = run[q].dry,
             run'[q].scanned = run[q].scanned
      PROVE  Taken(q)
  BY <1>1, <1>2, <1>5 DEF Safe, Busy, Past, Active
<1> HIDE DEF Listed
<1>6. ASSUME NEW r \in Runs, Moves(r), Backed(r)
      PROVE  \A q \in Busy' : Taken(q)
  <2>1. ASSUME NEW q \in Busy', run'[q].at \in Past, ~run'[q].dry
        PROVE  /\ q \in Runs /\ run[q].at \in Past
               /\ run'[q].dry = run[q].dry /\ run'[q].scanned = run[q].scanned
    BY <1>1, <1>6, <2>1 DEF Moves, Backed, Busy, Past, Active
  <2> QED
    BY <1>5, <2>1
<1>7. ASSUME NEW r \in Runs, Secures(r) PROVE Listed /\ \A q \in Busy' : Taken(q)
  <2>1. PICK s \in DOMAIN ckpts :
             /\ ckpts[s] = NoCkpt /\ DOMAIN ckpts' = DOMAIN ckpts
             /\ ckpts'[s].files = run[r].scanned
             /\ \A f \in run[r].scanned : ckpts'[s].backup[Base[f]] = code[f]
             /\ \A t \in DOMAIN ckpts : t # s => ckpts'[t] = ckpts[t]
    BY <1>1, <1>7, SecuresApart
  <2>2. \A f \in run[r].scanned : InCheckpoint(f)'
    <3> SUFFICES ASSUME NEW f \in run[r].scanned PROVE InCheckpoint(f)'
      OBVIOUS
    <3>1. CASE code[f] = Lit(f)
      BY <2>1, <3>1 DEF InCheckpoint, Lit
    <3>2. CASE code[f] # Lit(f)
      BY <1>1, <1>2, <3>2 DEF Safe
    <3> QED
      BY <3>1, <3>2
  <2>3. Listed
    BY <1>1, <1>3, <2>1, <2>2 DEF Safe, Listed
  <2>4. ASSUME NEW q \in Busy' PROVE Taken(q)
    <3>1. CASE q = r
      BY <1>7, <2>2, <2>4, <3>1 DEF Secures, Moves, Busy
    <3>2. CASE q # r
      BY <1>5, <1>7, <2>4, <3>2 DEF Secures, Moves, Busy
    <3> QED
      BY <3>1, <3>2
  <2> QED
    BY <2>3, <2>4
<1>8. ASSUME NEW r \in Runs, Starts(r) PROVE Listed /\ \A q \in Busy' : Taken(q)
  <2>1. ASSUME NEW q \in Busy' PROVE Taken(q)
    <3>1. CASE q = r
      BY <1>8, <3>1 DEF Starts, Past
    <3>2. CASE q # r
      BY <1>5, <1>8, <2>1, <3>2 DEF Starts, Busy, Alike
    <3> QED
      BY <3>1, <3>2
  <2> QED
    BY <1>4, <1>8, <2>1 DEF Starts
<1>9. ASSUME RollsBack \/ Rests PROVE Listed /\ \A q \in Busy' : Taken(q)
  BY <1>4, <1>5, <1>9 DEF RollsBack, Rests, Busy
<1>10. Listed /\ \A q \in Busy' : Taken(q)
  <2> HIDE DEF Taken
  <2> QED
    BY <1>4, <1>6, <1>7, <1>8, <1>9, StepKinds DEF MovesOn, Patches, Records
<1> QED
  BY <1>10 DEF Listed

\* After the mishap, and before it.
LEMMA TracedNext ==
    ASSUME Sized, Way, Safe, Traced, [PipelineNext]_pipeVars PROVE Traced'
<1> DEFINE Found == \A f \in Files : code'[f] = Lit(f) \/ InCheckpoint(f)' \/ Known(f)'
           Backup == \A s \in DOMAIN ckpts' : \A f \in ckpts'[s].files :
                        \/ ckpts'[s].backup[Base[f]] = Lit(f)
                        \/ ckpts'[s].backup[Base[f]] = <<>> /\ spent'.mishaps # 0
           Torn(q) == run'[q].at \in {"refs", "checkpoint"} =>
                        \A f \in run'[q].scanned :
                           \/ code'[f] = Lit(f)
                           \/ code'[f] = Own(f, "torn") /\ spent'.mishaps # 0
<1> SUFFICES ASSUME Apart', spent'.mishaps <= 1, AllAlone'
             PROVE  Found /\ Backup /\ \A q \in Busy' : Torn(q)
  BY DEF Traced
<1>1. Apart /\ \A f \in Files : InCheckpoint(f) => InCheckpoint(f)'
  BY CheckpointsStay
<1>2. /\ spent.mishaps \in Nat /\ spent.mishaps <= 1
      /\ spent.mishaps # 0 => spent'.mishaps # 0 /\ ~Mishap
      /\ Mishap => Smooth /\ spent'.mishaps # 0
  BY StepKinds DEF Mishap, Smooth
<1>3. AllAlone
  <2>1. ASSUME RollsBack \/ Rests PROVE AllAlone
    BY <2>1 DEF RollsBack, Rests, AllAlone
  <2> QED
    BY <2>1, AloneBefore, StepKinds DEF MovesOn, Secures, Patches, Records
<1>4. /\ \A f \in Files : code[f] = Lit(f) \/ InCheckpoint(f) \/ Known(f)
      /\ \A s \in DOMAIN ckpts : \A f \in ckpts[s].files :
             \/ ckpts[s].backup[Base[f]] = Lit(f)
             \/ ckpts[s].backup[Base[f]] = <<>> /\ spent.mishaps # 0
      /\ \A r \in Busy : run[r].at \in {"refs", "checkpoint"} =>
             \A f \in run[r].scanned :
                code[f] = Lit(f) \/ (code[f] = Own(f, "torn") /\ spent.mishaps # 0)
  BY <1>1, <1>2, <1>3 DEF Traced
<1>5. Smooth => Found
  BY StillThere
<1>6. UNCHANGED ckpts => Backup
  BY <1>2, <1>4
<1>b. Busy \subseteq Runs /\ \A q \in Runs : q \in Busy <=> run[q].at \in Active
  BY DEF Busy
<1>c. Busy' \subseteq Runs /\ \A q \in Runs : q \in Busy' <=> run'[q].at \in Active
  BY DEF Busy
<1>7. ASSUME NEW f \in Files, code'[f] = code[f], Known(f) => Known(f)'
      PROVE  code'[f] = Lit(f) \/ InCheckpoint(f)' \/ Known(f)'
  BY <1>1, <1>4, <1>7
<1> HIDE DEF Found, Backup
<1>8. ASSUME NEW r \in Runs, Moves(r)
      PROVE  /\ Busy = {r} /\ Busy' \subseteq {r} /\ Scans(r)
             /\ \A q \in Busy' : q = r /\ run'[r].at \in Active
             /\ UNCHANGED code => \A q \in Busy' : Torn(q)
  <2>1. Busy = {r} /\ Busy' \subseteq {r} /\ Scans(r)
    BY <1>3, <1>8, <1>b, MovesWay DEF Way, Moves
  <2>2. \A q \in Busy' : q = r /\ run'[r].at \in Active
    BY <1>c, <2>1
  <2>3. ASSUME UNCHANGED code, NEW q \in Busy' PROVE Torn(q)
    BY <1>2, <1>4, <1>8, <2>1, <2>2, <2>3 DEF Moves
  <2> QED
    BY <2>1, <2>2, <2>3
<1>9. ASSUME NEW r \in Runs, Moves(r), UNCHANGED src,
             run[r].at = "code" => run'[r].at = "code", NEW f \in Files, Known(f)
      PROVE  Known(f)'
  <2>1. /\ src'[f] = "original" \/ run[r].at = "code"
        /\ run[r].at # "targets" => run[r].entry[f] = "original"
    BY <1>8, <1>9 DEF Known
  <2>2. run'[r].at \in Active /\ run'[r].at # "targets" => run'[r].entry[f] = "original"
    BY <1>9, <2>1 DEF Moves
  <2>3. run[r].at = "code" => r \in Busy'
    BY <1>9, <1>c DEF Active
  <2> QED
    BY <1>8, <1>9, <2>1, <2>2, <2>3 DEF Known
<1>10. ASSUME NEW r \in Runs, MovesOn(r) PROVE Found /\ Backup /\ \A q \in Busy' : Torn(q)
  <2>1. Moves(r) /\ Stays(r) /\ UNCHANGED <<code, src, ckpts>>
    BY <1>10 DEF MovesOn
  <2>2. ASSUME ~Smooth PROVE Found
    BY <1>2, <1>7, <1>9, <2>1, <2>2 DEF Found, Stays
  <2> QED
    BY <1>5, <1>6, <1>8, <2>1, <2>2
<1>11. ASSUME NEW r \in Runs, Starts(r) PROVE Found /\ Backup /\ \A q \in Busy' : Torn(q)
  <2>1. Busy = {} /\ UNCHANGED <<code, src, ckpts>>
    BY <1>11, AloneBefore DEF Starts
  <2>2. \A q \in Busy' : q = r
    BY <1>11, <1>b, <1>c, <2>1 DEF Starts
  <2>3. \A q \in Busy' : Torn(q)
    BY <1>11, <2>1, <2>2 DEF Starts, Lit
  <2>4. ASSUME NEW f \in Files PROVE code'[f] = Lit(f) \/ InCheckpoint(f)' \/ Known(f)'
    <3>1. CASE code[f] = Lit(f)
      BY <2>1, <3>1
    <3>2. ASSUME code[f] # Lit(f), Known(f) PROVE Known(f)'
      <4>1. src[f] = "original" /\ run'[r].entry[f] = "original"
        BY <1>11, <2>1, <3>2 DEF Known, Starts, Lit
      <4> QED
        BY <2>1, <2>2, <4>1 DEF Known
    <3> QED
      BY <1>7, <2>1, <3>1, <3>2
  <2> QED
    BY <1>6, <2>1, <2>3, <2>4 DEF Found
<1>12. ASSUME NEW r \in Runs, Secures(r) PROVE Found /\ Backup /\ \A q \in Busy' : Torn(q)
  <2>1. Moves(r) /\ run[r].at = "checkpoint" /\ UNCHANGED <<code, src>>
    BY <1>12 DEF Secures
  <2>2. PICK s \in DOMAIN ckpts :
             /\ DOMAIN ckpts' = DOMAIN ckpts
             /\ ckpts'[s].files = run[r].scanned
             /\ \A f \in run[r].scanned :
                   \/ ckpts'[s].backup[Base[f]] = code[f] /\ code[f] # Own(f, "torn")
                   \/ ckpts'[s].backup[Base[f]] = <<>> /\ Mishap
             /\ \A t \in DOMAIN ckpts : t # s => ckpts'[t] = ckpts[t]
    BY <1>12, SecuresApart
  <2>3. \A f \in run[r].scanned : code[f] = Lit(f) \/ code[f] = Own(f, "torn")
    BY <1>4, <1>8, <2>1
  <2>4. Backup
    BY <1>2, <1>4, <2>2, <2>3 DEF Backup
  <2>5. ASSUME ~Smooth PROVE Found
    BY <1>7, <1>9, <2>1, <2>5 DEF Found
  <2> QED
    BY <1>5, <1>8, <2>1, <2>4, <2>5
<1>13. ASSUME NEW r \in Runs, Patches(r) PROVE Found /\ Backup /\ \A q \in Busy' : Torn(q)
  <2>1. Moves(r) /\ Stays(r) /\ UNCHANGED <<src, ckpts>> /\ run[r].at = "code"
    BY <1>13 DEF Patches
  <2>2. \A q \in Busy' : Torn(q)
    BY <1>8, <2>1 DEF Moves
  <2>3. ASSUME ~Smooth PROVE Found
    <3>1. ~Mishap
      BY <1>2, <2>3
    <3>2. run'[r].at = "code"
      BY <2>1, <3>1 DEF Stays
    <3>3. PICK f \in DOMAIN run[r].plan : code' = [code EXCEPT ![f] = run[r].plan[f]]
      BY <1>13, <3>1 DEF Patches
    <3>4. run[r].entry[f] = "original" /\ \A g \in Files : g # f => code'[g] = code[g]
      <4>1. f \in run[r].scanned
        BY <1>8, <2>1, <3>3 DEF Scans, Active
      <4> QED
        BY <1>8, <2>1, <3>3, <4>1 DEF Scans, Active, Sized, Typed, Disk
    <3>5. Known(f)
      BY <1>8, <2>1, <3>4 DEF Known
    <3>6. \A g \in Files : Known(g) => Known(g)'
      BY <1>9, <2>1, <3>2
    <3>7. f \in Files
      BY <1>8, <2>1, <3>3 DEF Scans, Active, Sized, Typed, Local
    <3> QED
      BY <1>7, <3>4, <3>5, <3>6, <3>7 DEF Found
  <2> QED
    BY <1>5, <1>6, <2>1, <2>2, <2>3
<1>14. ASSUME NEW r \in Runs, Records(r) PROVE Found /\ Backup /\ \A q \in Busy' : Torn(q)
  <2>1. Moves(r) /\ UNCHANGED <<code, ckpts>> /\ run[r].at = "code" /\ (src' = run[r].entry \/ Mishap)
    BY <1>14 DEF Records
  <2>2. ASSUME ~Smooth PROVE Found
    <3>1. src' = run[r].entry
      BY <1>2, <2>1, <2>2
    <3>2. ASSUME NEW f \in Files, Known(f) PROVE Known(f)'
      <4>1. run[r].entry[f] = "original"
        BY <1>8, <2>1, <3>2 DEF Known
      <4>2. run'[r].at \in Active => run'[r].entry[f] = "original"
        BY <2>1, <4>1 DEF Moves
      <4> QED
        BY <1>8, <2>1, <3>1, <4>1, <4>2 DEF Known
    <3> QED
      BY <1>7, <2>1, <3>2 DEF Found
  <2> QED
    BY <1>5, <1>6, <1>8, <2>1, <2>2
<1>15. ASSUME RollsBack PROVE Found /\ Backup /\ \A q \in Busy' : Torn(q)
  <2>1. UNCHANGED <<src, ckpts, run>> /\ Busy' = Busy
    BY <1>15 DEF RollsBack, Busy
  <2>2. \A s \in DOMAIN ckpts, f \in Files : Restored(s)[f] = code[f] \/ Restored(s)[f] = Lit(f)
    BY <1>4 DEF Restored
  <2>3. \A f \in Files : \/ code'[f] = code[f]
                         \/ code'[f] = Lit(f)
                         \/ code'[f] = Own(f, "torn") /\ Mishap
    BY <1>15, <2>2 DEF RollsBack
  <2>4. \A q \in Runs : run[q].scanned \subseteq Files
    BY DEF Sized, Typed, Local
  <2>5. \A q \in Busy' : Torn(q)
    BY <1>2, <1>4, <1>b, <2>1, <2>3, <2>4
  <2>6. \A f \in Files : Known(f) => Known(f)'
    BY <2>1 DEF Known
  <2>7. ASSUME ~Smooth PROVE Found
    <3>1. \A f \in Files : code'[f] = code[f] \/ code'[f] = Lit(f)
      BY <1>2, <2>3, <2>7
    <3> QED
      BY <1>7, <2>6, <3>1 DEF Found
  <2> QED
    BY <1>5, <1>6, <2>1, <2>5, <2>7
<1>16. ASSUME Rests PROVE Found /\ Backup /\ \A q \in Busy' : Torn(q)
  <2>1. UNCHANGED <<code, src, ckpts, run>> /\ Busy' = Busy
    BY <1>16 DEF Rests, Busy
  <2>2. \A f \in Files : Known(f) => Known(f)'
    BY <2>1 DEF Known
  <2> QED
    BY <1>2, <1>4, <1>6, <1>7, <2>1, <2>2 DEF Found
<1> QED
  <2> HIDE DEF Torn
  <2> QED
    BY <1>10, <1>11, <1>12, <1>13, <1>14, <1>15, <1>16, StepKinds

\* A failed write, a killed run, or runs that met: one of them loses no string
\* for good, whatever was restored before or after it.
THEOREM TextsAreRecoverable == PipelineSpec => []TextRecoverable
<1>1. PipelineInit => Safe /\ Traced
  <2> SUFFICES ASSUME PipelineInit PROVE Safe /\ Traced
    OBVIOUS
  <2>1. \A r \in Runs : run[r].at = "idle"
    BY FreshTypes DEF PipelineInit
  <2>2. Busy = {}
    BY <2>1 DEF Busy, Active
  <2>3. \A s \in DOMAIN ckpts : ckpts[s].files = {}
    BY DEF PipelineInit, NoCkpt
  <2>4. \A f \in Files : code[f] = Lit(f)
    BY DEF PipelineInit, Lit
  <2> QED
    BY <2>2, <2>3, <2>4 DEF Safe, Traced
<1>2. ASSUME Sized, Way, Safe, Traced PROVE TextRecoverable
  <2> SUFFICES ASSUME OneMishap, NEW f \in Files
               PROVE  code[f] = Lit(f) \/ src[f] = "original" \/ InCheckpoint(f) \/ InRun(f)
    BY DEF TextRecoverable, Lit
  <2>1. Apart /\ spent.mishaps <= 1 /\ (Smooth \/ AllAlone)
    BY DEF OneMishap, Apart, Smooth, AllAlone
  <2>2. CASE Smooth
    BY <1>2, <2>1, <2>2 DEF Safe
  <2>3. CASE AllAlone
    <3>1. code[f] = Lit(f) \/ InCheckpoint(f) \/ Known(f)
      BY <1>2, <2>1, <2>3 DEF Traced
    <3>2. Known(f) => src[f] = "original" \/ InRun(f)
      BY DEF Known, InRun
    <3> QED
      BY <3>1, <3>2
  <2> QED
    BY <2>1, <2>2, <2>3
<1>3. Sized /\ Way /\ Safe /\ Traced /\ [PipelineNext]_pipeVars => Safe' /\ Traced'
  BY SafeNext, TracedNext
<1> QED
  BY <1>1, <1>2, <1>3, WayAlways, PTL DEF PipelineSpec

-----------------------------------------------------------------------------
(***************************************************************************)
(* The memory.  A catalog has under a key only values of texts of that     *)
(* key, and the memory under a text only values of that text; so what a    *)
(* run learns of one key leaves the memory of all others alone, and the    *)
(* values it will write stay those that it will save.                      *)
(***************************************************************************)
KeyedCat(c) == \A l \in Locales, f \in Files :
                  c[l][f] # None => c[l][f].of \in Texts /\ c[l][f].of[1] = f
KeyedMem(m) == \A l \in Locales, t \in Texts : m[l][t] # None => m[l][t].of = t
Agrees(c, m) ==
    \A l \in Locales, f \in Files :
        c[l][f] # None /\ c[l][f].by \in {"model", "fallback"} => m[l][c[l][f].of] = c[l][f]

\* What run r got for key f of catalog l: nothing, or what it may have asked for.
Got(r, v, keys) ==
    \A l \in Locales, f \in Files :
        \/ v[l][f] = None
        \/ f \in KeysOf(r) /\ v[l][f] \in T!MayReturn(TextOf(r, f), run[r].mem[l], Feedback(keys))

\* The value of each key after a reply, and of each text in the memory.
LEMMA Received ==
    ASSUME Typed, NEW r \in Runs, KeyedMem(run[r].mem), NEW keys,
           NEW v \in [Locales -> [Files -> Values]], Got(r, v, keys)
    PROVE  /\ KeyedMem(Learned(r, v, Feedback(keys)))
           /\ \A l \in Locales, f \in Files : v[l][f] # None =>
                 /\ v[l][f].of = TextOf(r, f) /\ TextOf(r, f) \in Texts
                 /\ Learned(r, v, Feedback(keys))[l][TextOf(r, f)] = v[l][f]
           /\ \A l \in Locales, t \in Texts : v[l][t[1]] = None =>
                 Learned(r, v, Feedback(keys))[l][t] = run[r].mem[l][t]
<1>1. run[r] \in Local
  BY DEF Typed
<1> DEFINE m == Learned(r, v, Feedback(keys))
<1>2. ASSUME NEW f \in KeysOf(r) PROVE TextOf(r, f) \in Texts /\ TextOf(r, f)[1] = f /\ f \in Files
  BY <1>1 DEF TextOf, KeysOf, Texts, Local, Entries
<1>3. \A l \in Locales : run[r].mem[l] \in [Texts -> Values]
  BY <1>1 DEF Local, TM, Values
<1>4. ASSUME NEW l \in Locales, NEW f \in Files, v[l][f] # None
      PROVE  /\ f \in KeysOf(r)
             /\ v[l][f].of = TextOf(r, f)
             /\ T!Lookup(TextOf(r, f), run[r].mem[l], Feedback(keys)) # None
                   => run[r].mem[l][TextOf(r, f)] = v[l][f]
  <2>1. f \in KeysOf(r) /\ v[l][f] \in T!MayReturn(TextOf(r, f), run[r].mem[l], Feedback(keys))
    BY <1>4 DEF Got
  <2>2. TextOf(r, f) \in Texts
    BY <1>2, <2>1
  <2>3. /\ T!Lookup(TextOf(r, f), run[r].mem[l], Feedback(keys)) # None =>
              v[l][f] = run[r].mem[l][TextOf(r, f)]
        /\ T!Lookup(TextOf(r, f), run[r].mem[l], Feedback(keys)) = None => v[l][f].of = TextOf(r, f)
    BY <1>3, <2>1, <2>2, Returned
  <2> QED
    BY <1>4, <2>1, <2>2, <2>3 DEF KeyedMem
<1>5. ASSUME NEW l \in Locales, NEW t \in Texts
      PROVE  /\ t[1] \in Files
             /\ m[l][t] = IF /\ t[1] \in KeysOf(r) /\ TextOf(r, t[1]) = t
                             /\ v[l][t[1]] # None
                             /\ T!Lookup(t, run[r].mem[l], Feedback(keys)) = None
                          THEN v[l][t[1]] ELSE run[r].mem[l][t]
  BY DEF Learned, Texts
<1> HIDE DEF m
<1>6. KeyedMem(m)
  <2> SUFFICES ASSUME NEW l \in Locales, NEW t \in Texts, m[l][t] # None PROVE m[l][t].of = t
    BY DEF KeyedMem
  <2>1. CASE m[l][t] = run[r].mem[l][t]
    BY <2>1 DEF KeyedMem
  <2>2. CASE v[l][t[1]] # None /\ TextOf(r, t[1]) = t /\ m[l][t] = v[l][t[1]]
    BY <1>4, <1>5, <2>2
  <2> QED
    BY <1>5, <2>1, <2>2
<1>7. ASSUME NEW l \in Locales, NEW f \in Files, v[l][f] # None
      PROVE  m[l][TextOf(r, f)] = v[l][f]
  BY <1>2, <1>4, <1>5, <1>7
<1>8. ASSUME NEW l \in Locales, NEW t \in Texts, v[l][t[1]] = None
      PROVE  m[l][t] = run[r].mem[l][t]
  BY <1>5, <1>8
<1> QED
  BY <1>2, <1>4, <1>6, <1>7, <1>8 DEF m

LEMMA ReceivedAgrees ==
    ASSUME Typed, NEW r \in Runs, KeyedMem(run[r].mem), NEW keys,
           NEW v \in [Locales -> [Files -> Values]], Got(r, v, keys),
           NEW old \in [Locales -> Catalog], KeyedCat(old)
    PROVE  /\ KeyedCat(Merged(old, v)) /\ KeyedMem(Learned(r, v, Feedback(keys)))
           /\ Agrees(old, run[r].mem) => Agrees(Merged(old, v), Learned(r, v, Feedback(keys)))
<1> DEFINE m == Learned(r, v, Feedback(keys))
           d == Merged(old, v)
<1>1. /\ KeyedMem(m)
      /\ \A l \in Locales, f \in Files : v[l][f] # None =>
            /\ v[l][f].of = TextOf(r, f) /\ TextOf(r, f) \in Texts
            /\ m[l][TextOf(r, f)] = v[l][f]
      /\ \A l \in Locales, t \in Texts : v[l][t[1]] = None => m[l][t] = run[r].mem[l][t]
  BY Received
<1>2. \A l \in Locales, f \in Files :
        d[l][f] = IF v[l][f] # None THEN v[l][f] ELSE old[l][f]
  BY DEF Merged
<1> HIDE DEF d, m
<1>3. KeyedCat(d)
  <2> SUFFICES ASSUME NEW l \in Locales, NEW f \in Files, d[l][f] # None
               PROVE  d[l][f].of \in Texts /\ d[l][f].of[1] = f
    BY DEF KeyedCat
  <2>1. CASE v[l][f] # None
    <3>1. TextOf(r, f)[1] = f
      BY DEF TextOf
    <3> QED
      BY <1>1, <1>2, <2>1, <3>1
  <2>2. CASE v[l][f] = None
    BY <1>2, <2>2 DEF KeyedCat
  <2> QED
    BY <2>1, <2>2
<1>4. ASSUME Agrees(old, run[r].mem), NEW l \in Locales, NEW f \in Files,
             d[l][f] # None, d[l][f].by \in {"model", "fallback"}
      PROVE  m[l][d[l][f].of] = d[l][f]
  <2>1. CASE v[l][f] # None
    BY <1>1, <1>2, <2>1
  <2>2. CASE v[l][f] = None
    <3>1. d[l][f] = old[l][f] /\ old[l][f] \in T!Value
      BY <1>2, <1>4, <2>2 DEF Catalog
    <3>2. /\ run[r].mem[l][old[l][f].of] = old[l][f]
          /\ old[l][f].of \in Texts /\ old[l][f].of[1] = f
      BY <1>4, <3>1 DEF Agrees, KeyedCat
    <3> QED
      BY <1>1, <2>2, <3>1, <3>2
  <2> QED
    BY <2>1, <2>2
<1> QED
  BY <1>1, <1>3, <1>4 DEF d, m, Agrees

\* What a step does to the values that runs carry, and to those on the disk.
Carried(r) ==
    run'[r].known = run[r].known /\ run'[r].data = run[r].data /\ run'[r].mem = run[r].mem

Carries(r) ==
    /\ Moves(r) /\ UNCHANGED <<cat, saved>>
    /\ run'[r].at \in Active =>
          /\ Carried(r)
          /\ run'[r].at \in Done <=> run[r].at \in Done
          /\ run'[r].at = "targets" => run'[r].todo = Locales
    /\ run[r].at = "targets" => Mishap /\ run'[r].at \notin Active

Receives(r) ==
    /\ Moves(r) /\ UNCHANGED <<cat, saved>> /\ run[r].at \in {"translate", "retry"}
    /\ run'[r].at \in Active =>
          /\ run'[r].at \in {"retry", "code"}
          /\ \E v \in [Locales -> [Files -> Values]] : \E keys :
                /\ Got(r, v, keys)
                /\ run'[r].data = Merged(IF run[r].at = "translate" THEN Kept(r) ELSE run[r].data, v)
                /\ run'[r].mem = Learned(r, v, Feedback(keys))
                /\ run'[r].known = run[r].known

Delivers(r) ==
    /\ Moves(r) /\ UNCHANGED saved /\ run[r].at = "targets"
    /\ \E l \in Locales :
          /\ \/ run'[r].at = "targets" /\ Carried(r) /\ run'[r].todo = run[r].todo \ {l}
             \/ run'[r].at \notin Active /\ Mishap
          /\ \/ cat' = [cat EXCEPT ![l] = run[r].data[l]]
             \/ Mishap /\ (cat' = cat \/ cat' = [cat EXCEPT ![l] = [f \in Files |-> None]])

Remembers(r) ==
    /\ Moves(r) /\ UNCHANGED cat /\ run[r].at = "targets" /\ run[r].todo = {}
    /\ run'[r].at \notin Active
    /\ saved' = run[r].mem \/ (Mishap /\ saved' \in {saved, Fresh.mem})

Loads(r) ==
    /\ Starts(r) /\ UNCHANGED <<cat, saved>>
    /\ run'[r].known = cat /\ run'[r].mem = saved

ByHand(l, f) ==
    /\ UNCHANGED <<saved, run>>
    /\ cat'[l][f].by = "person" /\ cat'[l][f].of = <<f, "original">>
    /\ \A m \in Locales, g \in Files : <<m, g>> # <<l, f>> => cat'[m][g] = cat[m][g]

LEMMA EndCarries ==
    ASSUME Sized, NEW r \in Runs, NEW how \in {"done", "dead", "failed"},
           Becomes(r, Ended(r, how)), UNCHANGED <<cat, saved>>,
           run[r].at \in Active, run[r].at # "targets" \/ Mishap
    PROVE  Carries(r)
BY EndMoves DEF Carries

LEMMA VerifiedReceives ==
    ASSUME Sized, NEW r \in Runs, NEW x \in Local, Becomes(r, Verified(r, x)),
           UNCHANGED <<cat, saved>>, run[r].at \in {"translate", "retry"},
           x.alone = run[r].alone, x.scanned = run[r].scanned, x.dry = run[r].dry,
           x.entry = run[r].entry, x.plan = run[r].plan, x.known = run[r].known,
           NEW v \in [Locales -> [Files -> Values]], NEW keys, Got(r, v, keys),
           x.data = Merged(IF run[r].at = "translate" THEN Kept(r) ELSE run[r].data, v),
           x.mem = Learned(r, v, Feedback(keys))
    PROVE  Receives(r)
<1>1. Moves(r)
  BY VerifiedMoves
<1>2. CASE Verified(r, x) = Ended(r, "done")
  BY <1>1, <1>2, EndMoves DEF Receives, Active
<1>3. CASE Verified(r, x) # Ended(r, "done")
  <2>1. Alike(x, run'[r]) /\ run'[r].at \in {"retry", "code"}
    BY <1>3, VerifiedShape DEF Sized, Becomes
  <2>2. /\ run'[r].data = Merged(IF run[r].at = "translate" THEN Kept(r) ELSE run[r].data, v)
        /\ run'[r].mem = Learned(r, v, Feedback(keys))
        /\ run'[r].known = run[r].known
    BY <2>1 DEF Alike
  <2> QED
    BY <1>1, <2>1, <2>2 DEF Receives
<1> QED
  BY <1>2, <1>3

LEMMA ValueKinds ==
    ASSUME Sized, [PipelineNext]_pipeVars
    PROVE  \/ \E r \in Runs : \/ Carries(r) \/ Receives(r) \/ Delivers(r)
                             \/ Remembers(r) \/ Loads(r)
           \/ \E l \in Locales, f \in Files : ByHand(l, f)
           \/ UNCHANGED <<cat, saved, run>>
<1>1. \A r \in Runs : run[r] \in Local
  BY DEF Sized, Typed
<1>2. ASSUME NEW r \in Runs, Refer(r) PROVE Carries(r)
  <2>1. UNCHANGED <<cat, saved>> /\ run[r].at = "refs"
    BY <1>2 DEF Refer, diskVars
  <2>2. PICK e \in [Files -> Entries] :
          /\ \A f \in Files : e[f] = Referred(r, f)
          /\ \/ Becomes(r, Ended(r, "done"))
             \/ \E at \in {"plan", "checkpoint"} :
                   /\ at = "plan" <=> run[r].dry
                   /\ Becomes(r, [run[r] EXCEPT !.entry = e, !.at = at])
    BY <1>2, ReferBecomes DEF Sized
  <2>3. ASSUME NEW at \in {"plan", "checkpoint"}, at = "plan" <=> run[r].dry,
               Becomes(r, [run[r] EXCEPT !.entry = e, !.at = at])
        PROVE  Carries(r)
    <3> DEFINE x == [run[r] EXCEPT !.entry = e, !.at = at]
    <3>1. /\ x.at = at /\ x.alone = run[r].alone /\ x.scanned = run[r].scanned
          /\ x.dry = run[r].dry /\ x.plan = run[r].plan /\ x.entry = e
          /\ x.known = run[r].known /\ x.data = run[r].data /\ x.mem = run[r].mem
      BY <1>1 DEF Local
    <3>2. \A f \in Files : run[r].entry[f] # "none" => e[f] = run[r].entry[f]
      BY <2>2 DEF Referred
    <3>3. run' \in [Runs -> Local] /\ run'[r] = x /\ \A q \in Runs : q # r => run'[q] = run[q]
      BY <2>3 DEF Becomes
    <3> HIDE DEF x
    <3>4. Moves(r)
      BY <2>1, <2>3, <3>1, <3>2, <3>3 DEF Moves, Active
    <3> QED
      BY <2>1, <3>1, <3>3, <3>4 DEF Carries, Carried, Done
  <2> QED
    BY <2>1, <2>2, <2>3, EndCarries DEF Active
<1>3. ASSUME NEW r \in Runs, Checkpoint(r) PROVE Carries(r)
  <2> DEFINE x == [run[r] EXCEPT !.at = "plan"]
  <2>1. run[r].at = "checkpoint" /\ UNCHANGED <<cat, saved>>
    BY <1>3 DEF Checkpoint
  <2>2. /\ x.at = "plan" /\ x.alone = run[r].alone /\ x.scanned = run[r].scanned
        /\ x.dry = run[r].dry /\ x.plan = run[r].plan /\ x.entry = run[r].entry
        /\ x.known = run[r].known /\ x.data = run[r].data /\ x.mem = run[r].mem
    BY <1>1 DEF Local
  <2>3. Becomes(r, x) \/ Becomes(r, Ended(r, "dead"))
    BY <1>3, CheckpointBecomes DEF Sized
  <2> HIDE DEF x
  <2>4. CASE Becomes(r, x)
    <3>1. Moves(r)
      BY <2>1, <2>2, <2>4 DEF Becomes, Moves, Active
    <3> QED
      BY <2>1, <2>2, <2>4, <3>1 DEF Becomes, Carries, Carried, Done
  <2> QED
    BY <2>1, <2>3, <2>4, EndCarries DEF Active
<1>4. ASSUME NEW r \in Runs, Plan(r) PROVE Carries(r)
  <2>1. UNCHANGED <<cat, saved>> /\ run[r].at = "plan"
    BY <1>4 DEF Plan, diskVars
  <2>2. \/ Becomes(r, Ended(r, "failed"))
        \/ \E p \in Plans :
              /\ DOMAIN p \subseteq run[r].scanned
              /\ Becomes(r, [run[r] EXCEPT !.at = "translate", !.plan = p])
    BY <1>4, PlanBecomes DEF Sized
  <2>3. ASSUME NEW p \in Plans, DOMAIN p \subseteq run[r].scanned,
               Becomes(r, [run[r] EXCEPT !.at = "translate", !.plan = p])
        PROVE  Carries(r)
    <3> DEFINE x == [run[r] EXCEPT !.at = "translate", !.plan = p]
    <3>1. /\ x.at = "translate" /\ x.alone = run[r].alone /\ x.scanned = run[r].scanned
          /\ x.dry = run[r].dry /\ x.plan = p /\ x.entry = run[r].entry
          /\ x.known = run[r].known /\ x.data = run[r].data /\ x.mem = run[r].mem
      BY <1>1 DEF Local
    <3>2. run' \in [Runs -> Local] /\ run'[r] = x /\ \A q \in Runs : q # r => run'[q] = run[q]
      BY <2>3 DEF Becomes
    <3> HIDE DEF x
    <3>3. Moves(r)
      BY <2>1, <2>3, <3>1, <3>2 DEF Moves, Active
    <3> QED
      BY <2>1, <3>1, <3>2, <3>3 DEF Carries, Carried, Done
  <2> QED
    BY <2>1, <2>2, <2>3, EndCarries DEF Active
<1>5. ASSUME NEW r \in Runs, Translate(r) PROVE Receives(r)
  <2>1. UNCHANGED <<cat, saved>> /\ run[r].at = "translate"
    BY <1>5 DEF Translate, diskVars
  <2>2. PICK v \in [Locales -> [Files -> Values]] :
          /\ \A l \in Locales, f \in Files :
                /\ f \notin Wanted(r, l) => v[l][f] = None
                /\ f \in Wanted(r, l) =>
                     v[l][f] \in T!MayReturn(TextOf(r, f), run[r].mem[l], Feedback({}))
          /\ LET x == [run[r] EXCEPT !.data = Merged(Kept(r), v),
                                  !.mem = Learned(r, v, Feedback({}))]
             IN  x \in Local /\ Becomes(r, Verified(r, x))
    BY <1>5, TranslateBecomes DEF Sized
  <2> DEFINE x == [run[r] EXCEPT !.data = Merged(Kept(r), v),
                                 !.mem = Learned(r, v, Feedback({}))]
  <2>3. /\ x.alone = run[r].alone /\ x.scanned = run[r].scanned
        /\ x.dry = run[r].dry /\ x.plan = run[r].plan /\ x.entry = run[r].entry
        /\ x.known = run[r].known /\ x.data = Merged(Kept(r), v)
        /\ x.mem = Learned(r, v, Feedback({}))
    BY <1>1 DEF Local
  <2>4. x \in Local /\ Becomes(r, Verified(r, x))
    BY <2>2
  <2>5. Got(r, v, {})
    BY <2>2 DEF Got, Wanted
  <2> HIDE DEF x
  <2> QED
    BY <2>1, <2>3, <2>4, <2>5, VerifiedReceives
<1>6. ASSUME NEW r \in Runs, Retry(r) PROVE Receives(r)
  <2>1. UNCHANGED <<cat, saved>> /\ run[r].at = "retry" /\ run[r].round < 2
    BY <1>6 DEF Retry, diskVars, Sized, RoundsLeft
  <2>2. PICK v \in [Locales -> [Files -> Values]] :
          /\ \A l \in Locales, f \in Files :
                /\ f \notin Flagged(r) => v[l][f] = None
                /\ f \in Flagged(r) =>
                     v[l][f] \in T!MayReturn(TextOf(r, f), run[r].mem[l], Again(r))
          /\ LET x == [run[r] EXCEPT !.round = run[r].round + 1, !.flagged = Flagged(r),
                                  !.data = Merged(run[r].data, v),
                                  !.mem = Learned(r, v, Again(r))]
             IN  x \in Local /\ Becomes(r, Verified(r, x))
    BY <1>6, <2>1, RetryBecomes DEF Sized
  <2> DEFINE x == [run[r] EXCEPT !.round = run[r].round + 1, !.flagged = Flagged(r),
                                 !.data = Merged(run[r].data, v),
                                 !.mem = Learned(r, v, Again(r))]
             keys == {TextOf(r, f) : f \in Flagged(r)}
  <2>3. /\ x.alone = run[r].alone /\ x.scanned = run[r].scanned
        /\ x.dry = run[r].dry /\ x.plan = run[r].plan /\ x.entry = run[r].entry
        /\ x.known = run[r].known /\ x.data = Merged(run[r].data, v)
        /\ x.mem = Learned(r, v, Again(r))
    BY <1>1 DEF Local
  <2>4. x \in Local /\ Becomes(r, Verified(r, x))
    BY <2>2
  <2>5. Again(r) = Feedback(keys)
    BY DEF Again
  <2> HIDE DEF x, keys
  <2>6. Flagged(r) \subseteq KeysOf(r)
    BY DEF Flagged, Sized, FlaggedKeys
  <2>7. Got(r, v, keys)
    BY <2>2, <2>5, <2>6 DEF Got
  <2> QED
    BY <2>1, <2>3, <2>4, <2>5, <2>7, VerifiedReceives
<1>7. ASSUME NEW r \in Runs, NEW f \in Files, WriteCode(r, f) PROVE Carries(r)
  <2> DEFINE less == [g \in DOMAIN run[r].plan \ {f} |-> run[r].plan[g]]
             x == [run[r] EXCEPT !.plan = less]
  <2>1. run[r].at = "code" /\ UNCHANGED <<cat, saved>>
    BY <1>7 DEF WriteCode
  <2>2. Goes(r, x)
    BY <1>7, WriteCodeBecomes DEF Sized
  <2>3. DOMAIN less \subseteq DOMAIN run[r].plan
    OBVIOUS
  <2> HIDE DEF less
  <2>4. /\ x.at = "code" /\ x.alone = run[r].alone /\ x.scanned = run[r].scanned
        /\ x.dry = run[r].dry /\ x.plan = less /\ x.entry = run[r].entry
        /\ x.known = run[r].known /\ x.data = run[r].data /\ x.mem = run[r].mem
    BY <1>1, <2>1 DEF Local
  <2> HIDE DEF x
  <2>5. Moves(r)
    BY <2>1, <2>2, <2>3, <2>4, GoesMoves
  <2>6. CASE Becomes(r, x)
    BY <2>1, <2>4, <2>5, <2>6 DEF Becomes, Carries, Carried, Done
  <2> QED
    BY <2>1, <2>2, <2>6, EndCarries DEF Goes, Active
<1>8. ASSUME NEW r \in Runs, WriteSource(r) PROVE Carries(r)
  <2> DEFINE x == [run[r] EXCEPT !.at = "targets", !.todo = Locales]
  <2>1. run[r].at = "code" /\ UNCHANGED <<cat, saved>>
    BY <1>8 DEF WriteSource
  <2>2. Goes(r, x)
    BY <1>8, WriteSourceBecomes DEF Sized
  <2>3. /\ x.at = "targets" /\ x.alone = run[r].alone /\ x.scanned = run[r].scanned
        /\ x.dry = run[r].dry /\ x.plan = run[r].plan /\ x.entry = run[r].entry
        /\ x.known = run[r].known /\ x.data = run[r].data /\ x.mem = run[r].mem
        /\ x.todo = Locales
    BY <1>1 DEF Local
  <2> HIDE DEF x
  <2>4. Moves(r)
    BY <2>1, <2>2, <2>3, GoesMoves
  <2>5. CASE Becomes(r, x)
    BY <2>1, <2>3, <2>4, <2>5 DEF Becomes, Carries, Carried, Done
  <2> QED
    BY <2>1, <2>2, <2>5, EndCarries DEF Goes, Active
<1>9. ASSUME NEW r \in Runs, NEW l \in Locales, WriteTarget(r, l) PROVE Delivers(r)
  <2> DEFINE x == [run[r] EXCEPT !.todo = run[r].todo \ {l}]
  <2>1. run[r].at = "targets" /\ UNCHANGED saved
    BY <1>9 DEF WriteTarget
  <2>2. /\ Goes(r, x)
        /\ \/ cat' = [cat EXCEPT ![l] = run[r].data[l]]
           \/ Mishap /\ (cat' = cat \/ cat' = [cat EXCEPT ![l] = [f \in Files |-> None]])
    BY <1>9, WriteTargetBecomes DEF Sized, Mishap
  <2>3. /\ x.at = "targets" /\ x.alone = run[r].alone /\ x.scanned = run[r].scanned
        /\ x.dry = run[r].dry /\ x.plan = run[r].plan /\ x.entry = run[r].entry
        /\ x.known = run[r].known /\ x.data = run[r].data /\ x.mem = run[r].mem
        /\ x.todo = run[r].todo \ {l}
    BY <1>1, <2>1 DEF Local
  <2> HIDE DEF x
  <2>4. Moves(r)
    BY <2>1, <2>2, <2>3, GoesMoves
  <2>5. \/ run'[r].at = "targets" /\ Carried(r) /\ run'[r].todo = run[r].todo \ {l}
        \/ run'[r].at \notin Active /\ Mishap
    <3>1. CASE Becomes(r, x)
      BY <2>3, <3>1 DEF Becomes, Carried
    <3>2. CASE Becomes(r, Ended(r, "dead")) /\ Mishap
      BY <2>1, <3>2, EndMoves DEF Active
    <3> QED
      BY <2>2, <3>1, <3>2 DEF Goes, Mishap
  <2> QED
    BY <2>1, <2>2, <2>4, <2>5 DEF Delivers
<1>10. ASSUME NEW r \in Runs, SaveMemory(r) PROVE Remembers(r)
  <2>1. /\ run[r].at = "targets" /\ run[r].todo = {} /\ UNCHANGED cat
        /\ saved' \in {run[r].mem, saved, Fresh.mem}
    BY <1>10 DEF SaveMemory
  <2>2. Goes(r, Ended(r, "done")) /\ (saved' = run[r].mem \/ Mishap)
    BY <1>10, SaveMemoryBecomes DEF Sized, Mishap
  <2>3. Moves(r) /\ run'[r].at \notin Active
    BY <2>1, <2>2, EndMoves DEF Goes, Active
  <2> QED
    BY <2>1, <2>2, <2>3 DEF Remembers
<1>11. ASSUME NEW r \in Runs, Begin(r) PROVE Loads(r)
  <2>1. UNCHANGED <<code, src, ckpts, cat, saved>> /\ run[r].at = "idle"
    BY <1>11 DEF Begin, diskVars
  <2> QED
    BY <1>11, <2>1, BeginBecomes DEF Starts, Loads, Sized
<1>12. ASSUME NEW r \in Runs, Die(r) PROVE Carries(r)
  <2>1. run[r].at \in Active /\ UNCHANGED <<cat, saved>>
    BY <1>12 DEF Die, diskVars
  <2>2. Becomes(r, Ended(r, "dead")) /\ Mishap
    <3>1. spent.mishaps \in Nat /\ spent'.mishaps = spent.mishaps + 1
      BY <1>12, DieBecomes DEF Sized, Typed
    <3> QED
      BY <1>12, <3>1, DieBecomes DEF Sized, Mishap
  <2> QED
    BY <2>1, <2>2, EndCarries
<1>13. ASSUME NEW l \in Locales, NEW f \in Files, Edit(l, f) PROVE ByHand(l, f)
  BY <1>13, EditBecomes DEF ByHand, Edit, Sized
<1>14. ASSUME \/ UNCHANGED pipeVars
              \/ \E s \in DOMAIN ckpts : Restore(s) \/ \E f \in Files : RestoreFails(s, f)
       PROVE  UNCHANGED <<cat, saved, run>>
  BY <1>14 DEF pipeVars, diskVars, Restore, RestoreFails
<1> QED
  BY <1>2, <1>3, <1>4, <1>5, <1>6, <1>7, <1>8, <1>9, <1>10, <1>11, <1>12, <1>13, <1>14
     DEF PipelineNext, RunStep, People

\* Values are under their own keys, in the catalogs, the memories, and what
\* the runs carry.
Keyed ==
    /\ KeyedCat(cat) /\ KeyedMem(saved)
    /\ \A q \in Busy :
          /\ KeyedCat(run[q].known) /\ KeyedMem(run[q].mem)
          /\ run[q].at \in Done => KeyedCat(run[q].data)

LEMMA KeptBy ==
    ASSUME Typed, NEW r \in Runs
    PROVE  \A l \in Locales, f \in Files :
              Kept(r)[l][f] = None \/ Kept(r)[l][f] = run[r].known[l][f]
BY DEF Kept

\* What comes of what a run has before a reply (see Receives).
Before(r) == IF run[r].at = "translate" THEN Kept(r) ELSE run[r].data

LEMMA BeforeKeyed ==
    ASSUME Sized, Keyed, NEW r \in Busy, run[r].at \in {"translate", "retry"}
    PROVE  /\ KeyedCat(Before(r)) /\ Before(r) \in [Locales -> Catalog]
           /\ KeyedMem(run[r].mem) /\ r \in Runs
<1>1. r \in Runs /\ run[r] \in Local
  BY DEF Busy, Sized, Typed
<1>2. CASE run[r].at = "translate"
  <2>1. Kept(r) \in [Locales -> Catalog]
    BY <1>1, NoValue DEF Kept, Catalog, Local
  <2>2. KeyedCat(Kept(r))
    BY <1>1, KeptBy DEF Keyed, KeyedCat, Sized
  <2> QED
    BY <1>1, <1>2, <2>1, <2>2 DEF Before, Keyed
<1>3. CASE run[r].at = "retry"
  BY <1>1, <1>3 DEF Before, Keyed, Done, Local
<1> QED
  BY <1>2, <1>3

LEMMA KeyedNext ==
    ASSUME Sized, Keyed, [PipelineNext]_pipeVars PROVE Keyed'
<1> DEFINE Carry(q) == /\ KeyedCat(run'[q].known) /\ KeyedMem(run'[q].mem)
                       /\ run'[q].at \in Done => KeyedCat(run'[q].data)
<1>1. KeyedCat(cat) /\ KeyedMem(saved)
  BY DEF Keyed
<1>b. Busy \subseteq Runs /\ \A q \in Runs : q \in Busy <=> run[q].at \in Active
  BY DEF Busy
<1>c. Busy' \subseteq Runs /\ \A q \in Runs : q \in Busy' <=> run'[q].at \in Active
  BY DEF Busy
<1>2. ASSUME NEW q \in Busy', q \in Busy, run'[q].known = run[q].known, run'[q].mem = run[q].mem,
             run'[q].data = run[q].data, run'[q].at \in Done => run[q].at \in Done
      PROVE  Carry(q)
  BY <1>2 DEF Keyed
<1>3. ASSUME NEW r \in Runs, Moves(r), run'[r].at \in Active => Carry(r)
      PROVE  \A q \in Busy' : Carry(q)
  <2> SUFFICES ASSUME NEW q \in Busy' PROVE Carry(q)
    OBVIOUS
  <2>1. CASE q = r
    BY <1>3, <1>c, <2>1
  <2>2. CASE q # r
    <3>1. run'[q] = run[q] /\ q \in Busy
      BY <1>3, <1>b, <1>c, <2>2 DEF Moves
    <3> QED
      BY <1>2, <3>1
  <2> QED
    BY <2>1, <2>2
<1> DEFINE Then == KeyedCat(cat') /\ KeyedMem(saved') /\ \A q \in Busy' : Carry(q)
<1>4. ASSUME NEW r \in Runs, Carries(r) PROVE Then
  <2>1. Moves(r) /\ UNCHANGED <<cat, saved>> /\ r \in Busy
    BY <1>4, <1>b DEF Carries, Moves
  <2>2. run'[r].at \in Active => Carry(r)
    BY <1>2, <1>4, <1>c, <2>1 DEF Carries, Carried
  <2> QED
    BY <1>1, <1>3, <2>1, <2>2
<1>5. ASSUME NEW r \in Runs, Receives(r) PROVE Then
  <2>1. Moves(r) /\ UNCHANGED <<cat, saved>> /\ r \in Busy
    BY <1>5, <1>b DEF Receives, Moves
  <2>2. ASSUME run'[r].at \in Active PROVE Carry(r)
    <3>1. PICK v \in [Locales -> [Files -> Values]] : \E keys :
                /\ Got(r, v, keys)
                /\ run'[r].data = Merged(Before(r), v)
                /\ run'[r].mem = Learned(r, v, Feedback(keys))
                /\ run'[r].known = run[r].known
      BY <1>5, <2>2 DEF Receives, Before
    <3>2. PICK keys :
                /\ Got(r, v, keys)
                /\ run'[r].data = Merged(Before(r), v)
                /\ run'[r].mem = Learned(r, v, Feedback(keys))
                /\ run'[r].known = run[r].known
      BY <3>1
    <3>3. /\ KeyedCat(Before(r)) /\ Before(r) \in [Locales -> Catalog]
          /\ KeyedMem(run[r].mem)
      BY <1>5, <2>1, BeforeKeyed DEF Receives
    <3>4. KeyedCat(run'[r].data) /\ KeyedMem(run'[r].mem)
      BY <3>2, <3>3, ReceivedAgrees DEF Sized
    <3> QED
      BY <2>1, <3>2, <3>4 DEF Keyed
  <2> QED
    BY <1>1, <1>3, <2>1, <2>2
<1>6. ASSUME NEW r \in Runs, Delivers(r) PROVE Then
  <2>1. Moves(r) /\ UNCHANGED saved /\ r \in Busy /\ run[r].at = "targets"
    BY <1>6, <1>b DEF Delivers, Moves
  <2>2. run'[r].at \in Active => Carry(r)
    BY <1>2, <1>6, <1>c, <2>1 DEF Delivers, Carried
  <2>3. KeyedCat(run[r].data) /\ cat \in [Locales -> Catalog]
    BY <2>1 DEF Keyed, Done, Sized, Typed, Disk
  <2>4. KeyedCat(cat')
    <3>1. PICK l \in Locales :
            \/ cat' = [cat EXCEPT ![l] = run[r].data[l]]
            \/ cat' = cat \/ cat' = [cat EXCEPT ![l] = [f \in Files |-> None]]
      BY <1>6 DEF Delivers
    <3> QED
      BY <1>1, <2>3, <3>1 DEF KeyedCat
  <2> QED
    BY <1>1, <1>3, <2>1, <2>2, <2>4
<1>7. ASSUME NEW r \in Runs, Remembers(r) PROVE Then
  <2>1. Moves(r) /\ UNCHANGED cat /\ r \in Busy /\ run'[r].at \notin Active
    BY <1>7, <1>b DEF Remembers, Moves
  <2>2. KeyedMem(run[r].mem) /\ KeyedMem(Fresh.mem)
    BY <2>1, FreshTypes DEF Keyed, KeyedMem
  <2>3. KeyedMem(saved')
    BY <1>1, <1>7, <2>2 DEF Remembers
  <2> QED
    BY <1>1, <1>3, <2>1, <2>3
<1>8. ASSUME NEW r \in Runs, Loads(r) PROVE Then
  <2>1. UNCHANGED <<cat, saved>> /\ run'[r].at \notin Done
    BY <1>8 DEF Loads, Starts, Done
  <2>2. ASSUME NEW q \in Busy' PROVE Carry(q)
    <3>1. CASE q = r
      BY <1>1, <1>8, <2>1, <3>1 DEF Loads
    <3>2. CASE q # r
      BY <1>2, <1>8, <1>b, <1>c, <2>2, <3>2 DEF Loads, Starts, Alike
    <3> QED
      BY <3>1, <3>2
  <2> QED
    BY <1>1, <2>1, <2>2
<1>9. ASSUME NEW l \in Locales, NEW f \in Files, ByHand(l, f) PROVE Then
  <2>1. <<f, "original">> \in Texts /\ <<f, "original">>[1] = f
    BY DEF Texts
  <2>2. KeyedCat(cat')
    <3> SUFFICES ASSUME NEW m \in Locales, NEW g \in Files, cat'[m][g] # None
                 PROVE  cat'[m][g].of \in Texts /\ cat'[m][g].of[1] = g
      BY DEF KeyedCat
    <3>1. CASE <<m, g>> = <<l, f>>
      BY <1>9, <2>1, <3>1 DEF ByHand
    <3>2. CASE <<m, g>> # <<l, f>>
      BY <1>1, <1>9, <3>2 DEF ByHand, KeyedCat
    <3> QED
      BY <3>1, <3>2
  <2>3. \A q \in Busy' : Carry(q)
    BY <1>2, <1>9, <1>b, <1>c DEF ByHand
  <2> QED
    BY <1>1, <1>9, <2>2, <2>3 DEF ByHand
<1>10. ASSUME UNCHANGED <<cat, saved, run>> PROVE Then
  BY <1>1, <1>2, <1>10, <1>b, <1>c
<1>11. Then
  <2> HIDE DEF Then
  <2> QED
    BY <1>4, <1>5, <1>6, <1>7, <1>8, <1>9, <1>10, ValueKinds
<1> QED
  BY <1>11 DEF Keyed

\* Between runs the memory has what the catalogs have from it; a run has what
\* it carries in its own memory, and has written no other values.
Agree ==
    AllAlone /\ Smooth =>
      /\ (\A q \in Busy : run[q].at # "targets") => Agrees(cat, saved)
      /\ \A q \in Busy :
            /\ run[q].at \notin Done => Agrees(run[q].known, run[q].mem)
            /\ run[q].at \in Done => Agrees(run[q].data, run[q].mem)
            /\ run[q].at = "targets" => \A l \in Locales, f \in Files : l \notin run[q].todo =>
                  cat[l][f] = run[q].data[l][f] \/ cat[l][f].by = "person"

LEMMA AgreeNext ==
    ASSUME Sized, Way, Keyed, Agree, [PipelineNext]_pipeVars PROVE Agree'
<1> DEFINE Rest == (\A q \in Busy' : run'[q].at # "targets") => Agrees(cat', saved')
           Has(q) ==
            /\ run'[q].at \notin Done => Agrees(run'[q].known, run'[q].mem)
            /\ run'[q].at \in Done => Agrees(run'[q].data, run'[q].mem)
            /\ run'[q].at = "targets" => \A l \in Locales, f \in Files : l \notin run'[q].todo =>
                  cat'[l][f] = run'[q].data[l][f] \/ cat'[l][f].by = "person"
           Then == Rest /\ \A q \in Busy' : Has(q)
<1> SUFFICES ASSUME AllAlone', Smooth' PROVE Then
  BY DEF Agree
<1>0. Smooth /\ ~Mishap
  BY StepKinds DEF Smooth, Mishap
<1>b. Busy \subseteq Runs /\ \A q \in Runs : q \in Busy <=> run[q].at \in Active
  BY DEF Busy
<1>c. Busy' \subseteq Runs /\ \A q \in Runs : q \in Busy' <=> run'[q].at \in Active
  BY DEF Busy
<1>1. ASSUME NEW r \in Runs, Moves(r)
      PROVE  /\ AllAlone /\ Busy = {r}
             /\ \A q \in Busy' : q = r /\ run'[r].at \in Active
             /\ run'[r].at \in Active => r \in Busy'
             /\ run'[r].at \in Active /\ run'[r].at # "targets" => run[r].at # "targets"
  BY <1>1, <1>b, <1>c, AloneBefore, MovesWay DEF Way, Moves
<1>2. AllAlone => /\ (\A q \in Busy : run[q].at # "targets") => Agrees(cat, saved)
                  /\ \A q \in Busy :
                        /\ run[q].at \notin Done => Agrees(run[q].known, run[q].mem)
                        /\ run[q].at \in Done => Agrees(run[q].data, run[q].mem)
                        /\ run[q].at = "targets" => \A l \in Locales, f \in Files : l \notin run[q].todo =>
                              cat[l][f] = run[q].data[l][f] \/ cat[l][f].by = "person"
  BY <1>0 DEF Agree
<1>3. ASSUME NEW r \in Runs, Carries(r) PROVE Then
  <2>1. Moves(r) /\ UNCHANGED <<cat, saved>> /\ run[r].at # "targets"
    BY <1>0, <1>3 DEF Carries
  <2>2. AllAlone /\ Busy = {r} /\ \A q \in Busy' : q = r /\ run'[r].at \in Active
    BY <1>1, <2>1
  <2>3. Rest
    BY <1>2, <2>1, <2>2
  <2>4. ASSUME run'[r].at \in Active PROVE Has(r)
    BY <1>2, <1>3, <2>1, <2>2, <2>4 DEF Carries, Carried
  <2> QED
    BY <2>2, <2>3, <2>4
<1>4. ASSUME NEW r \in Runs, Receives(r) PROVE Then
  <2>1. Moves(r) /\ UNCHANGED <<cat, saved>> /\ run[r].at \in {"translate", "retry"}
    BY <1>4 DEF Receives
  <2>2. AllAlone /\ Busy = {r} /\ \A q \in Busy' : q = r /\ run'[r].at \in Active
    BY <1>1, <2>1
  <2>3. Rest
    BY <1>2, <2>1, <2>2
  <2>4. ASSUME run'[r].at \in Active PROVE Has(r)
    <3>1. PICK v \in [Locales -> [Files -> Values]] : \E keys :
                /\ Got(r, v, keys)
                /\ run'[r].data = Merged(Before(r), v)
                /\ run'[r].mem = Learned(r, v, Feedback(keys))
      BY <1>4, <2>4 DEF Receives, Before
    <3>2. PICK keys :
                /\ Got(r, v, keys)
                /\ run'[r].data = Merged(Before(r), v)
                /\ run'[r].mem = Learned(r, v, Feedback(keys))
      BY <3>1
    <3>3. KeyedCat(Before(r)) /\ Before(r) \in [Locales -> Catalog] /\ KeyedMem(run[r].mem)
      BY <2>1, <2>2, BeforeKeyed
    <3>4. Agrees(Before(r), run[r].mem)
      <4>1. CASE run[r].at = "translate"
        <5>1. Agrees(run[r].known, run[r].mem)
          BY <1>2, <2>2, <4>1 DEF Done
        <5> QED
          BY <4>1, <5>1, KeptBy DEF Before, Agrees, Sized
      <4>2. CASE run[r].at = "retry"
        BY <1>2, <2>2, <4>2 DEF Done, Before
      <4> QED
        BY <2>1, <4>1, <4>2
    <3>5. Agrees(run'[r].data, run'[r].mem)
      BY <3>2, <3>3, <3>4, ReceivedAgrees DEF Sized
    <3>6. run'[r].at \in {"retry", "code"}
      BY <1>4, <2>4 DEF Receives
    <3> QED
      BY <3>5, <3>6 DEF Done
  <2> QED
    BY <2>2, <2>3, <2>4
<1>5. ASSUME NEW r \in Runs, Delivers(r) PROVE Then
  <2>1. Moves(r) /\ UNCHANGED saved /\ run[r].at = "targets"
    BY <1>5 DEF Delivers
  <2>2. AllAlone /\ Busy = {r} /\ \A q \in Busy' : q = r /\ run'[r].at \in Active
    BY <1>1, <2>1
  <2>3. PICK l \in Locales :
          /\ run'[r].at = "targets" /\ Carried(r) /\ run'[r].todo = run[r].todo \ {l}
          /\ cat' = [cat EXCEPT ![l] = run[r].data[l]]
    BY <1>0, <1>5 DEF Delivers
  <2>4. r \in Busy'
    BY <1>1, <2>1, <2>3 DEF Active
  <2>5. cat \in [Locales -> Catalog]
    BY DEF Sized, Typed, Disk
  <2>6. Agrees(run'[r].data, run'[r].mem)
    BY <1>2, <2>1, <2>2, <2>3 DEF Done, Carried
  <2>7. ASSUME NEW m \in Locales, NEW f \in Files, m \notin run'[r].todo
        PROVE  cat'[m][f] = run'[r].data[m][f] \/ cat'[m][f].by = "person"
    <3>1. CASE m = l
      BY <2>3, <2>5, <3>1 DEF Carried
    <3>2. CASE m # l
      BY <1>2, <2>1, <2>2, <2>3, <2>5, <2>7, <3>2 DEF Carried
    <3> QED
      BY <3>1, <3>2
  <2> QED
    BY <2>2, <2>3, <2>4, <2>6, <2>7 DEF Done
<1>6. ASSUME NEW r \in Runs, Remembers(r) PROVE Then
  <2>1. /\ Moves(r) /\ UNCHANGED cat /\ run[r].at = "targets" /\ run[r].todo = {}
        /\ run'[r].at \notin Active /\ saved' = run[r].mem
    BY <1>0, <1>6 DEF Remembers
  <2>2. AllAlone /\ Busy = {r} /\ Busy' = {}
    BY <1>1, <2>1
  <2>3. Agrees(run[r].data, run[r].mem)
    BY <1>2, <2>1, <2>2 DEF Done
  <2>4. \A l \in Locales, f \in Files : cat[l][f] = run[r].data[l][f] \/ cat[l][f].by = "person"
    BY <1>2, <2>1, <2>2
  <2>5. Agrees(cat', saved')
    BY <2>1, <2>3, <2>4 DEF Agrees
  <2> QED
    BY <2>2, <2>5
<1>7. ASSUME NEW r \in Runs, Loads(r) PROVE Then
  <2>1. AllAlone /\ Busy = {}
    BY <1>7, AloneBefore DEF Loads
  <2>2. \A q \in Busy' : q = r
    BY <1>7, <1>b, <1>c, <2>1 DEF Loads, Starts
  <2>3. Agrees(cat, saved)
    BY <1>2, <2>1
  <2>4. Has(r)
    BY <1>7, <2>3 DEF Loads, Starts, Done
  <2> QED
    BY <1>7, <2>2, <2>3, <2>4 DEF Loads
<1>8. ASSUME NEW l \in Locales, NEW f \in Files, ByHand(l, f) PROVE Then
  <2>1. UNCHANGED <<saved, run>> /\ AllAlone /\ Busy' = Busy
    BY <1>8 DEF ByHand, AllAlone, Busy
  <2>2. \A m \in Locales, g \in Files : cat'[m][g] = cat[m][g] \/ cat'[m][g].by = "person"
    <3> SUFFICES ASSUME NEW m \in Locales, NEW g \in Files
                 PROVE  cat'[m][g] = cat[m][g] \/ cat'[m][g].by = "person"
      OBVIOUS
    <3>1. CASE m = l /\ g = f
      BY <1>8, <3>1 DEF ByHand
    <3>2. CASE ~(m = l /\ g = f)
      <4>1. <<m, g>> # <<l, f>>
        BY <3>2
      <4> QED
        BY <1>8, <4>1 DEF ByHand
    <3> QED
      BY <3>1, <3>2
  <2>3. Rest
    BY <1>2, <2>1, <2>2 DEF Agrees
  <2>4. ASSUME NEW q \in Busy' PROVE Has(q)
    BY <1>2, <2>1, <2>2, <2>4
  <2> QED
    BY <2>3, <2>4
<1>9. ASSUME UNCHANGED <<cat, saved, run>> PROVE Then
  <2>1. AllAlone /\ Busy' = Busy
    BY <1>9 DEF AllAlone, Busy
  <2> QED
    BY <1>2, <1>9, <2>1
<1> QED
  <2> HIDE DEF Then
  <2> QED
    BY <1>3, <1>4, <1>5, <1>6, <1>7, <1>8, <1>9, ValueKinds

\* Between runs that took turns and succeeded, the memory has for a text the
\* value that the catalogs have from it: what the critic sent back is in
\* neither.
THEOREM MemoryStaysTrue == PipelineSpec => []MemoryAgrees
<1>1. PipelineInit => Keyed /\ Agree
  <2> SUFFICES ASSUME PipelineInit PROVE Keyed /\ Agree
    OBVIOUS
  <2>1. \A r \in Runs : run[r].at = "idle"
    BY FreshTypes DEF PipelineInit
  <2>2. Busy = {}
    BY <2>1 DEF Busy, Active
  <2>3. \A l \in Locales, f \in Files : cat[l][f] = None
    BY DEF PipelineInit
  <2>4. \A l \in Locales, t \in Texts : saved[l][t] = None
    BY FreshTypes DEF PipelineInit
  <2> QED
    BY <2>2, <2>3, <2>4 DEF Keyed, KeyedCat, KeyedMem, Agree, Agrees
<1>2. Agree => MemoryAgrees
  BY DEF Agree, MemoryAgrees, InTurn, AllAlone, Agrees
<1>3. Sized /\ Way /\ Keyed /\ Agree /\ [PipelineNext]_pipeVars => Keyed' /\ Agree'
  BY KeyedNext, AgreeNext
<1> QED
  BY <1>1, <1>2, <1>3, WayAlways, PTL DEF PipelineSpec

\* Types, reports and the memory, in every state that a project can get into.
THEOREM PipelineIsSound == PipelineSpec => []PipelineInv
BY PipelineTypeCorrect, ReportsAreTrue, MemoryStaysTrue, PTL DEF PipelineInv
=============================================================================
