------------------------------- MODULE Pipeline -------------------------------
(***************************************************************************)
(* RunEndToEnd of langpeanut_local (pkg/agents/supervisor.go): runs of the *)
(* localization pipeline on one project directory, among people who edit   *)
(* catalogs in the studio and restore checkpoints.                         *)
(*                                                                         *)
(* A run reads and writes the disk in many steps, without locks: the       *)
(* studio starts a run although one is in progress (handleRunPipeline),    *)
(* and the command line knows nothing of the studio.                       *)
(*                                                                         *)
(* Abstractions.  A source file has one string, with a key of its own: the *)
(* file stands for both.  The text of a key is the original string, or the *)
(* key made readable (humanizeKey) where the string is not known.  What    *)
(* TranslateLocale does is one step that keeps the contract of Translation,*)
(* to which Translator keeps; it reads and writes nothing others see.  The *)
(* repair and directive agents edit code by prompts and are left out.      *)
(***************************************************************************)
EXTENDS Integers, FiniteSets

CONSTANTS
    Files,      \* source files, and the key of the string of each
    Base,       \* the base name of each file
    Locales,    \* target locales
    Forms,      \* forms of what a model may answer
    Unasked,    \* see Translation
    Runs,       \* runs, each started at most once
    Requests,   \* ExistingMode of a run, and whether it is a dry run
    MaxTime,    \* bound: seconds that pass between checkpoints
    MaxMishaps, \* bound: writes that fail and runs that are killed
    MaxEdits,   \* bound: edits of catalogs
    MaxRestores,\* bound: checkpoints restored
    MaxInAll    \* bound: mishaps, edits and restores in all

Texts == Files \X {"original", "humanized"}

T == INSTANCE Translation WITH Keys <- Texts, Source <- [t \in Texts |-> t],
                               Glossary <- {}, Dictionary <- {}

ASSUME PipelineAssumption ==
    /\ IsFiniteSet(Files)
    /\ Unasked \notin Texts
    /\ Forms \subseteq {"whole", "long", "broken", "blank"}
    /\ Requests \subseteq [mode : {"skip", "replace"}, dry : BOOLEAN]
    /\ \A n \in {MaxTime, MaxMishaps, MaxEdits, MaxRestores, MaxInAll} : n \in Nat

VARIABLES
    code,   \* what each source file has: whose content, and in what state:
            \* "literal" (the string is in it), "refs" (a reference to the
            \* key instead), "garbled" (patched at the wrong place), "torn"
    src,    \* source catalog
    cat,    \* target catalogs
    saved,  \* the translation memory on disk
    ckpts,  \* .langPeanut/checkpoints: a directory for each second, with the
            \* files of its manifest; history: what all files were (was), and
            \* how many runs wrote into the directory (made)
    clock,  \* the second of the last checkpoint
    run,    \* the locals of each run
    spent   \* how much of each bound is used up

diskVars == <<code, src, cat, saved, ckpts>>
pipeVars == <<diskVars, clock, run, spent>>

None    == T!None
Own(f, state) == <<f, state>>
Content == Files \X {"literal", "refs", "garbled", "torn"}
Names   == {Base[f] : f \in Files}
Catalog == [Files -> T!Value \cup {None}]
TM      == [Locales -> [Texts -> T!Value \cup {None}]]
NoCkpt  == [files |-> {}, backup |-> [n \in Names |-> <<>>], 
            was |-> [f \in Files |-> <<>>], made |-> 0]

Active == {"refs", "checkpoint", "plan", "translate", "retry", "code", "targets"}

Fresh == [at |-> "idle", mode |-> "skip", dry |-> FALSE, alone |-> TRUE,
          scanned |-> {}, entry |-> [f \in Files |-> "none"],
          known |-> [l \in Locales |-> [f \in Files |-> None]],
          plan |-> [f \in {} |-> "refs"],
          data |-> [l \in Locales |-> [f \in Files |-> None]],
          mem |-> [l \in Locales |-> [t \in Texts |-> None]],
          flagged |-> {}, round |-> 0, passed |-> FALSE, todo |-> {}]

PipelineInit ==
    /\ code = [f \in Files |-> Own(f, "literal")]
    /\ src = [f \in Files |-> "none"]
    /\ cat = [l \in Locales |-> [f \in Files |-> None]]
    /\ saved = Fresh.mem
    /\ ckpts = [s \in 0 .. MaxTime |-> NoCkpt]
    /\ clock = 0
    /\ run = [r \in Runs |-> Fresh]
    /\ spent = [mishaps |-> 0, edits |-> 0, restores |-> 0]

Spend(what, max) ==
    /\ spent[what] < max
    /\ spent.mishaps + spent.edits + spent.restores < MaxInAll
    /\ spent' = [spent EXCEPT ![what] = @ + 1]

\* The run is over; its locals are gone.
Ended(r, how) == [Fresh EXCEPT !.at = how, !.alone = run[r].alone]

\* A write of the run succeeds; or it fails, and the run drops the error and
\* goes on; or the process is killed in it.
Writes(r, next) == run' = [run EXCEPT ![r] = next] /\ UNCHANGED spent
Breaks(r, next) ==
    /\ Spend("mishaps", MaxMishaps)
    /\ run' \in {[run EXCEPT ![r] = locals] : locals \in {next, Ended(r, "dead")}}

-----------------------------------------------------------------------------
(***************************************************************************)
(* A run reads the project.                                                *)
(***************************************************************************)
Busy == {r \in Runs : run[r].at \in Active}

\* NewSupervisorAgent loads the memory, the scout finds the strings, the
\* catalogs are read, and the strings go into the source catalog.
Begin(r) ==
    /\ run[r].at = "idle"
    /\ \E request \in Requests :
       LET scanned == {f \in Files : code[f] = Own(f, "literal")}
           begun == [Fresh EXCEPT !.at = "refs", !.mode = request.mode, !.dry = request.dry,
                        !.alone = (Busy = {}), !.mem = saved, !.known = cat,
                        !.scanned = scanned,
                        !.entry = [f \in Files |-> IF f \in scanned THEN "original" ELSE src[f]]]
       IN run' = [q \in Runs |-> IF q = r THEN begun
                                 ELSE [run[q] EXCEPT !.alone = @ /\ q \notin Busy]]
    /\ UNCHANGED <<diskVars, clock, spent>>

\* extractReferencedKeys: keys that only the code knows get a readable text.
Referred(r, f) ==
    IF run[r].entry[f] = "none" /\ code[f] = Own(f, "refs") THEN "humanized"
    ELSE run[r].entry[f]

Refer(r) ==
    /\ run[r].at = "refs"
    /\ LET entry == [f \in Files |-> Referred(r, f)] IN
       run' = [run EXCEPT ![r] =
                  IF \A f \in Files : entry[f] = "none" THEN Ended(r, "done")
                  ELSE [@ EXCEPT !.entry = entry,
                                 !.at = IF run[r].dry THEN "plan" ELSE "checkpoint"]]
    /\ UNCHANGED <<diskVars, clock, spent>>

(***************************************************************************)
(* CreateCheckpoint copies the files with strings, each under its base     *)
(* name, into the directory of the second; last is the file copied last    *)
(* for each name.  A directory of the same second is written over.         *)
(***************************************************************************)
\* Mistake: the manifest names the files, but they are not copied.
BackupsLater(old, files, last) == old

Backups(old, files, last) ==
    [n \in Names |-> IF n \in {Base[f] : f \in files} THEN code[last[n]]
                     ELSE old[n]]

\* What the backups become where the copying of one file fails: the backup of
\* its name is not written, or not to its end.
Partly(old, files, last) ==
    LET all == Backups(old, files, last) IN
    UNION {{[all EXCEPT ![Base[f]] = old[Base[f]]], [all EXCEPT ![Base[f]] = Own(f, "torn")]}
              : f \in files}

Checkpoint(r) ==
    LET files   == run[r].scanned
        next    == [run[r] EXCEPT !.at = "plan"]
        Took(backup) == ckpts' = [ckpts EXCEPT ![clock'] =
            [files |-> files, backup |-> backup, was |-> code, made |-> @.made + 1]]
        dir     == ckpts[clock'].backup
    IN
    /\ run[r].at = "checkpoint"
    /\ clock' \in clock .. MaxTime
    /\ \/ \E last \in [Names -> Files] :
             /\ \A f \in files : Base[last[Base[f]]] = Base[f] /\ last[Base[f]] \in files
             /\ \/ Writes(r, next) /\ Took(Backups(dir, files, last))
                \/ /\ run' = [run EXCEPT ![r] = next] /\ Spend("mishaps", MaxMishaps)
                   /\ \E backup \in Partly(dir, files, last) : Took(backup)
       \/ Breaks(r, next) /\ UNCHANGED ckpts
    /\ UNCHANGED <<code, src, cat, saved>>

(***************************************************************************)
(* The patch engine works on the file as it is now, with the ranges of the *)
(* scan: a file that changed since then is garbled or rejected.  A file    *)
(* without a plan is passed over; a rejected patch ends the run.           *)
(***************************************************************************)
Plan(r) ==
    /\ run[r].at = "plan"
    /\ \/ \E files \in SUBSET run[r].scanned :
          run' = [run EXCEPT ![r].at = "translate",
                             ![r].plan = [f \in files |->
                                 Own(f, IF code[f] = Own(f, "literal") THEN "refs" ELSE "garbled")]]
       \/ run[r].scanned # {} /\ run' = [run EXCEPT ![r] = Ended(r, "failed")]
    /\ UNCHANGED <<diskVars, clock, spent>>

-----------------------------------------------------------------------------
(***************************************************************************)
(* A run translates and verifies.                                          *)
(***************************************************************************)
KeysOf(r)    == {f \in Files : run[r].entry[f] # "none"}
TextOf(r, f) == <<f, run[r].entry[f]>>

Missing(v) == v = None \/ v.form = "blank"

\* Mistake: the mode is ignored and every key is translated.
WantedAll(r, l) == KeysOf(r)

Wanted(r, l) ==
    {f \in KeysOf(r) : run[r].mode = "replace" \/ Missing(run[r].known[l][f])}

Feedback(keys) == [feedback |-> keys, offline |-> FALSE]

\* What may come of key f when TranslateLocale is asked for the keys ask[l].
MayCome(r, ask, call, l, f) ==
    IF f \in ask[l] THEN T!MayReturn(TextOf(r, f), run[r].mem[l], call) ELSE {None}

Replies(r, ask, call) ==
    {v \in [Locales -> [Files ->
               UNION {UNION {MayCome(r, ask, call, l, f) : f \in Files} : l \in Locales}]] :
        \A l \in Locales, f \in Files : v[l][f] \in MayCome(r, ask, call, l, f)}

\* Mistake: a value that the memory has is not replaced by a newer one.
LearnedOnce(r, v, call) ==
    [l \in Locales |-> [t \in Texts |->
        IF /\ run[r].mem[l][t] = None /\ t[1] \in KeysOf(r)
           /\ TextOf(r, t[1]) = t /\ v[l][t[1]] # None
        THEN v[l][t[1]] ELSE run[r].mem[l][t]]]

\* What is new goes into the memory; what was looked up there is in it.
Learned(r, v, call) ==
    [l \in Locales |-> [t \in Texts |->
        IF /\ t[1] \in KeysOf(r) /\ TextOf(r, t[1]) = t
           /\ v[l][t[1]] # None
           /\ T!Lookup(t, run[r].mem[l], call) = None
        THEN v[l][t[1]] ELSE run[r].mem[l][t]]]

\* mergeLocaleEntries: fresh values win.
Merged(old, v) ==
    [l \in Locales |-> [f \in Files |->
        IF v[l][f] # None THEN v[l][f] ELSE old[l][f]]]

\* Mode "replace" starts from nothing, unless there is nothing to translate.
Kept(r) == [l \in Locales |->
    IF run[r].mode = "replace" /\ Wanted(r, l) # {} THEN [f \in Files |-> None]
    ELSE run[r].known[l]]

(***************************************************************************)
(* VerifyAll on a value: an error where a placeholder of the text is lost  *)
(* or the key is missing, a hint without an error where the value is long. *)
(***************************************************************************)
Wrong(r, v, f) ==
    v = None \/ (v.form \in {"broken", "blank"} /\ run[r].entry[f] = "original")

Hinted(r, v, f) == Wrong(r, v, f) \/ v.form = "long"

Passes(r, data) == \A l \in Locales, f \in KeysOf(r) : ~Wrong(r, data[l][f], f)

\* Mistake: the number of retries is off by one.
OneMoreRound(r, locals) ==
    LET passed == Passes(r, locals.data) IN
    IF ~passed /\ locals.round < 3 THEN [locals EXCEPT !.at = "retry", !.passed = FALSE]
    ELSE IF locals.dry THEN Ended(r, "done")
    ELSE [locals EXCEPT !.at = "code", !.passed = passed]

\* Mistake: the report of the first look is kept.
NotReverified(r, locals) ==
    LET passed == locals.round = 0 /\ Passes(r, locals.data) IN
    IF ~passed /\ locals.round < 2 THEN [locals EXCEPT !.at = "retry", !.passed = FALSE]
    ELSE IF locals.dry THEN Ended(r, "done")
    ELSE [locals EXCEPT !.at = "code", !.passed = passed]

\* The critic has looked at data: a run with errors has two retries, then it
\* is written whatever the critic says; a dry run writes nothing.
Verified(r, locals) ==
    LET passed == Passes(r, locals.data) IN
    IF ~passed /\ locals.round < 2 THEN [locals EXCEPT !.at = "retry", !.passed = FALSE]
    ELSE IF locals.dry THEN Ended(r, "done")
    ELSE [locals EXCEPT !.at = "code", !.passed = passed]

Translate(r) ==
    /\ run[r].at = "translate"
    /\ LET call == Feedback({}) IN
       \E v \in Replies(r, [l \in Locales |-> Wanted(r, l)], call) :
          run' = [run EXCEPT ![r] = Verified(r, [run[r] EXCEPT !.data = Merged(Kept(r), v),
                                                               !.mem = Learned(r, v, call)])]
    /\ UNCHANGED <<diskVars, clock, spent>>

\* The hints are collected by key, over the locales and the rounds, and their
\* keys are translated again for every locale, without the memory.
Retry(r) ==
    /\ run[r].at = "retry"
    /\ LET flagged == run[r].flagged \cup
                      {f \in KeysOf(r) : \E l \in Locales : Hinted(r, run[r].data[l][f], f)}
           call == Feedback({TextOf(r, f) : f \in flagged}) IN
       \E v \in Replies(r, [l \in Locales |-> flagged], call) :
          run' = [run EXCEPT ![r] = Verified(r, [run[r] EXCEPT !.round = run[r].round + 1,
                                                               !.flagged = flagged,
                                                               !.data = Merged(run[r].data, v),
                                                               !.mem = Learned(r, v, call)])]
    /\ UNCHANGED <<diskVars, clock, spent>>

-----------------------------------------------------------------------------
(***************************************************************************)
(* A run writes: the code, the source catalog, the target catalogs in any  *)
(* order, the memory.                                                      *)
(***************************************************************************)
WriteCode(r, f) ==
    LET next == [run[r] EXCEPT !.plan = [g \in DOMAIN @ \ {f} |-> @[g]]] IN
    /\ run[r].at = "code" /\ f \in DOMAIN run[r].plan
    /\ \/ Writes(r, next) /\ code' = [code EXCEPT ![f] = run[r].plan[f]]
       \/ Breaks(r, next) /\ code' \in {code, [code EXCEPT ![f] = Own(f, "torn")]}
    /\ UNCHANGED <<src, cat, saved, ckpts, clock>>

\* Mistake: what the scan has found is not written.
ScannedLeftOut(r) == [f \in Files |-> IF f \in run[r].scanned THEN src[f] ELSE run[r].entry[f]]

SourceCatalog(r) == run[r].entry

\* A catalog or memory that is not written to its end is read as empty.
WriteSource(r) ==
    LET next == [run[r] EXCEPT !.at = "targets", !.todo = Locales] IN
    /\ run[r].at = "code" /\ DOMAIN run[r].plan = {}
    /\ \/ Writes(r, next) /\ src' = SourceCatalog(r)
       \/ Breaks(r, next) /\ src' \in {src, [f \in Files |-> "none"]}
    /\ UNCHANGED <<code, cat, saved, ckpts, clock>>

WriteTarget(r, l) ==
    LET next == [run[r] EXCEPT !.todo = @ \ {l}] IN
    /\ run[r].at = "targets" /\ l \in run[r].todo
    /\ \/ Writes(r, next) /\ cat' = [cat EXCEPT ![l] = run[r].data[l]]
       \/ Breaks(r, next) /\ cat' \in {cat, [cat EXCEPT ![l] = [f \in Files |-> None]]}
    /\ UNCHANGED <<code, src, saved, ckpts, clock>>

SaveMemory(r) ==
    LET next == Ended(r, "done") IN
    /\ run[r].at = "targets" /\ run[r].todo = {}
    /\ \/ Writes(r, next) /\ saved' = run[r].mem
       \/ Breaks(r, next) /\ saved' \in {saved, Fresh.mem}
    /\ UNCHANGED <<code, src, cat, ckpts, clock>>

-----------------------------------------------------------------------------
\* The process of a run is killed.
Die(r) ==
    /\ run[r].at \in Active
    /\ Spend("mishaps", MaxMishaps)
    /\ run' = [run EXCEPT ![r] = Ended(r, "dead")]
    /\ UNCHANGED <<diskVars, clock>>

\* handleUpdateLocaleKey: a person writes one key of one catalog, and may
\* lose a placeholder as a model may.
Edit(l, f) ==
    /\ Spend("edits", MaxEdits)
    /\ \E form \in Forms :
          cat' = [cat EXCEPT ![l][f] =
                     [of |-> <<f, "original">>, by |-> "person", form |-> form]]
    /\ UNCHANGED <<code, src, saved, ckpts, clock, run>>

\* RestoreCheckpoint: every file of the manifest gets the backup of its name.
Restored(s) ==
    [f \in Files |->
        LET copy == ckpts[s].backup[Base[f]] IN
        IF f \in ckpts[s].files /\ copy # <<>> THEN copy ELSE code[f]]

Restore(s) ==
    /\ ckpts[s].files # {}
    /\ Spend("restores", MaxRestores)
    /\ code' = Restored(s)
    /\ UNCHANGED <<src, cat, saved, ckpts, clock, run>>

\* The write of one file fails; nobody hears of it.
RestoreFails(s, f) ==
    /\ f \in ckpts[s].files
    /\ Spend("mishaps", MaxMishaps)
    /\ code' \in {[Restored(s) EXCEPT ![f] = c] : c \in {code[f], Own(f, "torn")}}
    /\ UNCHANGED <<src, cat, saved, ckpts, clock, run>>

RunStep(r) ==
    \/ Refer(r) \/ Checkpoint(r) \/ Plan(r) \/ Translate(r) \/ Retry(r)
    \/ (\E f \in Files : WriteCode(r, f)) \/ WriteSource(r)
    \/ (\E l \in Locales : WriteTarget(r, l)) \/ SaveMemory(r)

People ==
    \/ \E r \in Runs : Begin(r) \/ Die(r)
    \/ \E l \in Locales, f \in Files : Edit(l, f)
    \/ \E s \in DOMAIN ckpts : Restore(s) \/ \E f \in Files : RestoreFails(s, f)

PipelineNext == (\E r \in Runs : RunStep(r)) \/ People

PipelineSpec == PipelineInit /\ [][PipelineNext]_pipeVars

-----------------------------------------------------------------------------
PipelineTypeOK ==
    /\ code \in [Files -> Content]
    /\ src \in [Files -> {"none", "original", "humanized"}]
    /\ cat \in [Locales -> Catalog]
    /\ saved \in TM
    /\ \A s \in DOMAIN ckpts :
           /\ ckpts[s].files \subseteq Files
           /\ ckpts[s].backup \in [Names -> Content \cup {<<>>}]
    /\ clock \in 0 .. MaxTime
    /\ \A r \in Runs :
           /\ run[r].at \in Active \cup {"idle", "failed", "done", "dead"}
           /\ run[r].known \in [Locales -> Catalog] /\ run[r].data \in [Locales -> Catalog]
           /\ run[r].mem \in TM
           /\ run[r].plan \in [DOMAIN run[r].plan -> Content]
           /\ run[r].scanned \subseteq Files /\ run[r].flagged \subseteq Files
           /\ run[r].round \in 0 .. 2

\* Nothing has failed and no run has been killed.
Smooth == spent.mishaps = 0

\* No run is in progress, and none ever was at the same time as another.
InTurn == Busy = {} /\ \A r \in Runs : run[r].at = "idle" \/ run[r].alone

InCheckpoint(f) ==
    \E s \in DOMAIN ckpts : /\ f \in ckpts[s].files
                            /\ ckpts[s].backup[Base[f]] = Own(f, "literal")

\* A run still has to write the string to the source catalog.
InRun(f) ==
    \E r \in Busy : run[r].at \in {"checkpoint", "plan", "translate", "retry", "code"}
                    /\ run[r].entry[f] = "original"

\* At most one thing went wrong: a write failed, a run was killed, or two runs
\* met.  Two runs that take their checkpoint in one second are more than one,
\* and so is a backup that was not written to its end, as it may be restored,
\* or two files of one name, which a rollback takes for each other.
OneMishap ==
    /\ \A f, g \in Files : Base[f] = Base[g] => f = g
    /\ spent.mishaps = 0 \/ \A r \in Runs : run[r].at = "idle" \/ run[r].alone
    /\ spent.mishaps <= 1
    /\ \A s \in DOMAIN ckpts :
           /\ ckpts[s].made <= 1
           /\ \A n \in Names : ckpts[s].backup[n] \notin {Own(f, "torn") : f \in Files}

\* After one mishap the string of a file is not lost: it is in the file, in
\* the source catalog, in a checkpoint that a rollback would restore it from,
\* or in a run that has yet to write it.
TextRecoverable ==
    OneMishap => \A f \in Files :
        \/ code[f] = Own(f, "literal") \/ src[f] = "original"
        \/ InCheckpoint(f) \/ InRun(f)

\* Between runs that took turns, code that refers to a key finds the string
\* it replaced under that key in the source catalog, not a made-up text.
SourceKnowsCode ==
    InTurn /\ Smooth =>
        \A f \in Files : code[f] = Own(f, "refs") => src[f] = "original"

\* What a person wrote into a catalog (an empty value is none) is lost only to
\* the next edit, if a write fails, or to a run that replaces everything, that
\* read the catalog before the person wrote, or whose critic flagged the key
\* (in any locale).
PersonKept ==
    [][\A l \in Locales, f \in Files :
          cat[l][f].by = "person" /\ ~Missing(cat[l][f]) /\ cat'[l][f] # cat[l][f] =>
              \/ spent'.mishaps # spent.mishaps \/ spent'.edits # spent.edits
              \/ \E r \in Runs : /\ run[r].at = "targets"
                                 /\ \/ run[r].mode = "replace"
                                    \/ run[r].known[l][f] # cat[l][f]
                                    \/ f \in run[r].flagged]_pipeVars

\* What a run writes is what its report speaks of: every key has a value, and
\* the report says passed exactly if no value has lost a placeholder.
ReportTrue ==
    \A r \in Runs : run[r].at \in {"code", "targets"} =>
        /\ run[r].passed = Passes(r, run[r].data)
        /\ \A l \in Locales, f \in KeysOf(r) : run[r].data[l][f] # None

\* Between runs that took turns, the memory on disk has for a text the value
\* that the catalogs have from it, never one that the critic sent back.
MemoryAgrees ==
    InTurn /\ Smooth =>
        \A l \in Locales, f \in Files :
            LET v == cat[l][f] IN
            v # None /\ v.by \in {"model", "fallback"} => saved[l][v.of] = v

\* All of what a state between two steps of the runs may be.
PipelineInv == PipelineTypeOK /\ ReportTrue /\ MemoryAgrees

\* A rollback gives each file of the checkpoint the content it had.
RestoreExact ==
    [][\A s \in DOMAIN ckpts :
          Restore(s) => \A f \in ckpts[s].files : code'[f] = ckpts[s].was[f]]_pipeVars
=============================================================================
