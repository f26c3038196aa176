------------------------------- MODULE Download -------------------------------
(***************************************************************************)
(* EnsureNLLBModel (pkg/llm/nllb_downloader.go): the web studio, the       *)
(* terminal and the command line fetch the model file through one          *)
(* temporary path, without a lock.                                         *)
(*                                                                         *)
(* A file is an inode, its content the mirror each of its blocks is from;  *)
(* the temporary and the final path are names of inodes.  A block is more  *)
(* than 1 MB, so a file of none is not taken for the model.                *)
(***************************************************************************)
EXTENDS Naturals

CONSTANTS
    Fetchers,  \* calls of EnsureNLLBModel
    Mirrors,   \* number of URLs
    Blocks,    \* blocks of the model
    Absent     \* no inode, and the content of a block nobody wrote

\* A call creates a file for each mirror at most: it is named for both.
Inodes == Fetchers \X (1 .. Mirrors)

ASSUME DownloadAssumption ==
    Mirrors \in Nat \ {0} /\ Blocks \in Nat \ {0} /\ Absent \notin Nat \cup Inodes

VARIABLES
    fetch,     \* the calls
    content,   \* content of the inodes
    temp,      \* inode of <path>.downloading
    model,     \* inode of <path>
    cut,       \* history: a mirror ended its answer early
    together   \* history: two calls were fetching at the same time

downloadVars == <<fetch, content, temp, model, cut, together>>

Empty  == [b \in 1 .. Blocks |-> Absent]
Fetching == {f \in Fetchers : fetch[f].state = "streaming"}

DownloadTypeOK ==
    /\ fetch \in [Fetchers -> [state : {"idle", "asking", "streaming", "returned", "failed"},
                               mirror : 1 .. Mirrors, out : Inodes \cup {Absent}, done : 0 .. Blocks]]
    /\ content \in [Inodes -> {Absent} \cup [1 .. Blocks -> (1 .. Mirrors) \cup {Absent}]]
    /\ temp \in Inodes \cup {Absent} /\ model \in Inodes \cup {Absent}
    /\ cut \in BOOLEAN /\ together \in BOOLEAN

DownloadInit ==
    /\ fetch = [f \in Fetchers |-> [state |-> "idle", mirror |-> 1, out |-> Absent, done |-> 0]]
    /\ content = [i \in Inodes |-> Absent]
    /\ temp = Absent /\ model = Absent /\ cut = FALSE /\ together = FALSE
-----------------------------------------------------------------------------
\* IsNLLBModelDownloaded: any file of more than 1 MB will do.
Downloaded == model # Absent /\ content[model] # Empty

Ensure(f) ==
    /\ fetch[f].state = "idle"
    /\ fetch' = [fetch EXCEPT ![f].state = IF Downloaded THEN "returned" ELSE "asking"]
    /\ UNCHANGED <<content, temp, model, cut, together>>

\* What is left of the loop over the mirrors.
NextMirror(f) ==
    fetch' = [fetch EXCEPT ![f] =
        IF @.mirror = Mirrors THEN [@ EXCEPT !.state = "failed", !.out = Absent]
        ELSE [@ EXCEPT !.state = "asking", !.mirror = fetch[f].mirror + 1, !.out = Absent, !.done = 0]]

MirrorFails(f) ==
    /\ fetch[f].state = "asking"
    /\ NextMirror(f)
    /\ UNCHANGED <<content, temp, model, cut, together>>

\* The directory or the temporary file cannot be created: the call ends.
CreateFails(f) ==
    /\ fetch[f].state = "asking"
    /\ fetch' = [fetch EXCEPT ![f].state = "failed"]
    /\ UNCHANGED <<content, temp, model, cut, together>>

\* os.Create empties the file there is, whoever is writing to it.
MirrorAnswers(f) ==
    /\ fetch[f].state = "asking"
    /\ LET i == IF temp # Absent THEN temp ELSE <<f, fetch[f].mirror>> IN
       /\ fetch' = [fetch EXCEPT ![f].state = "streaming", ![f].out = i, ![f].done = 0]
       /\ content' = [content EXCEPT ![i] = Empty]
       /\ temp' = i
    /\ together' = (together \/ Fetching # {})
    /\ UNCHANGED <<model, cut>>

\* A block is written at the place this call has got to.
Write(f) ==
    /\ fetch[f].state = "streaming" /\ fetch[f].done < Blocks
    /\ content' = [content EXCEPT ![fetch[f].out][fetch[f].done + 1] = fetch[f].mirror]
    /\ fetch' = [fetch EXCEPT ![f].done = @ + 1]
    /\ UNCHANGED <<temp, model, cut, together>>

\* Mistake: the temporary file stays.
KeepTemp == UNCHANGED temp

RemoveTemp == temp' = Absent

\* Mistake: a broken connection is taken for the end of the body.
StreamBreaksOff(f) ==
    /\ fetch[f].state = "streaming" /\ temp # Absent
    /\ fetch' = [fetch EXCEPT ![f].state = "returned", ![f].out = Absent]
    /\ model' = temp /\ temp' = Absent
    /\ UNCHANGED <<content, cut, together>>

\* The connection breaks, or the disk is full: the next mirror.
StreamFails(f) ==
    /\ fetch[f].state = "streaming"
    /\ RemoveTemp
    /\ NextMirror(f)
    /\ UNCHANGED <<content, model, cut, together>>

\* The page that asked for the model is closed, or the rename fails.
Abandon(f) ==
    /\ fetch[f].state = "streaming"
    /\ RemoveTemp
    /\ fetch' = [fetch EXCEPT ![f].state = "failed", ![f].out = Absent]
    /\ UNCHANGED <<content, model, cut, together>>

\* The body ends, at the length that was announced or before: whatever the
\* temporary path names becomes the model.
Install(f) ==
    /\ fetch[f].state = "streaming"
    /\ cut' = (cut \/ fetch[f].done < Blocks)
    /\ IF temp = Absent
       THEN /\ fetch' = [fetch EXCEPT ![f].state = "failed", ![f].out = Absent]
            /\ UNCHANGED <<temp, model>>
       ELSE /\ fetch' = [fetch EXCEPT ![f].state = "returned", ![f].out = Absent]
            /\ model' = temp /\ temp' = Absent
    /\ UNCHANGED <<content, together>>

DownloadNext ==
    \E f \in Fetchers :
        \/ Ensure(f) \/ MirrorFails(f) \/ CreateFails(f) \/ MirrorAnswers(f) \/ Write(f)
        \/ StreamFails(f) \/ Abandon(f) \/ Install(f)

DownloadSpec == DownloadInit /\ [][DownloadNext]_downloadVars
-----------------------------------------------------------------------------
\* The model in place is the whole file of one mirror, however many mirrors
\* broke off before, if no two calls were fetching at once and no mirror ended
\* its answer early: such a file is damaged, and taken for the model for ever.
ModelWhole ==
    model # Absent /\ ~cut /\ ~together =>
        \E m \in 1 .. Mirrors : content[model] = [b \in 1 .. Blocks |-> m]

\* When nobody fetches any more no temporary file is left, even if calls took
\* the file from each other; and a call that returned its path has a model.
NothingLeft ==
    /\ Fetching = {} => temp = Absent
    /\ (\E f \in Fetchers : fetch[f].state = "returned") => model # Absent

\* All of what a state of the download may be.
DownloadInv == DownloadTypeOK /\ ModelWhole /\ NothingLeft
=============================================================================
