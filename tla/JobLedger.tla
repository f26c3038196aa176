------------------------------ MODULE JobLedger ------------------------------
(***************************************************************************)
(* What the job queue promises, without workers, sandboxes or GitHub: a    *)
(* job is submitted once, started once and ended once; an ended job never  *)
(* changes again, except that a purge may remove it; an automatic job is   *)
(* published only if no job of its key is, and skipped only if one is.     *)
(*                                                                         *)
(* A key stands for what was localized: repository, commit, settings.      *)
(***************************************************************************)
CONSTANTS Jobs, Keys, NoKey

VARIABLE ledger   \* state, key and origin of each job

States == {"none", "pending", "running", "published", "skipped", "failed", "deleted"}

Entry(state, key, auto) == [state |-> state, key |-> key, auto |-> auto]

Published(key) == \E i \in Jobs : ledger[i].state = "published" /\ ledger[i].key = key

LedgerInit == ledger = [j \in Jobs |-> Entry("none", NoKey, FALSE)]

Submit(j) ==
    /\ ledger[j].state = "none"
    /\ \E auto \in BOOLEAN :
           ledger' = [ledger EXCEPT ![j] = Entry("pending", NoKey, auto)]

Start(j) ==
    /\ ledger[j].state = "pending"
    /\ ledger' = [ledger EXCEPT ![j].state = "running"]

Publish(j, key) ==
    /\ ledger[j].state = "running"
    /\ ledger[j].auto => ~ Published(key)
    /\ ledger' = [ledger EXCEPT ![j].state = "published", ![j].key = key]

Skip(j, key) ==
    /\ ledger[j].state = "running"
    /\ ledger[j].auto
    /\ Published(key)
    /\ ledger' = [ledger EXCEPT ![j].state = "skipped", ![j].key = key]

Fail(j) ==
    /\ ledger[j].state = "running"
    /\ ledger' = [ledger EXCEPT ![j].state = "failed"]

\* Removed jobs leave nothing, not even their key.
Purge(S) ==
    /\ \A j \in S : ledger[j].state \notin {"none", "deleted"}
    /\ ledger' = [j \in Jobs |-> IF j \in S THEN Entry("deleted", NoKey, FALSE)
                                 ELSE ledger[j]]

LedgerNext ==
    \/ \E j \in Jobs : Submit(j) \/ Start(j) \/ Fail(j)
    \/ \E j \in Jobs, key \in Keys : Publish(j, key) \/ Skip(j, key)
    \/ \E S \in SUBSET Jobs : Purge(S)

LedgerSpec == LedgerInit /\ [][LedgerNext]_ledger
=============================================================================
