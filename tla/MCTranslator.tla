----------------------------- MODULE MCTranslator -----------------------------
(***************************************************************************)
(* The way from keys to texts for TLC: a call of the translator, the calls *)
(* of models, and the download of the model for calls without a network.   *)
(* The three share no variable.  A behaviour runs one of them; the last    *)
(* two begin when a call of the translator without a model has returned.   *)
(*                                                                         *)
(* The translator has two keys with one text, a text of the glossary and a *)
(* text of the dictionary that fills a chunk alone.  The model client has  *)
(* a text of two short segments, one whose middle segment fills a chunk    *)
(* alone, and one of a single segment; batches end within a text.          *)
(***************************************************************************)
EXTENDS Translator, Completion, Download, TLC

CONSTANTS k1, k2, k3, k4, save, title, brand, c1, c2, p1, p2

VARIABLE part

SourceKeys == k1 :> save @@ k2 :> save @@ k3 :> title @@ k4 :> brand
WordCounts == save :> 1 @@ title :> 3 @@ brand :> 1

None3(v)   == [l \in Limits |-> v]
ByProject  == [None3(0) EXCEPT !["calls"] = 1]
ByEnv      == [None3(-1) EXCEPT !["words"] = 3]
ByProvider == [None3(9) EXCEPT !["keys"] = 2]

Home == c1 :> p1 @@ c2 :> p2
Long == <<<<1, 1>>, <<2, 1, 2>>, <<1>>>>

ModelsInit ==
    /\ part \in {"translator", "completion", "download"}
    /\ TranslatorInit /\ CompletionInit /\ DownloadInit
    /\ part # "translator" =>
          call.offline /\ call.feedback = {} /\ \A t \in Memory : memory[t] = None
    /\ part # "completion" => usage = 0

\* The keys of the first call are visited in some one order.
InOrder == \A k \in todo \ todo' : k = CHOOSE l \in todo : TRUE

TranslatorPart == /\ TranslatorNext
                  /\ part # "translator" => ~cancelled' /\ InOrder
                  /\ UNCHANGED <<completionVars, downloadVars>>
CompletionPart == /\ part = "completion" /\ at = "done" /\ CompletionNext
                  /\ UNCHANGED <<vars, downloadVars>>
DownloadPart   == /\ part = "download" /\ at = "done" /\ DownloadNext
                  /\ UNCHANGED <<vars, completionVars>>

ModelsNext == (TranslatorPart \/ CompletionPart \/ DownloadPart) /\ UNCHANGED part

modelsVars == <<vars, completionVars, downloadVars, part>>

\* The fairness of TranslatorFair and of CompletionFair.
ModelsFair ==
    /\ ModelsInit /\ [][ModelsNext]_modelsVars
    /\ WF_vars(Loop)
    /\ \A b \in SUBSET Keys : WF_vars(b \in batches /\ at = "ask" /\ Goroutine(b))
    /\ \A c \in Callers : WF_completionVars(CallStep(c))
    /\ \A p \in Processes :
          WF_completionVars(part = "completion" /\ at = "done" /\ Track(p))

\* Every call comes back: of the translator, and of a model.
CallsReturn == Returns /\ CallsEnd
=============================================================================
