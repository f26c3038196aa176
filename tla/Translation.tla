----------------------------- MODULE Translation -----------------------------
(***************************************************************************)
(* What the translator of langpeanut_local works on, for one target locale *)
(* (pkg/agents/translator.go, pkg/memory/memory.go): source texts, their   *)
(* values, the order in which the places a value can come from are asked.  *)
(*                                                                         *)
(* Abstractions.  A value is the text it was made for, its origin, and     *)
(* what the critic can tell of it: "whole", "long" (much longer than the   *)
(* text), "broken" (lacks a placeholder of the text) or "blank".  The      *)
(* memory is the part of the translation memory that belongs to the        *)
(* locale: its keys are hashes of text and locale, so locales never meet.  *)
(***************************************************************************)
EXTENDS Integers, FiniteSets

CONSTANTS
    Keys,       \* keys of the source catalog
    Texts,      \* source texts
    Source,     \* the source catalog: the text of each key
    Glossary,   \* texts for which the project glossary has a value
    Dictionary, \* texts in the built-in dictionary of the locale
    Forms,      \* forms of what a model may answer
    Unasked     \* the empty text that Go finds for a key a batch lacks

ASSUME TranslationAssumption ==
    /\ IsFiniteSet(Keys)
    /\ Source \in [Keys -> Texts]
    /\ Glossary \subseteq Texts
    /\ Dictionary \subseteq Texts
    /\ Forms \subseteq {"whole", "long", "broken", "blank"}
    /\ Unasked \notin Texts

Origins == {"glossary", "dictionary", "model", "fallback", "earlier", "legacy", "person"}

\* What a call is given: the keys the critic flagged (criticFeedback), and
\* whether there is no model, or only the local one.
Call == [feedback : SUBSET Keys, offline : BOOLEAN]

Value == [of : Texts \cup {Unasked}, by : Origins, form : {"whole", "long", "broken", "blank"}]

Made(t, origin) == [of |-> t, by |-> origin, form |-> "whole"]

\* No value: the key or text is not in the map.
None == [of |-> Unasked, by |-> "none", form |-> "none"]

\* What a model may answer when asked for t.
Answers(t) == {[of |-> t, by |-> "model", form |-> f] : f \in Forms}

\* translateStringFallback; placeholders that get lost are put back.
Fallback(t) == Made(t, IF t \in Dictionary THEN "dictionary" ELSE "fallback")

InGlossary(k) == Source[k] \in Glossary

\* The memory has a value for the key that may be used: the critic did not
\* ask for another, and it has none of the prefixes of old versions.
InMemory(k, mem, call) ==
    /\ k \notin call.feedback
    /\ mem[Source[k]] # None
    /\ mem[Source[k]].by # "legacy"

InDictionary(k, call) == call.offline /\ Source[k] \in Dictionary

\* Where TranslateLocale takes the value of a key from before it asks a model.
Lookup(k, mem, call) ==
    IF InGlossary(k) THEN Made(Source[k], "glossary")
    ELSE IF InMemory(k, mem, call) THEN mem[Source[k]]
    ELSE IF InDictionary(k, call) THEN Made(Source[k], "dictionary")
    ELSE None

(***************************************************************************)
(* What a call may return for a key, given the memory it started with:     *)
(* what the lookup finds, where it finds nothing an answer or a fallback.  *)
(* A key whose text another key has just looked up in the dictionary may   *)
(* find that instead of the older value in the memory.                     *)
(***************************************************************************)
MayReturn(k, mem, call) ==
    LET found == Lookup(k, mem, call) IN
    (IF found # None THEN {found} ELSE Answers(Source[k]) \cup {Fallback(Source[k])})
    \cup (IF ~InGlossary(k) /\ InDictionary(k, call)
          THEN {Made(Source[k], "dictionary")} ELSE {})
=============================================================================
