-------------------------------- MODULE Patches --------------------------------
(***************************************************************************)
(* Rewriting a React file: GenerateRefactorPlan of pkg/platforms/          *)
(* react_ts.go draws the plan, ApplyRefactorPlan of pkg/agents/            *)
(* patch_engine.go carries it out.  Candidates are byte ranges of the file *)
(* as it was scanned; the plan replaces them by calls of t, gives each     *)
(* component the hook that defines t, imports useTranslation, makes the    *)
(* file a client component and refuses a result that does not parse.       *)
(*                                                                         *)
(* A file is a sequence of tokens, each a stretch of it that no patch      *)
(* divides; positions of tokens stand for byte offsets.  The other         *)
(* platforms replace their ranges the same way and have no hooks.          *)
(***************************************************************************)
EXTENDS Integers, Sequences, FiniteSets, SequencesExt

CONSTANTS
    Layouts,       \* the files a project may begin with
    MaxEdits       \* components a developer adds

VARIABLES
    file,
    latecomers,    \* history: texts that became calls when t was in the file already
    edits

patchVars == <<file, latecomers, edits>>

(* "block" and "arrow" open a component with a statement block or an       *)
(* expression for its body, "end" closes either.  "open" and "rest" are    *)
(* the lines of an import of several.  "i18n" is the very line that the    *)
(* plan requires, "combined" an import of useTranslation in another form.  *)
TokenKinds == {"comment", "client", "i18n", "combined", "import", "open", "rest",
          "block", "arrow", "end", "text", "call", "hook", "code"}
Components == {"block", "arrow"}

AllTokens   == [kind : TokenKinds, of : Seq(Nat)]
Token(kind) == [kind |-> kind, of |-> <<>>]
Text(n)     == [kind |-> "text", of |-> <<n>>]
Tokens(f, k)    == {i \in DOMAIN f : f[i].kind = k}
TokensOf(f, ks) == {i \in DOMAIN f : f[i].kind \in ks}

\* What the file says, in order: no rewrite may change it.  Tokens that the
\* engine adds say nothing.
Content(f) == FlattenSeq([i \in DOMAIN f |-> f[i].of])
-----------------------------------------------------------------------------
(***************************************************************************)
(* The syntax tree.                                                        *)
(***************************************************************************)
Depth(f, i, k) == Cardinality({j \in i .. k : f[j].kind \in Components})
                  - Cardinality({j \in i .. k : f[j].kind = "end"})

Closing(f, i, k) == Depth(f, i, k) = 0 /\ \A j \in i .. k - 1 : Depth(f, i, j) > 0

Closes(f, i) == CHOOSE k \in i .. Len(f) : Closing(f, i, k)

Balanced(f) ==
    /\ Cardinality(TokensOf(f, Components)) = Cardinality(Tokens(f, "end"))
    /\ \A i \in TokensOf(f, Components) : \E k \in i .. Len(f) : Closing(f, i, k)

Around(f, i) == {j \in TokensOf(f, Components) : j < i /\ i < Closes(f, j)}

\* The innermost component or hook around i, 0 if it is at module scope.
Enclosing(f, i) == LET a == Around(f, i) IN IF a = {} THEN 0 ELSE CHOOSE j \in a : \A k \in a : k <= j

\* tree-sitter's verdict: an import inside the braces of another is an error.
ParsesCleanly(f) ==
    ~\E i \in Tokens(f, "open"), k \in Tokens(f, "rest"), j \in Tokens(f, "i18n") :
        i < j /\ j < k /\ ~\E m \in Tokens(f, "rest") : i < m /\ m < j
-----------------------------------------------------------------------------
PatchTypeOK ==
    /\ file \in Seq(AllTokens) /\ Balanced(file)
    /\ latecomers \subseteq ToSet(Content(file)) /\ edits \in 0 .. MaxEdits

\* The directive is one and comes before everything but comments, the import
\* line of the plan is one.
HeaderOf(f) ==
    /\ Cardinality(Tokens(f, "i18n")) <= 1 /\ Cardinality(Tokens(f, "client")) <= 1
    /\ \A i \in Tokens(f, "client"), j \in DOMAIN f : j < i => f[j].kind = "comment"

\* A file of a project parses, is not rewritten yet, and no two of its texts are
\* the same one.
ASSUME PatchAssumption ==
    /\ MaxEdits \in Nat
    /\ \A f \in Layouts :
          /\ f \in Seq(AllTokens) /\ Balanced(f) /\ HeaderOf(f) /\ Tokens(f, "call") = {}
          /\ \A i \in Tokens(f, "text") : f[i].of # <<>>
          /\ IsInjective(Content(f)) /\ ToSet(Content(f)) \subseteq 1 .. Len(Content(f))

PatchInit == file \in Layouts /\ latecomers = {} /\ edits = 0
-----------------------------------------------------------------------------
(***************************************************************************)
(* The plan.  A patch replaces positions from .. to - 1; an insertion has  *)
(* to = from.                                                              *)
(***************************************************************************)
\* A text, or an interpolation of two texts around an expression, which the
\* scanner may report along with its parts.
Candidates(f) ==
    {p \in {<<i, i + n>> : i \in DOMAIN f, n \in 1 .. 2} :
        p[2] <= Len(f) + 1 /\ \A i \in p[1] .. p[2] - 1 : f[i].kind = "text"}

\* Beside components, only texts inside one are replaced.
InScope(f, c) == TokensOf(f, Components) # {} => Enclosing(f, c[1]) # 0

Call(f, c) == [from |-> c[1], to |-> c[2],
               by |-> [kind |-> "call", of |-> Content(SubSeq(f, c[1], c[2] - 1))]]
Hook(i)    == [from |-> i + 1, to |-> i + 1, by |-> Token("hook")]

\* Mistake: the loop ends at its first component.
FirstHookWanted(f, calls) ==
    {i \in {Enclosing(f, p.from) : p \in calls} \cap Tokens(f, "block") :
        \A p \in calls : i <= Enclosing(f, p.from)}

HooksWanted(f, calls) == {Enclosing(f, p.from) : p \in calls} \cap Tokens(f, "block")

\* Hooks go to the blocks that directly hold a call, else to the first block.
injectComponentHooks(f, calls) ==
    LET wanted == HooksWanted(f, calls)
        first  == {i \in Tokens(f, "block") : \A j \in Tokens(f, "block") : i <= j}
    IN  IF calls = {} \/ Tokens(f, "hook") # {} THEN calls
        ELSE calls \cup {Hook(i) : i \in IF wanted = {} THEN first ELSE wanted}

GenerateRefactorPlan(f, approved) ==
    injectComponentHooks(f, {Call(f, c) : c \in {d \in approved : InScope(f, d)}})
-----------------------------------------------------------------------------
(***************************************************************************)
(* Carrying it out.                                                        *)
(***************************************************************************)
\* From the end of the file, the longer first where two begin together.
Later(p, q) == \/ p.from > q.from
               \/ p.from = q.from /\ p.to > q.to

Descending(patches) ==
    LET sorted[ps \in SUBSET patches] ==
            IF ps = {} THEN <<>>
            ELSE LET last == CHOOSE p \in ps : \A q \in ps \ {p} : Later(q, p)
                 IN  Append(sorted[ps \ {last}], last)
    IN  sorted[patches]

\* Mistake: the bound is compared with the wrong end.
StartsInside(p, start) == p.from > start

\* A patch that reaches into one already taken is dropped.
ReachesInto(p, start) == p.to > start

Keep(kept, p) ==
    IF kept # <<>> /\ ReachesInto(p, Last(kept).from) THEN kept ELSE Append(kept, p)

Clean(patches) ==
    LET ps == Descending(patches)
        kept[i \in 0 .. Len(ps)] == IF i = 0 THEN <<>> ELSE Keep(kept[i - 1], ps[i])
    IN  kept[Len(ps)]

Splice(f, p) == SubSeq(f, 1, p.from - 1) \o <<p.by>> \o SubSeq(f, p.to, Len(f))

Replaced(f, patches) ==
    LET ps == Clean(patches)
        after[i \in 0 .. Len(ps)] == IF i = 0 THEN f ELSE Splice(after[i - 1], ps[i])
    IN  after[Len(ps)]

\* A line that starts with "import": the first one of an import of several.
ImportLines == {"import", "combined", "open", "i18n"}

Imported(f) ==
    LET imports == TokensOf(f, ImportLines)
        last    == IF imports # {} THEN CHOOSE i \in imports : \A j \in imports : j <= i
                   ELSE IF Tokens(f, "client") # {} THEN CHOOSE i \in Tokens(f, "client") : TRUE ELSE 0
    IN  InsertAt(f, last + 1, Token("i18n"))

\* The plan's line is looked for letter by letter: an import of useTranslation
\* in another form does not count, and gets that line beside it.
injectImport(f) == IF Tokens(f, "i18n") # {} THEN f ELSE Imported(f)

EnsureUseClientDirective(f) ==
    LET rest  == DOMAIN f \ Tokens(f, "comment")
        first == CHOOSE i \in rest : \A j \in rest : i <= j
    IN  IF f[first].kind = "client" THEN f ELSE InsertAt(f, first, Token("client"))

ApplyRefactorPlan(f, patches) == EnsureUseClientDirective(injectImport(Replaced(f, patches)))

\* One file of runLocalization; nothing but the file scanned is read.  The
\* import and the directive are added even if no candidate was in scope.
Localize ==
    \E approved \in SUBSET Candidates(file) :
        LET done == ApplyRefactorPlan(file, GenerateRefactorPlan(file, approved))
            new  == {Content(<<done[i]>>) : i \in Tokens(done, "call")}
                        \ {Content(<<file[i]>>) : i \in Tokens(file, "call")}
        IN  /\ approved # {} /\ ParsesCleanly(done)
            /\ file' = done
            /\ latecomers' = IF Tokens(file, "hook") = {} THEN latecomers
                             ELSE latecomers \cup UNION {ToSet(s) : s \in new}
            /\ UNCHANGED edits

\* The error of one file ends the run of all.
Refuse ==
    /\ \E c \in Candidates(file) :
          ~ParsesCleanly(ApplyRefactorPlan(file, GenerateRefactorPlan(file, {c})))
    /\ UNCHANGED patchVars

\* A developer adds a component, or a text to the last one, between two runs.
Write ==
    /\ edits < MaxEdits /\ edits' = edits + 1
    /\ LET n == 1 + Len(Content(file))
           last == Tokens(file, "end")
       IN  \/ file' = file \o <<Token("block"), Text(n), Token("end")>>
           \/ /\ last # {}
              /\ file' = InsertAt(file, CHOOSE i \in last : \A j \in last : j <= i, Text(n))
    /\ UNCHANGED latecomers

PatchNext == Localize \/ Refuse \/ Write
PatchSpec == PatchInit /\ [][PatchNext]_patchVars
-----------------------------------------------------------------------------
(***************************************************************************)
(* Properties                                                              *)
(***************************************************************************)
\* However candidates overlap, a rewrite loses no text and no code of the
\* file, doubles none and keeps their order: the sort and the running bound of
\* ApplyRefactorPlan together keep every offset of the old file valid.  (Every
\* token of a layout says something; the brackets of a component added later
\* do not, and PatchTypeOK counts those.)
NothingLost == [][edits' = edits => Content(file') = Content(file)]_patchVars

\* A file with a call has the import line of the plan once, after the directive,
\* and has one directive, before everything but comments; run after run.  If
\* the file imported useTranslation in another form it does so twice now, and
\* parses all the same.
HeaderInOrder ==
    /\ HeaderOf(file)
    /\ Tokens(file, "call") # {} => Tokens(file, "i18n") # {} /\ Tokens(file, "client") # {}

HasHook(f, i) ==
    \E k \in Tokens(f, "hook"), j \in Around(f, i) : k < i /\ Enclosing(f, k) = j

\* A call that stands directly in a component with a block has t in its scope,
\* unless it was made in a file that used the hook already.
HooksInScope ==
    \A i \in Tokens(file, "call") :
        Enclosing(file, i) \in Tokens(file, "block") =>
            HasHook(file, i) \/ ToSet(file[i].of) \cap latecomers # {}

\* All of what a rewritten file may be.
PatchInv == PatchTypeOK /\ HeaderInOrder /\ HooksInScope
=============================================================================
