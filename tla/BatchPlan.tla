------------------------------ MODULE BatchPlan ------------------------------
(***************************************************************************)
(* planBatches: the symbols one run asks the model about, sorted by file   *)
(* and line and packed into calls.  A symbol nested in another is shown as *)
(* a line range of its container's snippet when the container is in the    *)
(* same call, before it, and its snippet reaches that far: a family (a     *)
(* container and what it nests) is placed whole when it fits one call.     *)
(* A step places one family, or one member of a family too big for a call. *)
(***************************************************************************)
EXTENDS Integers, Sequences, FiniteSets

CONSTANTS
    N,            \* symbols, numbered in the order of the sort
    MaxSymbols,   \* MAX_SYMBOLS_PER_CALL
    MaxTokens,    \* MAX_REQUEST_INPUT_TOKENS
    Overhead,     \* PROMPT_OVERHEAD_TOKENS
    Facts,        \* PER_SYMBOL_FACTS_TOKENS
    Pointer,      \* SNIPPET_POINTER_TOKENS
    Costs         \* the tokens a snippet can cost, up to MAX_SNIPPET_CHARS

Nodes == 1 .. N

ASSUME PlanAssumption ==
    /\ N \in Nat /\ MaxSymbols \in Nat \ {0} /\ MaxTokens \in Nat
    /\ Overhead \in Nat /\ Facts \in Nat /\ Pointer \in Nat /\ Costs \subseteq Nat

VARIABLES
    parent,    \* the container of a symbol, 0 when it has none in this run
    inWindow,  \* the symbol's lines are in the part of the snippet that is sent
    cost,      \* the tokens of its own snippet
    families,  \* families still to place
    half,      \* the first of them is being placed member by member
    batches, current, currentTokens

planVars == <<parent, inWindow, cost, families, half, batches, current, currentTokens>>

\* planSnippetDedupe: who cites a container instead of repeating its code.
Pointers(s) == {i \in 1 .. Len(s) :
    /\ inWindow[s[i]]
    /\ \E j \in 1 .. i - 1 : s[j] = parent[s[i]]}

\* estimateBatchTokens: what each symbol of a call costs, added up.
Price(s, i) == Facts + IF i \in Pointers(s) THEN Pointer ELSE cost[s[i]]
Tokens(s) ==
    LET upTo[i \in 0 .. Len(s)] == IF i = 0 THEN Overhead ELSE upTo[i - 1] + Price(s, i)
    IN  upTo[Len(s)]

\* A set of symbols in the order of the sort: the i-th has i - 1 before it.
Sorted == [S \in SUBSET Nodes |->
    [i \in 1 .. Cardinality(S) |-> CHOOSE x \in S : Cardinality({y \in S : y < x}) = i - 1]]

\* groupFamilies: the outermost container, at most four steps up.
Up(n)   == IF parent[n] = 0 THEN n ELSE parent[n]
Top     == [n \in Nodes |-> Up(Up(Up(Up(n))))]
Family  == [h \in Nodes |-> Sorted[{n \in Nodes : Top[n] = h}]]
Firsts  == {n \in Nodes : \A m \in 1 .. n - 1 : Top[m] # Top[n]}
HeadsInOrder == [i \in 1 .. Cardinality(Firsts) |-> Family[Top[Sorted[Firsts][i]]]]

Nested(f) == \A n \in Nodes : f[n] # 0 => f[n] # n /\ f[f[n]] = 0

PlanInit ==
    /\ parent \in {f \in [Nodes -> 0 .. N] : Nested(f)}
    /\ inWindow \in [Nodes -> BOOLEAN] /\ cost \in [Nodes -> Costs]
    /\ families = HeadsInOrder /\ half = FALSE
    /\ batches = <<>> /\ current = <<>> /\ currentTokens = Overhead

\* flush, when asked to.
Flushed(yes) == IF yes /\ current # <<>>
    THEN [batches |-> Append(batches, current), current |-> <<>>, tokens |-> Overhead]
    ELSE [batches |-> batches, current |-> current, tokens |-> currentTokens]

FitsOne(family) == Len(family) <= MaxSymbols /\ Tokens(family) <= MaxTokens

\* A family that fits one call is placed whole, in a new call when the
\* current one has no room for it.
PlaceFamily ==
    /\ families # <<>> /\ ~half /\ FitsOne(Head(families))
    /\ LET family == Head(families)
           more == Tokens(family) - Overhead
           f == Flushed(\/ Len(current) + Len(family) > MaxSymbols
                        \/ current # <<>> /\ currentTokens + more > MaxTokens)
       IN /\ batches' = f.batches /\ current' = f.current \o family
          /\ currentTokens' = f.tokens + more
    /\ families' = Tail(families)
    /\ UNCHANGED <<parent, inWindow, cost, half>>

\* Any family may be split over two calls.
PlaceMemberAny ==
    /\ families # <<>>
    /\ LET family == Head(families)
           n == Head(family)
           f == Flushed(\/ Len(current) >= MaxSymbols
                        \/ current # <<>> /\ Tokens(Append(current, n)) > MaxTokens)
       IN /\ batches' = f.batches /\ current' = Append(f.current, n)
          /\ currentTokens' = Tokens(Append(f.current, n))
          /\ families' = IF Len(family) = 1 THEN Tail(families)
                         ELSE <<Tail(family)>> \o Tail(families)
          /\ half' = (Len(family) > 1)
    /\ UNCHANGED <<parent, inWindow, cost>>

\* A family too big for one call goes member by member.
PlaceMember ==
    /\ families # <<>> /\ (half \/ ~FitsOne(Head(families)))
    /\ LET family == Head(families)
           n == Head(family)
           f == Flushed(\/ Len(current) >= MaxSymbols
                        \/ current # <<>> /\ Tokens(Append(current, n)) > MaxTokens)
       IN /\ batches' = f.batches /\ current' = Append(f.current, n)
          /\ currentTokens' = Tokens(Append(f.current, n))
          /\ families' = IF Len(family) = 1 THEN Tail(families)
                         ELSE <<Tail(family)>> \o Tail(families)
          /\ half' = (Len(family) > 1)
    /\ UNCHANGED <<parent, inWindow, cost>>

Flush ==
    /\ families = <<>> /\ current # <<>>
    /\ batches' = Append(batches, current) /\ current' = <<>> /\ currentTokens' = Overhead
    /\ UNCHANGED <<parent, inWindow, cost, families, half>>

PlanNext == PlaceFamily \/ PlaceMember \/ Flush
PlanSpec == PlanInit /\ [][PlanNext]_planVars

------------------------------------------------------------------------------
PlanTypeOK ==
    /\ parent \in [Nodes -> 0 .. N] /\ inWindow \in [Nodes -> BOOLEAN]
    /\ cost \in [Nodes -> Costs]
    /\ families \in Seq(Seq(Nodes)) /\ batches \in Seq(Seq(Nodes))
    /\ current \in Seq(Nodes) /\ currentTokens \in Nat /\ half \in BOOLEAN

Planned == families = <<>> /\ current = <<>>

\* Every symbol is in one call, once: none is lost between two flushes.
Slots == UNION {{<<i, j>> : j \in 1 .. Len(batches[i])} : i \in 1 .. Len(batches)}
EachOnce == Planned =>
    \A n \in Nodes : \E p \in Slots : \A q \in Slots : batches[q[1]][q[2]] = n <=> q = p

\* A call is within both caps, unless one symbol alone exceeds the tokens.
WithinCaps == \A i \in 1 .. Len(batches) :
    /\ Len(batches[i]) <= MaxSymbols
    /\ Len(batches[i]) > 1 => Tokens(batches[i]) <= MaxTokens

\* The running estimate is the cost of what will be rendered: no pointer
\* crosses two families, so the costs of families add up.
EstimateExact == currentTokens = Tokens(current)

\* A family that fits one call is in one call, and there each symbol its
\* container's snippet covers is a pointer, not a second copy.
FamiliesWhole == Planned => \A h \in Nodes : parent[h] = 0 /\ FitsOne(Family[h]) =>
    \E i \in 1 .. Len(batches) : \A n \in Nodes : Top[n] = h => \E j \in 1 .. Len(batches[i]) : batches[i][j] = n

==============================================================================
