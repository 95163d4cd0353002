----------------------------- MODULE Exclusions -----------------------------
(***************************************************************************)
(* The exclusions of a NeighborList: lists by particle tag that the script *)
(* fills from the bonds of the system, their translation to the current    *)
(* order of the particles, and the filter on the finished neighbor list.   *)
(*                                                                         *)
(* The script adds and removes particles and bonds, calls                  *)
(* reset_exclusions() and run(); a run starts with                         *)
(* update_exclusions_defaults() and computes the list in every step, with  *)
(* particles sorted in between.  All pairs of particles are in range of    *)
(* each other, so that the list holds every pair that is not excluded.     *)
(* One rank.                                                               *)
(***************************************************************************)
EXTENDS Integers, Sequences, SequencesExt, FiniteSets

CONSTANTS
    NTags,      \* bound on particle tags
    NStart,     \* particles at the start
    NBonds,     \* bound on bond tags
    MAXNBONDS,  \* one more than the bonds a particle may have
    Kinds,      \* what the script may pass to reset_exclusions()
    Rings,      \* TRUE: the script may bond particles that are connected already
    Ops         \* bound on the number of calls of the script

NoChoice == {"None"}
\* What a run asks for by itself; without rigid bodies "body" has no effect.
Default == {"body", "bond"}
Tag == 0..(NTags - 1)
NoBond == <<>>

ExclusionsAssumption ==
    /\ NTags \in Nat \ {0} /\ NStart \in 1..NTags /\ NBonds \in Nat
    /\ MAXNBONDS \in Nat \ {0} /\ Ops \in Nat /\ Rings \in BOOLEAN
    /\ \A c \in Kinds : c = NoChoice \/ c \subseteq {"bond", "1-3", "1-4"}

VARIABLES
    rtags,      \* size of the array of reverse tags: one more than the highest tag ever
    order,      \* the tags of the particles in memory
    bonds,      \* by bond tag: the two members, or NoBond
    nl,         \* the exclusions of the neighbor list
    nlist,      \* the pairs on the neighbor list, as tags
    script,     \* what the Python object remembers
    state,      \* "script", "run" or "error": an exception ended the script
    ops         \* calls so far

vars == <<rtags, order, bonds, nl, nlist, script, state, ops>>

Active == ToSet(order)
Bonds == {bonds[i] : i \in DOMAIN bonds} \ {NoBond}
Pair(a, b) == {a, b}

-----------------------------------------------------------------------------
(* NeighborList                                                             *)

isExcluded(n, a, b) == \E i \in DOMAIN n.ex_list[a] : n.ex_list[a][i] = b

\* Both particles get an entry.  The height of the lists grows by one when one
\* of the two is full.
addExclusion(n, a, b) ==
    LET full == Len(n.ex_list[a]) = n.height \/ Len(n.ex_list[b]) = n.height
        one == [n.ex_list EXCEPT ![a] = Append(@, b)]
    IN  IF isExcluded(n, a, b) THEN [n EXCEPT !.m_exclusions_set = TRUE]
        ELSE [n EXCEPT !.m_exclusions_set = TRUE, !.m_force_update = TRUE,
                       !.height = IF full THEN @ + 1 ELSE @,
                       !.ex_list = [one EXCEPT ![b] = Append(@, a)]]

addAll(n, pairs) == FoldLeft(LAMBDA m, p : addExclusion(m, p[1], p[2]), n, pairs)

clearExclusions(n) ==
    [n EXCEPT !.ex_list = [t \in Tag |-> <<>>], !.m_exclusions_set = FALSE,
              !.m_force_update = TRUE, !.m_need_reallocate_exlist = FALSE,
              !.size = IF n.m_need_reallocate_exlist THEN rtags ELSE @]

slotGlobalParticleNumberChange(n) == [n EXCEPT !.m_need_reallocate_exlist = TRUE]

addExclusionsFromBonds(n) == addAll(n, SelectSeq(bonds, LAMBDA b : b # NoBond))

\* The topological exclusions read the bonds with tags 0 to their number - 1.
nGlobal == Cardinality({i \in DOMAIN bonds : bonds[i] # NoBond})
FirstBonds == SubSeq(bonds, 1, nGlobal)
Contiguous == \A i \in DOMAIN FirstBonds : FirstBonds[i] # NoBond

\* The partners of a particle in the order of its bonds.
Partners(t) ==
    LET mine == SelectSeq(FirstBonds, LAMBDA b : t \in {b[1], b[2]})
    IN  [i \in DOMAIN mine |-> IF mine[i][1] = t THEN mine[i][2] ELSE mine[i][1]]

TooMany == \E t \in Tag : Len(Partners(t)) >= MAXNBONDS

\* The pairs of a sequence in the order of the nested loops.
Product(s, u) == FlattenSeq([i \in DOMAIN s |-> [j \in DOMAIN u |-> <<s[i], u[j]>>]])

TopologyFails == ~Contiguous \/ TooMany

addOneThreeExclusionsFromTopology(n) ==
    LET pairsOf(p) == FlattenSeq([j \in DOMAIN p |->
                          [k \in 1..(Len(p) - j) |-> <<p[j], p[j + k]>>]])
    IN  addAll(n, FlattenSeq([i \in 1..rtags |-> pairsOf(Partners(i - 1))]))

addOneFourExclusionsFromTopology(n) ==
    LET around(b) == Product(SelectSeq(Partners(b[1]), LAMBDA t : t # b[2]),
                             SelectSeq(Partners(b[2]), LAMBDA t : t # b[1]))
    IN  addAll(n, FlattenSeq([i \in DOMAIN FirstBonds |-> around(FirstBonds[i])]))

\* By index: the exclusions of the particles as they are in memory.
updateExListIdx(n) ==
    [n EXCEPT !.ex_idx = [i \in DOMAIN order |->
                 [k \in DOMAIN n.ex_list[order[i]] |->
                     IF n.ex_list[order[i]][k] \in Active
                     THEN CHOOSE j \in DOMAIN order : order[j] = n.ex_list[order[i]][k] ELSE 0]]]

\* The pairs that filterNlist() leaves, taken back to tags.  Half storage: a
\* pair is on the list of the lower index.
Filtered(n) ==
    LET kept(i, j) == i < j /\ (n.m_exclusions_set => j \notin ToSet(n.ex_idx[i]))
    IN  UNION {{Pair(order[i], order[j]) : j \in {k \in DOMAIN order : kept(i, k)}} :
                  i \in DOMAIN order}

-----------------------------------------------------------------------------
(* The script                                                               *)

\* reset_exclusions(): the kinds one after the other, in the order of the code.
\* An exception leaves the exclusions that were added before it.
Reset(n, choice) ==
    LET c == clearExclusions(n)
        b == IF choice # NoChoice /\ "bond" \in choice THEN addExclusionsFromBonds(c) ELSE c
        three == choice # NoChoice /\ "1-3" \in choice /\ nGlobal > 0
        four == choice # NoChoice /\ "1-4" \in choice /\ nGlobal > 0
        t == IF three THEN addOneThreeExclusionsFromTopology(b) ELSE b
    IN  IF TopologyFails /\ (three \/ four) THEN [nl |-> b, ok |-> FALSE]
        ELSE [nl |-> IF four THEN addOneFourExclusionsFromTopology(t) ELSE t, ok |-> TRUE]

\* What the object remembers of the call.
Remember(s, choice) ==
    [s EXCEPT !.is_exclusion_overridden = TRUE,
              !.exclusions = IF choice = NoChoice THEN @ ELSE choice]

Call == state = "script" /\ ops < Ops /\ ops' = ops + 1

reset_exclusions(choice) ==
    /\ Call
    /\ nl' = Reset(nl, choice).nl
    /\ state' = IF Reset(nl, choice).ok THEN "script" ELSE "error"
    /\ script' = [Remember(script, choice) EXCEPT !.asked = choice, !.stale = FALSE]
    /\ UNCHANGED <<rtags, order, bonds, nlist>>

AddParticle ==
    /\ Call /\ Cardinality(Active) < NTags
    /\ LET free == (0..(rtags - 1)) \ Active
           t == IF free = {} THEN rtags ELSE CHOOSE x \in free : TRUE
       IN  /\ rtags' = IF free = {} THEN rtags + 1 ELSE rtags
           /\ order' = Append(order, t)
    /\ nl' = [slotGlobalParticleNumberChange(nl) EXCEPT !.m_force_update = TRUE]
    /\ script' = [script EXCEPT !.stale = TRUE]
    /\ UNCHANGED <<bonds, nlist, state>>

\* The last particle takes the place of the one that is removed.
RemoveParticle(t) ==
    /\ Call /\ t \in Active /\ Len(order) > 1
    /\ \A b \in Bonds : t \notin {b[1], b[2]}
    /\ LET at == CHOOSE i \in DOMAIN order : order[i] = t
       IN  order' = Front([order EXCEPT ![at] = Last(order)])
    /\ nl' = [slotGlobalParticleNumberChange(nl) EXCEPT !.m_force_update = TRUE]
    /\ script' = [script EXCEPT !.stale = TRUE]
    /\ UNCHANGED <<rtags, bonds, nlist, state>>

\* A reference for what the documentation calls bonded, connected with a
\* sequence of two and of three bonds.
Linked(a, b) == \E x \in Bonds : {x[1], x[2]} = {a, b}
OneThree(a, b) == \E m \in Active \ {a, b} : Linked(a, m) /\ Linked(m, b)
OneFour(a, b) == \E m, n \in Active : /\ m # n /\ m # b /\ n # a
                                      /\ Linked(a, m) /\ Linked(m, n) /\ Linked(n, b)

AddBond(a, b) ==
    /\ Rings \/ ~(Linked(a, b) \/ OneThree(a, b) \/ OneFour(a, b))
    /\ Call /\ a \in Active /\ b \in Active /\ a < b /\ nGlobal < NBonds
    /\ LET free == {i \in DOMAIN bonds : bonds[i] = NoBond}
       IN  bonds' = IF free = {} THEN Append(bonds, <<a, b>>)
                    ELSE [bonds EXCEPT ![CHOOSE i \in free : TRUE] = <<a, b>>]
    /\ script' = [script EXCEPT !.stale = TRUE]
    /\ UNCHANGED <<rtags, order, nl, nlist, state>>

RemoveBond(i) ==
    /\ Call /\ i \in DOMAIN bonds /\ bonds[i] # NoBond
    /\ bonds' = [bonds EXCEPT ![i] = NoBond]
    /\ script' = [script EXCEPT !.stale = TRUE]
    /\ UNCHANGED <<rtags, order, nl, nlist, state>>

\* update_exclusions_defaults() at the start of a run.
StartRun ==
    LET stored == nl.m_need_reallocate_exlist /\ script.exclusions # NoChoice
        default == ~stored /\ ~script.is_exclusion_overridden
        choice == IF stored THEN script.exclusions ELSE Default
    IN  /\ Call
        /\ IF stored \/ default
           THEN /\ nl' = Reset(nl, choice).nl
                /\ state' = IF Reset(nl, choice).ok THEN "run" ELSE "error"
                /\ script' = [Remember(script, choice) EXCEPT !.stale = FALSE]
           ELSE nl' = nl /\ state' = "run" /\ script' = script
        /\ UNCHANGED <<rtags, order, bonds, nlist>>

\* Mutation: the neighbor list is not told.
SortSilently ==
    /\ state = "run" /\ Len(order) > 1
    /\ order' = Tail(order) \o <<Head(order)>>
    /\ UNCHANGED <<rtags, bonds, nl, nlist, script, state, ops>>

\* Particles are sorted, which notifies the neighbor list.
Sort ==
    /\ state = "run" /\ Len(order) > 1
    /\ order' = Tail(order) \o <<Head(order)>>
    /\ nl' = [nl EXCEPT !.m_force_update = TRUE]
    /\ UNCHANGED <<rtags, bonds, nlist, script, state, ops>>

\* compute(), when the list is forced or particles have moved far enough.
Compute ==
    /\ state = "run"
    /\ LET n == IF nl.m_force_update /\ nl.m_exclusions_set THEN updateExListIdx(nl) ELSE nl
       IN  /\ nl' = [n EXCEPT !.m_force_update = FALSE]
           /\ nlist' = Filtered(n)
    /\ UNCHANGED <<rtags, order, bonds, script, state, ops>>

EndRun ==
    /\ state = "run" /\ ~nl.m_force_update
    /\ state' = "script"
    /\ UNCHANGED <<rtags, order, bonds, nl, nlist, script, ops>>

Init ==
    /\ rtags = NStart
    /\ order = [i \in 1..NStart |-> i - 1]
    /\ bonds = <<>>
    /\ nl = [ex_list |-> [t \in Tag |-> <<>>], ex_idx |-> <<>>, height |-> 1, size |-> NStart,
             m_exclusions_set |-> FALSE, m_need_reallocate_exlist |-> FALSE,
             m_force_update |-> TRUE]
    /\ nlist = {}
    /\ script = [is_exclusion_overridden |-> FALSE, exclusions |-> NoChoice,
                 asked |-> Default, stale |-> TRUE]
    /\ state = "script"
    /\ ops = 0

Next ==
    \/ \E c \in Kinds : reset_exclusions(c)
    \/ AddParticle
    \/ \E t \in Tag : RemoveParticle(t)
    \/ \E a, b \in Tag : AddBond(a, b)
    \/ \E i \in 1..NBonds : RemoveBond(i)
    \/ StartRun \/ Sort \/ Compute \/ EndRun

Spec == Init /\ [][Next]_vars

-----------------------------------------------------------------------------
(* Properties                                                               *)

\* The kinds of values; a tag is on one particle and below the size of the array
\* of reverse tags.
TypeOK ==
    /\ rtags \in 1..NTags
    /\ Active \subseteq 0..(rtags - 1) /\ IsInjective(order)
    /\ nl.ex_list \in [Tag -> Seq(Tag)]
    /\ nl.size \in 1..NTags
    /\ nlist \subseteq SUBSET Tag

\* No list is longer than the arrays are high: addExclusion() asserts
\* pos1 < m_ex_list_indexer.getH() and pos2 < m_ex_list_indexer.getH().
ListsFit == \A t \in Tag : Len(nl.ex_list[t]) <= nl.height

\* Exclusions are only used when the arrays have room for every tag and were
\* made for the particles that there are.
ListsCurrent ==
    (state = "run" /\ nl.m_exclusions_set) =>
        /\ ~nl.m_need_reallocate_exlist
        /\ \A t \in Active : t < nl.size

\* What the script has asked to exclude, from the bonds as they are.
Asked(a, b) == \/ "bond" \in script.asked /\ Linked(a, b)
               \/ "1-3" \in script.asked /\ OneThree(a, b)
               \/ "1-4" \in script.asked /\ OneFour(a, b)

\* The list holds exactly the pairs that the script did not ask to exclude,
\* whatever the order of the particles, and each pair once, after the bonds were
\* last read; the bonds and particles may have changed several times before.
PairsExact ==
    (state = "run" /\ ~nl.m_force_update /\ ~script.stale /\ script.asked # NoChoice) =>
        \A a, b \in Active : a < b => (Pair(a, b) \in nlist <=> ~Asked(a, b))
=============================================================================
