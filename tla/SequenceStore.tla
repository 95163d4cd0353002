--------------------------- MODULE SequenceStore ---------------------------
(***************************************************************************)
(* What GPUVector promises: named sequences with the operations of         *)
(* std::vector ("Its interface is inspired by std::vector").  There is no   *)
(* capacity and no memory here.                                            *)
(***************************************************************************)
EXTENDS Naturals, Sequences

CONSTANTS Vecs, Values, Zero

VARIABLE seq    \* seq[v]: the elements of vector v

Init == seq = [v \in Vecs |-> <<>>]

\* A constructor gives n elements that are zero.
Construct(v) == seq' = [seq EXCEPT ![v] = [i \in DOMAIN seq'[v] |-> Zero]]

Push(v) == \E x \in Values : seq' = [seq EXCEPT ![v] = Append(@, x)]

Pop(v) == /\ seq[v] # <<>>
          /\ seq' = [seq EXCEPT ![v] = SubSeq(@, 1, Len(@) - 1)]

Erase(v) == \E i \in DOMAIN seq[v] :
    seq' = [seq EXCEPT ![v] = SubSeq(@, 1, i - 1) \o SubSeq(@, i + 1, Len(@))]

Clear(v) == seq' = [seq EXCEPT ![v] = <<>>]

Store(v) == \E i \in DOMAIN seq[v], x \in Values : seq' = [seq EXCEPT ![v][i] = x]

\* The elements both sizes have survive; new ones hold anything.
Resize(v) ==
    /\ seq' = [seq EXCEPT ![v] = seq'[v]]
    /\ seq'[v] \in Seq(Values)
    /\ \A i \in DOMAIN seq[v] \cap DOMAIN seq'[v] : seq'[v][i] = seq[v][i]

Copy(v, w) == seq' = [seq EXCEPT ![v] = seq[w]]

Exchange(v, w) == seq' = [seq EXCEPT ![v] = seq[w], ![w] = seq[v]]

Next == \E v \in Vecs :
    \/ Construct(v) \/ Push(v) \/ Pop(v) \/ Erase(v) \/ Clear(v)
    \/ Store(v) \/ Resize(v)
    \/ \E w \in Vecs : Copy(v, w) \/ Exchange(v, w)

Spec == Init /\ [][Next]_seq
=============================================================================
