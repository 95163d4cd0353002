---------------------------- MODULE LogicalArray ----------------------------
(***************************************************************************)
(* What GPUArray promises: there is one array, wherever it is accessed.    *)
(* "It represents a single array of elements which is present both on the  *)
(* CPU and GPU."  There are no locations, copies or streams here: opening  *)
(* and closing a handle leaves the contents alone, a write changes one     *)
(* element, and the whole-array operations do what their names say.        *)
(***************************************************************************)
EXTENDS Integers

CONSTANTS Arrays, Values, Zero, MaxElements

VARIABLES
    val,    \* val[a]: the contents, Zero beyond the allocated elements
    shape,  \* shape[a]: [n, pitch, height]
    open    \* open[a]: [mode, todo]; mode "none" without a handle

vars == <<val, shape, open>>

Idx == 0 .. (MaxElements - 1)
Contents == [Idx -> Values]
Blank == [i \in Idx |-> Zero]
Closed == [mode |-> "none", todo |-> {}]
Shape(n, pitch, height) == [n |-> n, pitch |-> pitch, height |-> height]

Init == /\ val = [a \in Arrays |-> Blank]
        /\ shape = [a \in Arrays |-> Shape(0, 0, 0)]
        /\ open = [a \in Arrays |-> Closed]

\* Array a gets new contents; the other arrays keep theirs.
OnlyAt(a) == /\ val' \in [Arrays -> Contents]
             /\ \A b \in Arrays \ {a} : val'[b] = val[b]

\* Only the elements an overwrite handle is about to write lose their value.
Open(a, mode) ==
    /\ open[a] = Closed
    /\ open' = [open EXCEPT ![a] =
                  [mode |-> mode, todo |-> IF mode = "overwrite"
                                           THEN 0 .. (shape[a].n - 1) ELSE {}]]
    /\ OnlyAt(a)
    /\ \A i \in Idx : mode # "overwrite" \/ i >= shape[a].n
                         => val'[a][i] = val[a][i]
    /\ UNCHANGED shape

Write(a) ==
    /\ open[a].mode \in {"readwrite", "overwrite"}
    /\ \E i \in 0 .. (shape[a].n - 1), v \in Values :
          /\ OnlyAt(a)
          /\ \A j \in Idx : j \notin open[a].todo \ {i}
                => val'[a][j] = IF j = i THEN v ELSE val[a][j]
          /\ open' = [open EXCEPT ![a].todo = @ \ {i}]
    /\ UNCHANGED shape

Close(a) ==
    /\ open[a] # Closed /\ open[a].todo = {}
    /\ open' = [open EXCEPT ![a] = Closed]
    /\ UNCHANGED <<val, shape>>

\* A constructor: cleared elements.
Construct(a) ==
    /\ open[a] = Closed
    /\ val' = [val EXCEPT ![a] = Blank]
    /\ \A b \in Arrays \ {a} : shape'[b] = shape[b]
    /\ UNCHANGED open

\* resize(n) of one row: the common prefix survives, new elements are zero;
\* the contents of an array that had no memory are unspecified.
Resize(a) ==
    LET n == shape[a].n
        newN == shape'[a].n
    IN  /\ open[a] = Closed
        /\ shape[a].height \in {0, 1} /\ shape'[a].height = shape[a].height
        /\ OnlyAt(a)
        /\ \A i \in Idx :
              /\ i >= newN => val'[a][i] = Zero
              /\ i < newN /\ n > 0
                    => val'[a][i] = IF i < n THEN val[a][i] ELSE Zero
        /\ \A b \in Arrays \ {a} : shape'[b] = shape[b]
        /\ UNCHANGED open

\* resize(w, h): element (row, col) survives if both shapes have it.
ResizeRows(a) ==
    LET s == shape[a]
        new == shape'[a]
    IN  /\ open[a] = Closed
        /\ new.n = new.pitch * new.height
        /\ OnlyAt(a)
        /\ \A i \in Idx : i >= new.n => val'[a][i] = Zero
        /\ s.n > 0 =>
              \A row \in 0 .. (new.height - 1), col \in 0 .. (new.pitch - 1) :
                 val'[a][row * new.pitch + col] =
                    IF row < s.height /\ col < s.pitch
                    THEN val[a][row * s.pitch + col] ELSE Zero
        /\ \A b \in Arrays \ {a} : shape'[b] = shape[b]
        /\ UNCHANGED open

Copy(a, b) ==
    /\ open[a] = Closed /\ open[b] = Closed
    /\ val' = [val EXCEPT ![a] = val[b]]
    /\ shape' = [shape EXCEPT ![a] = shape[b]]
    /\ UNCHANGED open

Exchange(a, b) ==
    /\ open[a] = Closed /\ open[b] = Closed
    /\ val' = [val EXCEPT ![a] = val[b], ![b] = val[a]]
    /\ shape' = [shape EXCEPT ![a] = shape[b], ![b] = shape[a]]
    /\ UNCHANGED open

Next ==
    \/ \E a \in Arrays :
          \/ \E mode \in {"read", "readwrite", "overwrite"} : Open(a, mode)
          \/ Write(a) \/ Close(a)
          \/ Construct(a) \/ Resize(a) \/ ResizeRows(a)
    \/ \E a, b \in Arrays : Copy(a, b) \/ Exchange(a, b)

Spec == Init /\ [][Next]_vars
=============================================================================
