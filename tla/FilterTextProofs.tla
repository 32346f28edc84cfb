-------------------------- MODULE FilterTextProofs --------------------------
(***************************************************************************)
(* What is joined of filter expressions means what it should: each part    *)
(* keeps its rows, however long the texts are and whatever conditions they *)
(* hold.  The texts are read from left to right by recursive functions;    *)
(* what these give is proved by induction on how much has been read.       *)
(***************************************************************************)
EXTENDS FilterText, FiniteSetTheorems, WellFoundedInduction, TLAPS

-----------------------------------------------------------------------------
(***************************************************************************)
(* Induction over the natural numbers, about sets of them, and recursion.  *)
(***************************************************************************)
\* Some element of a set of natural numbers is the least.
LEMMA NatMin ==
    ASSUME NEW S, S \subseteq Nat, S # {}
    PROVE  \E n \in S : \A m \in S : n <= m
<1> DEFINE R == OpToRel(<, Nat)
<1>1. IsWellFoundedOn(R, Nat)
    BY NatLessThanWellFounded
<1>2. \E x \in S : \A y \in S : ~(<<y, x>> \in R)
    <2> HIDE DEF R
    <2> QED
        BY <1>1, WFMin
<1>3. \A x, y \in Nat : x < y => <<x, y>> \in R
    BY DEF OpToRel
<1>4. PICK x \in S : \A y \in S : ~(<<y, x>> \in R)
    BY <1>2
<1>5. \A y \in S : ~(y < x)
    <2> HIDE DEF R
    <2> QED
        BY <1>3, <1>4
<1> QED
    BY <1>5

\* A set with the first number of an interval, and with each number after one
\* that it has, has the whole interval.
LEMMA Induction ==
    ASSUME NEW N \in Nat, NEW S, 0 \in S, \A n \in 1 .. N : n - 1 \in S => n \in S
    PROVE  0 .. N \subseteq S
<1> DEFINE B == (0 .. N) \ S
<1> SUFFICES ASSUME B # {}
             PROVE  FALSE
    OBVIOUS
<1>0. B \subseteq Nat
    OBVIOUS
<1>1. PICK n \in B : \A m \in B : n <= m
    <2> HIDE DEF B
    <2> QED
        BY <1>0, NatMin
<1>2. n \in 1 .. N /\ n - 1 \in 0 .. N /\ ~(n - 1 \in B)
    BY <1>1
<1> QED
    BY <1>1, <1>2

\* f has the values of T that base and the steps give on 0 .. n.
Follows(f, n, T, base, step) ==
    /\ f \in [0 .. n -> T] /\ f[0] = base
    /\ \A i \in 1 .. n : f[i] = step[i][f[i-1]]

\* There is such a function.
LEMMA Recursion ==
    ASSUME NEW N \in Nat, NEW T, NEW base \in T, NEW step \in [1 .. N -> [T -> T]]
    PROVE  \E f : Follows(f, N, T, base, step)
<1> DEFINE Good(k, f) == Follows(f, k, T, base, step)
           S == { k \in 0 .. N : \E f : Good(k, f) }
<1>1. 0 \in S
    <2>1. Good(0, [n \in 0 .. 0 |-> base])
        BY DEF Follows
    <2> HIDE DEF Good
    <2> QED
        BY <2>1
<1>2. ASSUME NEW k \in 1 .. N, k - 1 \in S
      PROVE  k \in S
    <2>1. PICK f : Good(k - 1, f)
        BY <1>2
    <2> DEFINE last == step[k][f[k-1]]
               g == [n \in 0 .. k |-> IF n = k THEN last ELSE f[n]]
    <2>2. k - 1 \in 0 .. k - 1 /\ f[k-1] \in T
        BY <2>1 DEF Follows
    <2>3. last \in T
        BY <2>2
    <2> HIDE DEF last
    <2>4. g \in [0 .. k -> T] /\ g[0] = base
        BY <2>1, <2>3 DEF Follows
    <2>5. ASSUME NEW n \in 1 .. k
          PROVE  g[n] = step[n][g[n-1]]
        <3>1. g[n-1] = f[n-1]
            OBVIOUS
        <3>2. CASE n = k
            <4>1. g[n] = last
                BY <3>2
            <4> QED
                BY <3>1, <3>2, <4>1 DEF last
        <3>3. CASE n # k
            <4>1. n \in 1 .. k - 1
                BY <3>3
            <4> QED
                BY <2>1, <3>1, <4>1 DEF Follows
        <3> QED
            BY <3>2, <3>3
    <2> HIDE DEF g
    <2>6. Good(k, g)
        BY <2>4, <2>5 DEF Follows
    <2> QED
        BY <2>6
<1>3. 0 .. N \subseteq S
    <2> HIDE DEF S
    <2> QED
        BY <1>1, <1>2, Induction
<1>4. N \in S
    <2> HIDE DEF S
    <2> QED
        BY <1>3
<1> QED
    BY <1>4

-----------------------------------------------------------------------------
(***************************************************************************)
(* How a text is read.                                                     *)
(***************************************************************************)
ReadFrame == [before : SUBSET Row, current : SUBSET Row]

\* The frames of a text of N tokens.
FramesOf(N) == [0 .. N -> ReadFrame]

\* Reading a token gives frames again.
LEMMA ReadsFrames ==
    ASSUME NEW N \in Nat, NEW frames \in [0 .. N -> ReadFrame], NEW d \in Int, d < N, NEW t
    PROVE  Reads(frames, d, t) \in [0 .. N -> ReadFrame]
<1>1. Fresh \in ReadFrame
    BY DEF Fresh, ReadFrame
<1>2. \A j \in 0 .. N : \A rows : Narrowed(frames[j], rows) \in ReadFrame
    BY DEF Narrowed, ReadFrame
<1>3. \A j \in 0 .. N : [before |-> Value(frames[j]), current |-> Row] \in ReadFrame
    BY DEF Value, ReadFrame
<1> DEFINE N1 == [frames EXCEPT ![d-1] = Narrowed(@, Value(frames[d]))]
           N2 == [frames EXCEPT ![d] = [before |-> Value(@), current |-> Row]]
           N3 == [frames EXCEPT ![d] = Narrowed(@, Meaning(t))]
           N4 == [frames EXCEPT ![d+1] = Fresh]
<1>4. N1 \in [0 .. N -> ReadFrame]
    BY <1>2
<1>5. N2 \in [0 .. N -> ReadFrame]
    BY <1>3
<1>6. N3 \in [0 .. N -> ReadFrame]
    BY <1>2
<1>7. N4 \in [0 .. N -> ReadFrame]
    BY <1>1
<1>8. Reads(frames, d, t) \in {N1, N2, N3, N4, frames}
    BY DEF Reads
<1> HIDE DEF N1, N2, N3, N4
<1> QED
    BY <1>4, <1>5, <1>6, <1>7, <1>8

\* The balance counts what is between.
LEMMA BalanceStep ==
    ASSUME NEW ps, NEW n \in Nat
    PROVE  /\ Balance(ps, 0) = 0
           /\ Balance(ps, n) \in Int /\ Balance(ps, n) <= n
           /\ Balance(ps, n + 1) = Balance(ps, n)
                 + IF ps[n+1] = "(" THEN 1 ELSE IF ps[n+1] = ")" THEN -1 ELSE 0
<1> DEFINE O(m) == { i \in 1 .. m : ps[i] = "(" }
           C(m) == { i \in 1 .. m : ps[i] = ")" }
<1>1. ASSUME NEW m \in Nat
      PROVE  /\ IsFiniteSet(O(m)) /\ IsFiniteSet(C(m))
             /\ Cardinality(O(m)) \in Nat /\ Cardinality(C(m)) \in Nat
             /\ Cardinality(O(m)) <= m
    <2>1. IsFiniteSet(1 .. m) /\ Cardinality(1 .. m) = m
        BY FS_Interval
    <2>2. O(m) \subseteq 1 .. m /\ C(m) \subseteq 1 .. m
        OBVIOUS
    <2> HIDE DEF O, C
    <2> QED
        BY <2>1, <2>2, FS_Subset, FS_CardinalityType
<1>2. O(0) = {} /\ C(0) = {}
    OBVIOUS
<1>3. Cardinality(O(n+1)) = Cardinality(O(n)) + IF ps[n+1] = "(" THEN 1 ELSE 0
    <2>1. O(n+1) = IF ps[n+1] = "(" THEN O(n) \cup {n+1} ELSE O(n)
        OBVIOUS
    <2>2. n + 1 \notin O(n)
        OBVIOUS
    <2> HIDE DEF O, C
    <2>3. Cardinality(O(n) \cup {n+1}) = Cardinality(O(n)) + 1
        BY <1>1, <2>2, FS_AddElement
    <2>4. Cardinality(O(n)) \in Nat
        BY <1>1
    <2> QED
        BY <2>1, <2>3, <2>4
<1>4. Cardinality(C(n+1)) = Cardinality(C(n)) + IF ps[n+1] = ")" THEN 1 ELSE 0
    <2>1. C(n+1) = IF ps[n+1] = ")" THEN C(n) \cup {n+1} ELSE C(n)
        OBVIOUS
    <2>2. n + 1 \notin C(n)
        OBVIOUS
    <2> HIDE DEF O, C
    <2>3. Cardinality(C(n) \cup {n+1}) = Cardinality(C(n)) + 1
        BY <1>1, <2>2, FS_AddElement
    <2>4. Cardinality(C(n)) \in Nat
        BY <1>1
    <2> QED
        BY <2>1, <2>3, <2>4
<1>5. \A m : Balance(ps, m) = Cardinality(O(m)) - Cardinality(C(m))
    BY DEF Balance
<1>6. Cardinality({}) = 0
    BY FS_EmptySet
<1> HIDE DEF O, C
<1>7. Balance(ps, 0) = 0
    BY <1>2, <1>5, <1>6
<1>8. Balance(ps, n) \in Int /\ Balance(ps, n) <= n
    BY <1>1, <1>5
<1>9. CASE ps[n+1] = "("
    BY <1>1, <1>3, <1>4, <1>5, <1>7, <1>8, <1>9
<1>10. CASE ps[n+1] = ")"
    BY <1>1, <1>3, <1>4, <1>5, <1>7, <1>8, <1>10
<1>11. CASE ps[n+1] # "(" /\ ps[n+1] # ")"
    <2>1. Cardinality(O(n+1)) = Cardinality(O(n)) /\ Cardinality(C(n+1)) = Cardinality(C(n))
        BY <1>1, <1>3, <1>4, <1>11
    <2> QED
        BY <1>1, <1>5, <1>7, <1>8, <1>11, <2>1
<1> QED
    BY <1>9, <1>10, <1>11

\* What the recursive function Reading gives.
LEMMA ReadingSteps ==
    ASSUME NEW ts \in Seq(Token)
    PROVE  /\ \A n \in 0 .. Len(ts) : Reading(ts)[n] \in [0 .. Len(ts) -> ReadFrame]
           /\ Reading(ts)[0] = [d \in 0 .. Len(ts) |-> Fresh]
           /\ \A n \in 1 .. Len(ts) :
                 Reading(ts)[n] = Reads(Reading(ts)[n-1], Balance(ts, n-1), ts[n])
<1> DEFINE N == Len(ts)
           T == [0 .. N -> ReadFrame]
           base == [d \in 0 .. N |-> Fresh]
           step == [n \in 1 .. N |-> [frames \in T |-> Reads(frames, Balance(ts, n-1), ts[n])]]
           Is(f) == f = [n \in 0 .. N |-> IF n = 0 THEN base
                                          ELSE Reads(f[n-1], Balance(ts, n-1), ts[n])]
<1>1. N \in Nat
    OBVIOUS
<1>2. base \in T
    BY DEF Fresh, ReadFrame
<1>3. step \in [1 .. N -> [T -> T]]
    <2> SUFFICES ASSUME NEW n \in 1 .. N, NEW frames \in T
                 PROVE  Reads(frames, Balance(ts, n-1), ts[n]) \in T
        OBVIOUS
    <2>1. n - 1 \in Nat /\ n - 1 < N
        BY <1>1
    <2>2. Balance(ts, n-1) \in Int /\ Balance(ts, n-1) < N
        BY <1>1, <2>1, BalanceStep
    <2> QED
        BY <1>1, <2>2, ReadsFrames
<1>4. PICK f : Follows(f, N, T, base, step)
    <2> HIDE DEF N, T, base, step
    <2> QED
        BY <1>1, <1>2, <1>3, Recursion
<1>5. f \in [0 .. N -> T] /\ f[0] = base
      /\ \A n \in 1 .. N : f[n] = Reads(f[n-1], Balance(ts, n-1), ts[n])
    <2>1. f \in [0 .. N -> T] /\ f[0] = base
        <3> HIDE DEF N, T, base, step
        <3> QED
            BY <1>4 DEF Follows
    <2>2. ASSUME NEW n \in 1 .. N
          PROVE  f[n] = Reads(f[n-1], Balance(ts, n-1), ts[n])
        <3>1. n - 1 \in 0 .. N
            BY <1>1
        <3>2. f[n] = step[n][f[n-1]]
            <4> HIDE DEF N, T, base, step
            <4> QED
                BY <1>4 DEF Follows
        <3>3. f[n-1] \in T
            <4> HIDE DEF N, T
            <4> QED
                BY <2>1, <3>1
        <3> HIDE DEF T
        <3> QED
            BY <3>2, <3>3
    <2> QED
        BY <2>1, <2>2
<1>6. Is(f)
    <2> HIDE DEF T, base, step
    <2> QED
        BY <1>1, <1>5
<1>7. Reading(ts) = CHOOSE g : Is(g)
    BY DEF Reading
<1>8. Is(Reading(ts))
    BY <1>6, <1>7
<1> DEFINE g == Reading(ts)
<1> HIDE DEF g
<1>9. g[0] = base /\ \A n \in 1 .. N : g[n] = Reads(g[n-1], Balance(ts, n-1), ts[n])
    <2> HIDE DEF base
    <2> QED
        BY <1>1, <1>8 DEF g
<1>10. \A n \in 0 .. N : g[n] \in T
    <2> DEFINE S == { n \in 0 .. N : g[n] \in T }
    <2>1. 0 \in S
        BY <1>1, <1>2, <1>9
    <2>2. ASSUME NEW n \in 1 .. N, n - 1 \in S
          PROVE  n \in S
        <3>1. g[n-1] \in T /\ n \in 0 .. N
            BY <1>1, <2>2
        <3>2. step[n][g[n-1]] = Reads(g[n-1], Balance(ts, n-1), ts[n])
            <4> HIDE DEF T, N
            <4> QED
                BY <3>1
        <3>3. step[n][g[n-1]] \in T
            <4> HIDE DEF T, N, step
            <4> QED
                BY <1>3, <3>1
        <3> QED
            BY <1>9, <3>1, <3>2, <3>3
    <2> HIDE DEF S, T
    <2>3. 0 .. N \subseteq S
        BY <1>1, <2>1, <2>2, Induction
    <2> QED
        BY <2>3 DEF S
<1> QED
    BY <1>9, <1>10 DEF g
-----------------------------------------------------------------------------
(***************************************************************************)
(* What reading does to the frames.                                        *)
(***************************************************************************)
\* Reading t inside d parentheses turns the frames F into G, inside e.
Turns(t, d, e, F, G) ==
    /\ t = "(" => /\ e = d + 1 /\ G[d+1] = Fresh
                  /\ \A j \in DOMAIN F : j # d + 1 => G[j] = F[j]
    /\ t = ")" => /\ e = d - 1
                  /\ d >= 1 => G[d-1] = Narrowed(F[d-1], Value(F[d]))
                  /\ \A j \in DOMAIN F : j # d - 1 => G[j] = F[j]
    /\ t = "||" => /\ e = d /\ G[d] = [before |-> Value(F[d]), current |-> Row]
                   /\ \A j \in DOMAIN F : j # d => G[j] = F[j]
    /\ t = "&&" => e = d /\ G = F
    /\ t \notin {"(", ")", "||", "&&"} =>
          /\ e = d /\ G[d] = Narrowed(F[d], Meaning(t))
          /\ \A j \in DOMAIN F : j # d => G[j] = F[j]

\* That is what reading one token does to each frame.
LEMMA Effect ==
    ASSUME NEW ts \in Seq(Token), NEW n \in 1 .. Len(ts), Balance(ts, n-1) >= 0
    PROVE  /\ Balance(ts, n-1) \in 0 .. n - 1
           /\ Turns(ts[n], Balance(ts, n-1), Balance(ts, n), Reading(ts)[n-1], Reading(ts)[n])
<1> DEFINE d == Balance(ts, n-1)
           t == ts[n]
           F == Reading(ts)[n-1]
           G == Reading(ts)[n]
<1>1. n - 1 \in Nat /\ n - 1 + 1 = n /\ Len(ts) \in Nat
    OBVIOUS
<1>2. /\ d \in Int /\ d <= n - 1
      /\ Balance(ts, n) = d + IF t = "(" THEN 1 ELSE IF t = ")" THEN -1 ELSE 0
    BY <1>1, BalanceStep
<1>3. d \in 0 .. n - 1 /\ d \in 0 .. Len(ts) /\ d + 1 \in 0 .. Len(ts)
    BY <1>1, <1>2
<1>4. F \in [0 .. Len(ts) -> ReadFrame] /\ G \in [0 .. Len(ts) -> ReadFrame] /\ G = Reads(F, d, t)
    <2>1. n - 1 \in 0 .. Len(ts) /\ n \in 0 .. Len(ts)
        BY <1>1
    <2> QED
        BY <2>1, ReadingSteps
<1> HIDE DEF d, t, F, G
<1>5. DOMAIN F = 0 .. Len(ts) /\ DOMAIN F # {}
    BY <1>3, <1>4
<1> DEFINE e == Balance(ts, n)
<1> HIDE DEF e
<1>6. e = d + IF t = "(" THEN 1 ELSE IF t = ")" THEN -1 ELSE 0
    BY <1>2 DEF e
<1> SUFFICES Turns(t, d, e, F, G)
    BY <1>3 DEF d, t, F, G, e
<1>7. CASE t = "("
    <2>1. G = [F EXCEPT ![d+1] = Fresh] /\ e = d + 1
        BY <1>6, <1>4, <1>7 DEF Reads
    <2>2. G[d+1] = Fresh /\ \A j \in DOMAIN F : j # d + 1 => G[j] = F[j]
        BY <1>3, <1>5, <2>1
    <2> QED
        BY <1>7, <2>1, <2>2 DEF Turns
<1>8. CASE t = ")"
    <2>1. G = [F EXCEPT ![d-1] = Narrowed(F[d-1], Value(F[d]))]
        BY <1>4, <1>8 DEF Reads
    <2>2. e = d - 1
        BY <1>2, <1>6, <1>8
    <2>3. d >= 1 => d - 1 \in DOMAIN F
        BY <1>3, <1>5
    <2>4. /\ d >= 1 => G[d-1] = Narrowed(F[d-1], Value(F[d]))
          /\ \A j \in DOMAIN F : j # d - 1 => G[j] = F[j]
        BY <2>1, <2>3
    <2> QED
        BY <1>8, <2>2, <2>4 DEF Turns
<1>9. CASE t = "||"
    <2>1. G = [F EXCEPT ![d] = [before |-> Value(F[d]), current |-> Row]]
        BY <1>4, <1>9 DEF Reads
    <2>2. e = d
        BY <1>2, <1>6, <1>9
    <2>3. /\ G[d] = [before |-> Value(F[d]), current |-> Row]
          /\ \A j \in DOMAIN F : j # d => G[j] = F[j]
        BY <1>3, <1>5, <2>1
    <2> QED
        BY <1>9, <2>2, <2>3 DEF Turns
<1>10. CASE t = "&&"
    <2>1. G = F
        BY <1>4, <1>10 DEF Reads
    <2>2. e = d
        BY <1>2, <1>6, <1>10
    <2> QED
        BY <1>10, <2>1, <2>2 DEF Turns
<1>11. CASE t # "(" /\ t # ")" /\ t # "||" /\ t # "&&"
    <2>1. G = [F EXCEPT ![d] = Narrowed(F[d], Meaning(t))]
        BY <1>4, <1>11 DEF Reads
    <2>2. e = d
        BY <1>2, <1>6, <1>11
    <2>3. /\ G[d] = Narrowed(F[d], Meaning(t))
          /\ \A j \in DOMAIN F : j # d => G[j] = F[j]
        BY <1>3, <1>5, <2>1
    <2> QED
        BY <1>11, <2>2, <2>3 DEF Turns
<1> QED
    BY <1>7, <1>8, <1>9, <1>10, <1>11

\* ts stands in big after k tokens.
Stands(ts, big, k) ==
    /\ ts \in Seq(Token) /\ big \in Seq(Token) /\ k \in Nat /\ k + Len(ts) <= Len(big)
    /\ \A i \in 1 .. Len(ts) : big[k+i] = ts[i]

\* No || of the text is outside all parentheses.
Closed(ts) == \A i \in 1 .. Len(ts) : ts[i] = "||" => Balance(ts, i) >= 1

\* A text counts its parentheses in the same way wherever it stands.
LEMMA BalanceStands ==
    ASSUME NEW ts, NEW big, NEW k, Stands(ts, big, k), NEW n \in 0 .. Len(ts)
    PROVE  Balance(big, k + n) = Balance(big, k) + Balance(ts, n)
<1> DEFINE N == Len(ts)
           S == { m \in 0 .. N : Balance(big, k + m) = Balance(big, k) + Balance(ts, m) }
<1>1. N \in Nat /\ k \in Nat /\ Balance(big, k) \in Int
    BY BalanceStep DEF Stands
<1>2. 0 \in S
    BY <1>1, BalanceStep
<1>3. ASSUME NEW m \in 1 .. N, m - 1 \in S
      PROVE  m \in S
    <2>1. m - 1 \in Nat /\ k + (m - 1) \in Nat /\ m - 1 + 1 = m /\ k + (m - 1) + 1 = k + m
        BY <1>1
    <2>2. big[k+m] = ts[m]
        BY DEF Stands
    <2>3. /\ Balance(ts, m) = Balance(ts, m - 1)
               + IF ts[m] = "(" THEN 1 ELSE IF ts[m] = ")" THEN -1 ELSE 0
          /\ Balance(ts, m - 1) \in Int
        BY <2>1, BalanceStep
    <2>4. Balance(big, k + m) = Balance(big, k + (m - 1))
               + IF ts[m] = "(" THEN 1 ELSE IF ts[m] = ")" THEN -1 ELSE 0
        BY <2>1, <2>2, BalanceStep
    <2>5. Balance(big, k + (m - 1)) = Balance(big, k) + Balance(ts, m - 1)
        BY <1>3
    <2>6. (IF ts[m] = "(" THEN 1 ELSE IF ts[m] = ")" THEN -1 ELSE 0) \in Int
        OBVIOUS
    <2>7. Balance(big, k + m) = Balance(big, k) + Balance(ts, m)
        BY <1>1, <2>3, <2>4, <2>5, <2>6
    <2> QED
        BY <2>7
<1>4. 0 .. N \subseteq S
    <2> HIDE DEF S
    <2> QED
        BY <1>1, <1>2, <1>3, Induction
<1> QED
    BY <1>4

\* What is read of a text by itself, F, and of it where it stands, H, inside b
\* parentheses: it narrows the conjunction it stands in, or adds to it; the
\* frames inside its own d parentheses are those of F, the ones outside stay.
InStep(b, d, start, F, H) ==
    /\ H[b].before = start[b].before \cup F[0].before
    /\ H[b].current = start[b].current \cap F[0].current
    /\ \A j \in 1 .. d : H[b+j] = F[j]
    /\ \A j \in 0 .. b - 1 : H[j] = start[j]

\* t turns both F into G and, where the text stands in one of M tokens, H into K.
BothTurn(N, M, b, d, e, t, F, G, H, K) ==
    /\ N \in Nat /\ M \in Nat /\ b \in Nat /\ d \in Nat /\ e \in Nat
    /\ d <= N /\ e <= N /\ b + d <= M /\ b + e <= M
    /\ F \in FramesOf(N) /\ G \in FramesOf(N) /\ H \in FramesOf(M) /\ K \in FramesOf(M)
    /\ Turns(t, d, e, F, G) /\ Turns(t, b + d, b + e, H, K)

\* One token keeps them in step.
LEMMA Together ==
    ASSUME NEW N, NEW M, NEW b, NEW d, NEW e, NEW t, NEW start, NEW F, NEW G, NEW BF, NEW BG,
           BothTurn(N, M, b, d, e, t, F, G, BF, BG), start[b] \in ReadFrame,
           t = "||" /\ d = 0 => start[b].current = Row,
           InStep(b, d, start, F, BF)
    PROVE  /\ InStep(b, e, start, G, BG)
           /\ F[0].before = {} /\ ~(t = "||" /\ d = 0) => G[0].before = {}
<1> USE DEF BothTurn
<1> DEFINE A == start[b]
<1>0. /\ A \in ReadFrame /\ (t = "||" /\ d = 0 => A.current = Row)
      /\ BF[b].before = A.before \cup F[0].before
      /\ BF[b].current = A.current \cap F[0].current
      /\ \A j \in 1 .. d : BF[b+j] = F[j]
      /\ \A j \in 0 .. b - 1 : BF[j] = start[j]
    BY DEF InStep
<1> DEFINE Goal == /\ BG[b].before = A.before \cup G[0].before
                   /\ BG[b].current = A.current \cap G[0].current
                   /\ \A j \in 1 .. e : BG[b+j] = G[j]
                   /\ \A j \in 0 .. b - 1 : BG[j] = start[j]
                   /\ F[0].before = {} /\ ~(t = "||" /\ d = 0) => G[0].before = {}
<1> SUFFICES Goal
    BY DEF InStep
<1> HIDE DEF A
<1> USE <1>0 DEF FramesOf
<1>1. /\ DOMAIN F = 0 .. N /\ DOMAIN BF = 0 .. M /\ 0 \in 0 .. N /\ b \in 0 .. M /\ d \in 0 .. N
      /\ \A j \in 0 .. b - 1 : j \in 0 .. M
      /\ \A j \in 1 .. d : j \in 0 .. N /\ b + j \in 0 .. M
      /\ \A j \in 1 .. e : j \in 0 .. N /\ b + j \in 0 .. M
    OBVIOUS
<1>2. /\ F[0].current \subseteq Row /\ A.current \subseteq Row
      /\ \A j \in 0 .. N : F[j] \in ReadFrame
    BY <1>1 DEF ReadFrame
\* Where neither text changes a frame, nothing is to be shown.
<1>3. ASSUME \A j \in 1 .. e : j <= d /\ BG[b+j] = BF[b+j] /\ G[j] = F[j]
      PROVE  \A j \in 1 .. e : BG[b+j] = G[j]
    BY <1>3
<1>4. CASE t = "("
    <2>1. /\ e = d + 1 /\ G[d+1] = Fresh /\ BG[b+d+1] = Fresh
          /\ \A j \in 0 .. N : j # d + 1 => G[j] = F[j]
          /\ \A j \in 0 .. M : j # b + d + 1 => BG[j] = BF[j]
        BY <1>1, <1>4 DEF Turns
    <2>2. G[0] = F[0] /\ BG[b] = BF[b]
        BY <1>1, <2>1
    <2>3. \A j \in 1 .. e : BG[b+j] = G[j]
        <3> SUFFICES ASSUME NEW j \in 1 .. e
                     PROVE  BG[b+j] = G[j]
            OBVIOUS
        <3>1. CASE j = d + 1
            <4>1. b + j = b + d + 1
                BY <3>1
            <4> QED
                BY <2>1, <3>1, <4>1
        <3>2. CASE j # d + 1
            <4>1. j \in 1 .. d /\ b + j # b + d + 1
                BY <2>1, <3>2
            <4> QED
                BY <1>1, <2>1, <3>2, <4>1
        <3> QED
            BY <3>1, <3>2
    <2>4. \A j \in 0 .. b - 1 : BG[j] = start[j]
        BY <1>1, <2>1
    <2> QED
        BY <2>2, <2>3, <2>4
<1>5. CASE t = ")"
    <2>1. /\ e = d - 1 /\ d >= 1
          /\ G[d-1] = Narrowed(F[d-1], Value(F[d]))
          /\ BG[b+d-1] = Narrowed(BF[b+d-1], Value(BF[b+d]))
          /\ \A j \in 0 .. N : j # d - 1 => G[j] = F[j]
          /\ \A j \in 0 .. M : j # b + d - 1 => BG[j] = BF[j]
        <3>1. e = d - 1 /\ d >= 1 /\ b + d >= 1
            BY <1>5 DEF Turns
        <3> QED
            BY <1>1, <1>5, <3>1 DEF Turns
    <2>2. BF[b+d] = F[d]
        <3>1. d \in 1 .. d
            BY <2>1
        <3> QED
            BY <3>1
    <2>3. \A j \in 0 .. b - 1 : BG[j] = start[j]
        BY <1>1, <2>1
    <2>4. CASE d = 1
        <3>1. d - 1 = 0 /\ b + d - 1 = b
            BY <2>4
        <3>2. G[0] = Narrowed(F[0], Value(F[d])) /\ BG[b] = Narrowed(BF[b], Value(F[d]))
            BY <2>1, <2>2, <3>1
        <3>3. /\ G[0].before = F[0].before /\ G[0].current = F[0].current \cap Value(F[d])
              /\ BG[b].before = BF[b].before /\ BG[b].current = BF[b].current \cap Value(F[d])
            <4>1. F[0] \in ReadFrame /\ BF[b] \in ReadFrame
                BY <1>1
            <4> QED
                BY <3>2, <4>1 DEF Narrowed, ReadFrame
        <3>4. \A j \in 1 .. e : FALSE
            BY <2>1, <2>4
        <3> QED
            BY <2>3, <3>3, <3>4
    <2>5. CASE d # 1
        <3>1. d - 1 \in 1 .. d /\ b + (d - 1) = b + d - 1 /\ b + d - 1 # b /\ d - 1 # 0
            BY <2>1, <2>5
        <3>2. G[0] = F[0] /\ BG[b] = BF[b]
            BY <1>1, <2>1, <3>1
        <3>3. BF[b+d-1] = F[d-1]
            BY <3>1
        <3>4. BG[b+d-1] = G[d-1]
            BY <2>1, <2>2, <3>3
        <3>5. \A j \in 1 .. e : BG[b+j] = G[j]
            <4> SUFFICES ASSUME NEW j \in 1 .. e
                         PROVE  BG[b+j] = G[j]
                OBVIOUS
            <4>1. CASE j = d - 1
                BY <3>1, <3>4, <4>1
            <4>2. CASE j # d - 1
                <5>1. j \in 1 .. d /\ b + j # b + d - 1
                    BY <2>1, <4>2
                <5> QED
                    BY <1>1, <2>1, <4>2, <5>1
            <4> QED
                BY <4>1, <4>2
        <3> QED
            BY <2>3, <3>2, <3>5
    <2> QED
        BY <2>4, <2>5
<1>6. CASE t = "&&"
    BY <1>6 DEF Turns
\* A token that changes the frame it is in.
<1>7. ASSUME e = d,
             \A j \in 0 .. N : j # d => G[j] = F[j],
             \A j \in 0 .. M : j # b + d => BG[j] = BF[j],
             d # 0 => BG[b+d] = G[d],
             d = 0 => /\ BG[b].before = A.before \cup G[0].before
                      /\ BG[b].current = A.current \cap G[0].current
                      /\ t # "||" => G[0].before = F[0].before
      PROVE  Goal
    <2>1. \A j \in 0 .. b - 1 : BG[j] = start[j]
        BY <1>1, <1>7
    <2>2. \A j \in 1 .. e : BG[b+j] = G[j]
        <3> SUFFICES ASSUME NEW j \in 1 .. e
                     PROVE  BG[b+j] = G[j]
            OBVIOUS
        <3>1. CASE j = d
            BY <1>7, <3>1
        <3>2. CASE j # d
            <4>1. j \in 1 .. d /\ b + j # b + d
                BY <1>7, <3>2
            <4> QED
                BY <1>1, <1>7, <3>2, <4>1
        <3> QED
            BY <3>1, <3>2
    <2>3. d # 0 => G[0] = F[0] /\ BG[b] = BF[b]
        BY <1>1, <1>7
    <2> QED
        BY <1>7, <2>1, <2>2, <2>3
<1>8. d # 0 => BF[b+d] = F[d]
    <2>1. d # 0 => d \in 1 .. d
        OBVIOUS
    <2> QED
        BY <2>1
<1>9. CASE t = "||"
    <2>1. /\ e = d /\ G[d] = [before |-> Value(F[d]), current |-> Row]
          /\ BG[b+d] = [before |-> Value(BF[b+d]), current |-> Row]
          /\ \A j \in 0 .. N : j # d => G[j] = F[j]
          /\ \A j \in 0 .. M : j # b + d => BG[j] = BF[j]
        BY <1>1, <1>9 DEF Turns
    <2>2. ASSUME d = 0
          PROVE  /\ BG[b].before = A.before \cup G[0].before
                 /\ BG[b].current = A.current \cap G[0].current
        <3>1. b + d = b /\ A.current = Row
            BY <1>9, <2>2
        <3>2. G[0].before = F[0].before \cup F[0].current /\ G[0].current = Row
              /\ BG[b].before = BF[b].before \cup BF[b].current /\ BG[b].current = Row
            BY <2>1, <2>2, <3>1 DEF Value
        <3>3. BF[b].current = F[0].current
            BY <1>2, <3>1
        <3> QED
            BY <3>1, <3>2, <3>3
    <2> HIDE DEF Goal
    <2> QED
        BY <1>7, <1>8, <1>9, <2>1, <2>2
<1>10. CASE t # "(" /\ t # ")" /\ t # "||" /\ t # "&&"
    <2>1. /\ e = d /\ G[d] = Narrowed(F[d], Meaning(t))
          /\ BG[b+d] = Narrowed(BF[b+d], Meaning(t))
          /\ \A j \in 0 .. N : j # d => G[j] = F[j]
          /\ \A j \in 0 .. M : j # b + d => BG[j] = BF[j]
        BY <1>1, <1>10 DEF Turns
    <2>2. ASSUME d = 0
          PROVE  /\ BG[b].before = A.before \cup G[0].before
                 /\ BG[b].current = A.current \cap G[0].current
                 /\ G[0].before = F[0].before
        <3>1. b + d = b
            BY <2>2
        <3>2. F[0] \in ReadFrame /\ BF[b] \in ReadFrame
            BY <1>1
        <3>3. /\ G[0].before = F[0].before /\ G[0].current = F[0].current \cap Meaning(t)
              /\ BG[b].before = BF[b].before /\ BG[b].current = BF[b].current \cap Meaning(t)
            <4>1. G[0] = Narrowed(F[0], Meaning(t)) /\ BG[b] = Narrowed(BF[b], Meaning(t))
                BY <2>1, <2>2, <3>1
            <4> QED
                BY <3>2, <4>1 DEF Narrowed, ReadFrame
        <3> QED
            BY <3>3
    <2> HIDE DEF Goal
    <2> QED
        BY <1>7, <1>8, <2>1, <2>2
<1> HIDE DEF Goal
<1> QED
    BY <1>4, <1>5, <1>6, <1>9, <1>10

\* The first n tokens of ts, which stands in big after k tokens, are read in step.
Embeds(ts, big, k, n) ==
    /\ InStep(Balance(big, k), Balance(ts, n), Reading(big)[k], Reading(ts)[n], Reading(big)[k+n])
    /\ Closed(ts) => Reading(ts)[n][0].before = {}

\* A text whose parentheses match means the same wherever it stands: after && if
\* none of its || is outside them, and at the beginning of a disjunct.
LEMMA Embedding ==
    ASSUME NEW ts, NEW big, NEW k, Stands(ts, big, k), Balance(big, k) >= 0,
           \A i \in 1 .. Len(ts) : Balance(ts, i) >= 0,
           Closed(ts) \/ Reading(big)[k][Balance(big, k)].current = Row,
           NEW n \in 0 .. Len(ts)
    PROVE  Embeds(ts, big, k, n)
<1> DEFINE N == Len(ts)
           b == Balance(big, k)
           start == Reading(big)[k]
           S == { m \in 0 .. N : Embeds(ts, big, k, m) }
<1>1. /\ N \in Nat /\ k \in Nat /\ b \in 0 .. k /\ Len(big) \in Nat /\ k + N <= Len(big)
      /\ ts \in Seq(Token) /\ big \in Seq(Token)
    <2>1. /\ ts \in Seq(Token) /\ big \in Seq(Token) /\ k \in Nat /\ N \in Nat /\ Len(big) \in Nat
          /\ k + N <= Len(big)
        BY DEF Stands
    <2>2. b \in Int /\ b <= k /\ b >= 0
        BY <2>1, BalanceStep
    <2> QED
        BY <2>1, <2>2
<1>2. \A m \in 0 .. N : Reading(ts)[m] \in [0 .. N -> ReadFrame]
    <2> HIDE DEF N
    <2> QED
        BY <1>1, ReadingSteps DEF N
<1>3. \A m \in 0 .. Len(big) : Reading(big)[m] \in [0 .. Len(big) -> ReadFrame]
    BY <1>1, ReadingSteps
<1>4. start[b] \in ReadFrame
    <2>1. k \in 0 .. Len(big) /\ b \in 0 .. Len(big)
        BY <1>1
    <2> QED
        BY <1>3, <2>1
<1>5. 0 \in S
    <2>1. Reading(ts)[0][0] = Fresh
        <3>1. Reading(ts)[0] = [d \in 0 .. N |-> Fresh]
            BY <1>1, ReadingSteps
        <3> QED
            BY <1>1, <3>1
    <2>2. Balance(ts, 0) = 0 /\ k + 0 = k
        BY <1>1, BalanceStep
    <2>3. Embeds(ts, big, k, 0)
        BY <1>1, <1>4, <2>1, <2>2 DEF Embeds, InStep, Fresh, ReadFrame
    <2> QED
        BY <1>1, <2>3
<1>6. ASSUME NEW m \in 1 .. N, m - 1 \in S
      PROVE  m \in S
    <2> DEFINE d == Balance(ts, m - 1)
               t == ts[m]
               F == Reading(ts)[m-1]
               G == Reading(ts)[m]
               BF == Reading(big)[k + (m-1)]
               BG == Reading(big)[k + m]
    <2>1. /\ m - 1 \in 0 .. N /\ m - 1 \in Nat /\ m \in 0 .. N
          /\ k + m \in 1 .. Len(big) /\ (k + m) - 1 = k + (m - 1) /\ k + (m-1) \in 0 .. Len(big)
        BY <1>1
    <2>2. /\ d \in Int /\ d >= 0 /\ d <= m - 1 /\ d \in 0 .. N
          /\ Balance(ts, m) >= 0 /\ Balance(ts, m) \in Int
        <3>1. d \in Int /\ d <= m - 1
            BY <2>1, BalanceStep
        <3>2. m - 1 = 0 \/ m - 1 \in 1 .. N
            BY <2>1
        <3>3. d >= 0
            BY <3>2, BalanceStep
        <3>4. Balance(ts, m) \in Int
            BY <2>1, BalanceStep
        <3> QED
            BY <2>1, <3>1, <3>3, <3>4
    <2>3. /\ Balance(big, k + (m - 1)) = b + d /\ b + d >= 0 /\ b + d \in 0 .. Len(big)
          /\ t = big[k+m]
        <3>1. Balance(big, k + (m - 1)) = b + d
            BY <2>1, BalanceStands
        <3>2. t = big[k+m]
            BY DEF Stands
        <3> HIDE DEF b, d, t, N
        <3>3. b + d >= 0 /\ b + d <= k + (m - 1) /\ b + d \in Int
            BY <1>1, <2>2
        <3> QED
            BY <1>1, <2>1, <3>1, <3>2, <3>3
    <2>4. Embeds(ts, big, k, m - 1)
        BY <1>6
    <2> HIDE DEF N, S
    <2>5. InStep(b, d, start, F, BF) /\ (Closed(ts) => F[0].before = {})
        BY <2>4 DEF Embeds
    <2>6. F \in [0 .. N -> ReadFrame] /\ G \in [0 .. N -> ReadFrame]
          /\ BF \in [0 .. Len(big) -> ReadFrame] /\ BG \in [0 .. Len(big) -> ReadFrame]
        BY <1>2, <1>3, <2>1
    <2>7. Balance(ts, m) \in Int
        BY <2>2
    <2> SUFFICES InStep(b, Balance(ts, m), start, G, BG) /\ (Closed(ts) => G[0].before = {})
        <3>1. Embeds(ts, big, k, m)
            BY DEF Embeds
        <3> QED
            BY <2>1, <3>1 DEF S
    <2> HIDE DEF d, b, t, F, G, BF, BG, start
    <2>8. Turns(t, d, Balance(ts, m), F, G)
        BY <1>1, <2>2, Effect DEF d, t, F, G, N
    <2>9. Turns(t, b + d, b + Balance(ts, m), BF, BG)
        <3>1. Balance(big, k + m) = b + Balance(ts, m)
            BY <2>1, BalanceStands DEF b, N
        <3>2. Turns(big[k+m], Balance(big, (k+m) - 1), Balance(big, k + m), Reading(big)[(k+m)-1], Reading(big)[k+m])
            BY <1>1, <2>1, <2>3, Effect
        <3> QED
            BY <2>1, <2>3, <3>1, <3>2 DEF BF, BG
    <2>10. t = "||" /\ d = 0 => start[b].current = Row /\ ~Closed(ts)
        <3>1. t = "||" => Balance(ts, m) = d
            BY <2>8 DEF Turns
        <3> QED
            BY <2>2, <3>1 DEF Closed, t, start, b, N
    <2>11. d <= N /\ b + d <= Len(big) /\ Balance(ts, m) <= N /\ b + Balance(ts, m) <= Len(big)
           /\ b \in Nat /\ d \in Nat /\ Balance(ts, m) \in Nat
        <3>1. Balance(ts, m) <= m
            BY <2>1, BalanceStep
        <3>2. b \in Nat /\ b <= k
            BY <1>1
        <3> DEFINE e == Balance(ts, m)
                   M == Len(big)
        <3>3. /\ N \in Nat /\ k \in Nat /\ M \in Nat /\ k + N <= M
              /\ d \in Int /\ d >= 0 /\ d <= m - 1 /\ e \in Int /\ e >= 0 /\ e <= m
            BY <1>1, <2>2, <3>1
        <3> HIDE DEF e, M
        <3>4. d <= N /\ e <= N /\ d \in Nat /\ e \in Nat
            BY <3>3
        <3>5. b + d <= M /\ b + e <= M
            BY <3>2, <3>3, <3>4
        <3> QED
            BY <3>2, <3>4, <3>5 DEF e, M
    <2> DEFINE e == Balance(ts, m)
               M == Len(big)
    <2>12. t = "||" /\ d = 0 => start[b].current = Row
        BY <2>10
    <2> HIDE DEF e, M
    <2>13. BothTurn(N, M, b, d, e, t, F, G, BF, BG)
        BY <1>1, <2>6, <2>8, <2>9, <2>11 DEF e, M, FramesOf, BothTurn
    <2>14. /\ InStep(b, e, start, G, BG)
           /\ F[0].before = {} /\ ~(t = "||" /\ d = 0) => G[0].before = {}
        BY <1>4, <2>5, <2>12, <2>13, Together
    <2> QED
        BY <2>5, <2>10, <2>14 DEF e
<1>7. 0 .. N \subseteq S
    <2> HIDE DEF S, N
    <2> QED
        BY <1>1, <1>5, <1>6, Induction
<1> QED
    BY <1>7
-----------------------------------------------------------------------------
(***************************************************************************)
(* What joined and parenthesised texts mean.                               *)
(***************************************************************************)
\* The parentheses of an expression match.
LEMMA ExpressionParts ==
    ASSUME NEW ts \in Expression
    PROVE  /\ ts \in Seq(Token) /\ Len(ts) \in Nat
           /\ \A n \in 0 .. Len(ts) : Balance(ts, n) >= 0
           /\ Balance(ts, Len(ts)) = 0
<1>1. ts \in Seq(Token) /\ \A n \in 1 .. Len(ts) : Balance(ts, n) >= 0
    BY DEF Expression, Matched
<1>2. Balance(ts, Len(ts)) = 0
    BY DEF Expression, Matched
<1>3. \A n \in 0 .. Len(ts) : n = 0 \/ n \in 1 .. Len(ts)
    OBVIOUS
<1>4. Balance(ts, 0) = 0
    BY BalanceStep
<1> QED
    BY <1>1, <1>2, <1>3, <1>4

\* What an expression means is a set of rows.
LEMMA MeansRows ==
    ASSUME NEW ts \in Seq(Token)
    PROVE  /\ Reading(ts)[Len(ts)][0] \in ReadFrame
           /\ RowsWhere(ts) = Reading(ts)[Len(ts)][0].before \cup Reading(ts)[Len(ts)][0].current
           /\ RowsWhere(ts) \subseteq Row
<1>1. Len(ts) \in 0 .. Len(ts) /\ 0 \in 0 .. Len(ts)
    OBVIOUS
<1>2. Reading(ts)[Len(ts)] \in [0 .. Len(ts) -> ReadFrame]
    BY <1>1, ReadingSteps
<1>3. Reading(ts)[Len(ts)][0] \in ReadFrame
    BY <1>1, <1>2
<1> QED
    BY <1>3 DEF RowsWhere, Value, ReadFrame

\* How an expression is read where it stands.
LEMMA ReadWhole ==
    ASSUME NEW ts \in Expression, NEW big, NEW k, Stands(ts, big, k), Balance(big, k) >= 0,
           Closed(ts) \/ Reading(big)[k][Balance(big, k)].current = Row
    PROVE  /\ Balance(big, k + Len(ts)) = Balance(big, k)
           /\ InStep(Balance(big, k), 0, Reading(big)[k], Reading(ts)[Len(ts)], Reading(big)[k + Len(ts)])
           /\ Closed(ts) => Reading(ts)[Len(ts)][0].before = {}
<1>1. /\ Len(ts) \in 0 .. Len(ts) /\ Balance(ts, Len(ts)) = 0
      /\ \A i \in 1 .. Len(ts) : Balance(ts, i) >= 0
    BY ExpressionParts
<1>2. Embeds(ts, big, k, Len(ts))
    BY <1>1, Embedding
<1>3. Balance(big, k + Len(ts)) = Balance(big, k) + 0
    BY <1>1, BalanceStands
<1>4. Balance(big, k) \in Int
    BY BalanceStep DEF Stands
<1> QED
    BY <1>1, <1>2, <1>3, <1>4 DEF Embeds

\* Where the parts of two joined texts stand.
LEMMA JoinShape ==
    ASSUME NEW X \in Seq(Token), NEW Y \in Seq(Token), NEW t \in Token,
           NEW big, big = JoinedBy(t, X, Y)
    PROVE  /\ big \in Seq(Token) /\ Len(big) = Len(X) + 1 + Len(Y)
           /\ Stands(X, big, 0) /\ Stands(Y, big, Len(X) + 1)
<1> USE DEF JoinedBy
<1>1. big \in Seq(Token) /\ Len(big) = Len(X) + 1 + Len(Y)
    OBVIOUS
<1>2. \A i \in 1 .. Len(X) : big[0+i] = X[i]
    OBVIOUS
<1>3. \A i \in 1 .. Len(Y) : big[Len(X) + 1 + i] = Y[i]
    OBVIOUS
<1> QED
    BY <1>1, <1>2, <1>3 DEF Stands

\* Where a text in parentheses stands.
LEMMA ParenShape ==
    ASSUME NEW X \in Seq(Token)
    PROVE  /\ InParens(X) \in Seq(Token) /\ Len(InParens(X)) = Len(X) + 2
           /\ InParens(X)[1] = "(" /\ InParens(X)[Len(X) + 2] = ")" /\ Stands(X, InParens(X), 1)
<1> DEFINE big == InParens(X)
<1>1. "(" \in Token /\ ")" \in Token
    BY DEF Token, Word
<1>2. big \in Seq(Token) /\ Len(big) = Len(X) + 2
    BY <1>1 DEF InParens
<1>3. \A i \in 1 .. Len(X) : big[1+i] = X[i]
    BY DEF InParens
<1>4. big[1] = "(" /\ big[Len(X) + 2] = ")"
    BY DEF InParens
<1> QED
    BY <1>2, <1>3, <1>4 DEF Stands
\* The balance at each place of two joined expressions.
LEMMA JoinBalance ==
    ASSUME NEW X \in Expression, NEW Y \in Expression, NEW t \in {"&&", "||"},
           NEW big, big = JoinedBy(t, X, Y)
    PROVE  /\ big \in Expression
           /\ Closed(X) /\ Closed(Y) /\ t = "&&" => Closed(big)
<1> DEFINE x == Len(X)
           y == Len(Y)
<1>1. /\ X \in Seq(Token) /\ x \in Nat /\ Balance(X, x) = 0
      /\ Y \in Seq(Token) /\ y \in Nat /\ Balance(Y, y) = 0
      /\ \A n \in 0 .. x : Balance(X, n) >= 0
      /\ \A n \in 0 .. y : Balance(Y, n) >= 0
    BY ExpressionParts
<1>2. t \in Token /\ t # "(" /\ t # ")"
    BY DEF Token, Word
<1>3. /\ big \in Seq(Token) /\ Len(big) = x + 1 + y
      /\ Stands(X, big, 0) /\ big[x+1] = t /\ Stands(Y, big, x+1)
    <2>1. big \in Seq(Token) /\ Len(big) = x + 1 + y /\ Stands(X, big, 0) /\ Stands(Y, big, x+1)
        BY <1>1, <1>2, JoinShape
    <2>2. big[x+1] = t
        BY <1>1, <1>2 DEF JoinedBy
    <2> QED
        BY <2>1, <2>2
<1>4. \A n \in 0 .. x : Balance(big, n) = Balance(X, n)
    <2> SUFFICES ASSUME NEW n \in 0 .. x
                 PROVE  Balance(big, n) = Balance(X, n)
        OBVIOUS
    <2>1. Balance(big, 0 + n) = Balance(big, 0) + Balance(X, n)
        BY <1>3, BalanceStands
    <2>2. Balance(big, 0) = 0 /\ Balance(X, n) \in Int
        BY <1>1, BalanceStep
    <2> QED
        BY <1>1, <2>1, <2>2
<1>5. Balance(big, x+1) = 0
    <2>1. x \in 0 .. x
        BY <1>1
    <2>2. Balance(big, x+1) = Balance(big, x) + IF big[x+1] = "(" THEN 1 ELSE IF big[x+1] = ")" THEN -1 ELSE 0
        BY <1>1, BalanceStep
    <2> QED
        BY <1>1, <1>2, <1>3, <1>4, <2>1, <2>2
<1>6. \A n \in 0 .. y : Balance(big, x + 1 + n) = Balance(Y, n)
    <2> SUFFICES ASSUME NEW n \in 0 .. y
                 PROVE  Balance(big, x + 1 + n) = Balance(Y, n)
        OBVIOUS
    <2>1. Balance(big, (x + 1) + n) = Balance(big, x + 1) + Balance(Y, n)
        BY <1>3, BalanceStands
    <2>2. Balance(Y, n) \in Int
        BY <1>1, BalanceStep
    <2> QED
        BY <1>5, <2>1, <2>2
<1>7. \A n \in 1 .. Len(big) :
         n \in 1 .. x \/ n = x + 1 \/ (n - (x + 1) \in 1 .. y /\ n = x + 1 + (n - (x + 1)))
    BY <1>1, <1>3
<1>8. \A n \in 1 .. Len(big) : Balance(big, n) >= 0
    <2> SUFFICES ASSUME NEW n \in 1 .. Len(big)
                 PROVE  Balance(big, n) >= 0
        OBVIOUS
    <2>1. CASE n \in 1 .. x
        BY <1>1, <1>4, <2>1
    <2>2. CASE n = x + 1
        BY <1>5, <2>2
    <2>3. CASE n - (x + 1) \in 1 .. y /\ n = x + 1 + (n - (x + 1))
        <3>1. n - (x + 1) \in 0 .. y
            BY <1>1, <2>3
        <3> HIDE DEF x, y
        <3> QED
            BY <1>1, <1>6, <2>3, <3>1
    <2> QED
        BY <1>7, <2>1, <2>2, <2>3
<1>9. Balance(big, Len(big)) = 0
    <2>1. y \in 0 .. y
        BY <1>1
    <2> QED
        BY <1>1, <1>3, <1>6, <2>1
<1>10. ASSUME Closed(X), Closed(Y), t = "&&"
       PROVE  Closed(big)
    <2> SUFFICES ASSUME NEW n \in 1 .. Len(big), big[n] = "||"
                 PROVE  Balance(big, n) >= 1
        BY DEF Closed
    <2>1. CASE n \in 1 .. x
        <3>1. X[n] = "||" /\ n \in 0 .. x
            BY <1>1, <1>3, <2>1 DEF Stands
        <3> QED
            BY <1>4, <1>10, <2>1, <3>1 DEF Closed
    <2>2. CASE n = x + 1
        BY <1>3, <1>10, <2>2
    <2>3. CASE n - (x + 1) \in 1 .. y /\ n = x + 1 + (n - (x + 1))
        <3> DEFINE i == n - (x + 1)
        <3>1. i \in 1 .. y /\ i \in 0 .. y /\ n = x + 1 + i
            BY <1>1, <2>3
        <3> HIDE DEF i
        <3>2. Y[i] = "||"
            BY <1>3, <3>1 DEF Stands
        <3>3. Balance(Y, i) >= 1
            BY <1>10, <3>1, <3>2 DEF Closed
        <3> HIDE DEF x, y
        <3> QED
            BY <1>6, <3>1, <3>3
    <2> QED
        BY <1>7, <2>1, <2>2, <2>3
<1> QED
    BY <1>3, <1>8, <1>9, <1>10 DEF Expression, Matched

\* Expressions joined by || are true of what one of them is true of; joined by
\* && of what both are, unless a || of theirs is outside parentheses.
LEMMA JoinMeans ==
    ASSUME NEW X \in Expression, NEW Y \in Expression, NEW t \in {"&&", "||"},
           NEW big, big = JoinedBy(t, X, Y)
    PROVE  /\ t = "||" => RowsWhere(big) = RowsWhere(X) \cup RowsWhere(Y)
           /\ t = "&&" /\ Closed(X) /\ Closed(Y) => RowsWhere(big) = RowsWhere(X) \cap RowsWhere(Y)
<1> DEFINE x == Len(X)
           y == Len(Y)
           R == Reading(big)
           FX == Reading(X)[x][0]
           FY == Reading(Y)[y][0]
<1>1. /\ X \in Seq(Token) /\ x \in Nat /\ Y \in Seq(Token) /\ y \in Nat
    BY ExpressionParts
<1>2. t \in Token /\ t # "(" /\ t # ")"
    BY DEF Token, Word
<1>3. /\ big \in Seq(Token) /\ Len(big) = x + 1 + y
      /\ Stands(X, big, 0) /\ big[x+1] = t /\ Stands(Y, big, x+1)
    <2>1. big \in Seq(Token) /\ Len(big) = x + 1 + y /\ Stands(X, big, 0) /\ Stands(Y, big, x+1)
        BY <1>1, <1>2, JoinShape
    <2>2. big[x+1] = t
        BY <1>1, <1>2 DEF JoinedBy
    <2> QED
        BY <2>1, <2>2
<1>4. /\ FX \in ReadFrame /\ FY \in ReadFrame
      /\ RowsWhere(X) = FX.before \cup FX.current
      /\ RowsWhere(Y) = FY.before \cup FY.current
      /\ RowsWhere(big) = R[x + 1 + y][0].before \cup R[x + 1 + y][0].current
    BY <1>1, <1>3, MeansRows
<1>5. Balance(big, 0) = 0
    BY BalanceStep
<1>6. R[0][0] = Fresh /\ R[0][0].current = Row
    <2>1. R[0] = [d \in 0 .. Len(big) |-> Fresh]
        BY <1>3, ReadingSteps
    <2>2. 0 \in 0 .. Len(big)
        BY <1>1, <1>3
    <2> HIDE DEF R
    <2> QED
        BY <2>1, <2>2 DEF Fresh
<1>7. /\ Balance(big, x) = 0
      /\ InStep(0, 0, R[0], Reading(X)[x], R[x])
      /\ Closed(X) => FX.before = {}
    BY <1>1, <1>3, <1>5, <1>6, ReadWhole
<1> HIDE DEF x, y, R, FX, FY
<1>8. /\ R[x][0].before = FX.before /\ R[x][0].current = FX.current
    <2>1. R[x][0].before = Fresh.before \cup FX.before /\ R[x][0].current = Fresh.current \cap FX.current
        BY <1>6, <1>7 DEF InStep, FX
    <2> QED
        BY <1>4, <2>1 DEF Fresh, ReadFrame
<1>9. Turns(t, 0, Balance(big, x + 1), R[x], R[x+1])
    <2>1. x + 1 \in 1 .. Len(big) /\ (x + 1) - 1 = x
        BY <1>1, <1>3
    <2>2. Turns(big[x+1], Balance(big, (x+1) - 1), Balance(big, x+1), Reading(big)[(x+1) - 1], Reading(big)[x+1])
        BY <1>3, <1>7, <2>1, Effect
    <2> QED
        BY <1>3, <1>7, <2>1, <2>2 DEF R
<1> DEFINE k == x + 1
<1> HIDE DEF k
<1>12. Stands(Y, big, k) /\ k + Len(Y) = x + 1 + y /\ k = x + 1
    BY <1>1, <1>3 DEF k, y
<1>10. CASE t = "||"
    <2>1. Balance(big, x + 1) = 0 /\ R[x+1][0] = [before |-> Value(R[x][0]), current |-> Row]
        BY <1>9, <1>10 DEF Turns
    <2>2. R[x+1][0].before = FX.before \cup FX.current /\ R[x+1][0].current = Row
        BY <1>8, <2>1 DEF Value
    <2>3. InStep(0, 0, R[x+1], Reading(Y)[y], R[x + 1 + y])
        <3>1. Balance(big, k) = 0 /\ Reading(big)[k][Balance(big, k)].current = Row
            BY <1>12, <2>1, <2>2 DEF R
        <3>2. InStep(Balance(big, k), 0, Reading(big)[k], Reading(Y)[Len(Y)], Reading(big)[k + Len(Y)])
            BY <1>12, <3>1, ReadWhole
        <3> QED
            BY <1>12, <3>1, <3>2 DEF R, y
    <2>4. /\ R[x + 1 + y][0].before = (FX.before \cup FX.current) \cup FY.before
          /\ R[x + 1 + y][0].current = Row \cap FY.current
        BY <2>2, <2>3 DEF InStep, FY
    <2> QED
        BY <1>4, <1>10, <2>4 DEF ReadFrame
<1>11. CASE t = "&&"
    <2> SUFFICES ASSUME Closed(X), Closed(Y)
                 PROVE  RowsWhere(big) = RowsWhere(X) \cap RowsWhere(Y)
        BY <1>11
    <2>1. Balance(big, x + 1) = 0 /\ R[x+1] = R[x]
        BY <1>9, <1>11 DEF Turns
    <2>2. InStep(0, 0, R[x+1], Reading(Y)[y], R[x + 1 + y]) /\ FY.before = {}
        <3>1. Balance(big, k) = 0
            BY <1>12, <2>1
        <3>2. /\ InStep(Balance(big, k), 0, Reading(big)[k], Reading(Y)[Len(Y)], Reading(big)[k + Len(Y)])
              /\ Reading(Y)[Len(Y)][0].before = {}
            BY <1>12, <3>1, ReadWhole
        <3> QED
            BY <1>12, <3>1, <3>2 DEF R, y, FY
    <2>3. /\ R[x + 1 + y][0].before = FX.before \cup FY.before
          /\ R[x + 1 + y][0].current = FX.current \cap FY.current
        BY <1>8, <2>1, <2>2 DEF InStep, FY
    <2> QED
        BY <1>4, <1>7, <2>2, <2>3
<1> QED
    BY <1>10, <1>11
\* An expression in parentheses means the same, and all of its || are inside.
LEMMA ParenMeans ==
    ASSUME NEW X \in Expression
    PROVE  /\ InParens(X) \in Expression /\ Closed(InParens(X))
           /\ RowsWhere(InParens(X)) = RowsWhere(X)
<1> DEFINE big == InParens(X)
           x == Len(X)
           R == Reading(big)
           FX == Reading(X)[x][0]
<1>1. /\ X \in Seq(Token) /\ x \in Nat /\ Balance(X, x) = 0
      /\ \A n \in 0 .. x : Balance(X, n) >= 0
    BY ExpressionParts
<1>2. /\ big \in Seq(Token) /\ Len(big) = x + 2 /\ Stands(X, big, 1)
      /\ big[1] = "(" /\ big[x+2] = ")"
    BY <1>1, ParenShape
<1>3. /\ FX \in ReadFrame /\ RowsWhere(X) = FX.before \cup FX.current
      /\ RowsWhere(big) = R[x+2][0].before \cup R[x+2][0].current
    BY <1>1, <1>2, MeansRows
<1> HIDE DEF big, x, R, FX
<1>4. Balance(big, 0) = 0 /\ Balance(big, 1) = 1
    <2>1. Balance(big, 0) = 0
        BY BalanceStep
    <2>2. Balance(big, 0 + 1) = Balance(big, 0) + IF big[0+1] = "(" THEN 1 ELSE IF big[0+1] = ")" THEN -1 ELSE 0
        BY BalanceStep
    <2> QED
        BY <1>2, <2>1, <2>2
<1>5. \A n \in 0 .. x : Balance(big, 1 + n) = 1 + Balance(X, n) /\ Balance(big, 1 + n) >= 1
    <2> SUFFICES ASSUME NEW n \in 0 .. x
                 PROVE  Balance(big, 1 + n) = 1 + Balance(X, n) /\ Balance(big, 1 + n) >= 1
        OBVIOUS
    <2>1. Balance(big, 1 + n) = Balance(big, 1) + Balance(X, n)
        BY <1>2, BalanceStands DEF x
    <2>2. Balance(X, n) >= 0 /\ Balance(X, n) \in Int
        <3>1. n \in Nat
            OBVIOUS
        <3> QED
            BY <1>1, <3>1, BalanceStep
    <2> QED
        BY <1>4, <2>1, <2>2
<1>6. \A n \in 1 .. Len(big) : n = x + 2 \/ (n - 1 \in 0 .. x /\ n = 1 + (n - 1))
    BY <1>1, <1>2
<1>7. Balance(big, x + 1) = 1
    <2>1. x \in 0 .. x
        BY <1>1
    <2>2. Balance(big, 1 + x) = 1
        BY <1>1, <1>5, <2>1
    <2> QED
        BY <1>1, <2>2
<1>8. Balance(big, x + 2) = 0
    <2>1. x + 1 \in Nat /\ (x + 1) + 1 = x + 2
        BY <1>1
    <2>2. Balance(big, x + 2) = Balance(big, x + 1) + IF big[x+2] = "(" THEN 1 ELSE IF big[x+2] = ")" THEN -1 ELSE 0
        BY <2>1, BalanceStep
    <2> QED
        BY <1>2, <1>7, <2>2
<1>9. big \in Expression
    <2>1. ASSUME NEW n \in 1 .. Len(big)
          PROVE  Balance(big, n) >= 0
        <3>1. CASE n = x + 2
            BY <1>8, <3>1
        <3>2. CASE n - 1 \in 0 .. x /\ n = 1 + (n - 1)
            <4> DEFINE i == n - 1
            <4>1. i \in 0 .. x /\ n = 1 + i
                BY <3>2
            <4> HIDE DEF i
            <4>2. Balance(big, 1 + i) >= 1 /\ Balance(big, 1 + i) \in Int
                <5>1. 1 + i \in Nat
                    BY <1>1, <4>1
                <5> QED
                    BY <1>5, <4>1, <5>1, BalanceStep
            <4> QED
                BY <4>1, <4>2
        <3> QED
            BY <1>6, <3>1, <3>2
    <2> QED
        BY <1>2, <1>8, <2>1 DEF Expression, Matched
<1>10. Closed(big)
    <2> SUFFICES ASSUME NEW n \in 1 .. Len(big), big[n] = "||"
                 PROVE  Balance(big, n) >= 1
        BY DEF Closed
    <2>1. n # x + 2
        BY <1>2
    <2> DEFINE i == n - 1
    <2>2. i \in 0 .. x /\ n = 1 + i
        BY <1>6, <2>1
    <2> HIDE DEF i
    <2> QED
        BY <1>5, <2>2
\* The frames before X, after it, and after the last parenthesis.
<1>11. R[0] = [d \in 0 .. Len(big) |-> Fresh] /\ 0 \in 0 .. Len(big) /\ 1 \in 0 .. Len(big)
    BY <1>1, <1>2, ReadingSteps DEF R
<1>12. R[1][1] = Fresh /\ R[1][0] = Fresh
    <2>1. 1 \in 1 .. Len(big) /\ 1 - 1 = 0
        BY <1>1, <1>2
    <2>2. Turns(big[1], Balance(big, 1 - 1), Balance(big, 1), Reading(big)[1 - 1], Reading(big)[1])
        BY <1>2, <1>4, <2>1, Effect
    <2>3. Turns("(", 0, 1, R[0], R[1])
        BY <1>2, <1>4, <2>2 DEF R
    <2>4. /\ R[1][0+1] = Fresh
          /\ \A j \in DOMAIN R[0] : j # 0 + 1 => R[1][j] = R[0][j]
        BY <2>3 DEF Turns
    <2> QED
        BY <1>11, <2>4
<1>13. InStep(1, 0, R[1], Reading(X)[x], R[x+1])
    <2>1. Balance(big, 1) >= 0 /\ Reading(big)[1][Balance(big, 1)].current = Row
        BY <1>4, <1>12 DEF Fresh, R
    <2>2. InStep(Balance(big, 1), 0, Reading(big)[1], Reading(X)[Len(X)], Reading(big)[1 + Len(X)])
        BY <1>2, <2>1, ReadWhole
    <2>3. 1 + Len(X) = x + 1
        BY <1>1 DEF x
    <2> QED
        BY <1>4, <2>2, <2>3 DEF R, x
<1>14. /\ R[x+1][1].before = FX.before /\ R[x+1][1].current = FX.current
       /\ R[x+1][0] = Fresh
    <2>1. /\ R[x+1][1].before = Fresh.before \cup FX.before
          /\ R[x+1][1].current = Fresh.current \cap FX.current
          /\ \A j \in 0 .. 1 - 1 : R[x+1][j] = R[1][j]
        BY <1>12, <1>13 DEF InStep, FX
    <2>2. R[x+1][0] = R[1][0]
        BY <2>1
    <2> QED
        BY <1>3, <1>12, <2>1, <2>2 DEF Fresh, ReadFrame
<1>15. R[x+2][0] = Narrowed(Fresh, Value(R[x+1][1]))
    <2>1. x + 2 \in 1 .. Len(big) /\ (x + 2) - 1 = x + 1
        BY <1>1, <1>2
    <2>2. Turns(big[x+2], Balance(big, (x+2) - 1), Balance(big, x+2), Reading(big)[(x+2) - 1], Reading(big)[x+2])
        BY <1>2, <1>7, <2>1, Effect
    <2>3. Turns(")", 1, 0, R[x+1], R[x+2])
        BY <1>2, <1>7, <1>8, <2>1, <2>2 DEF R
    <2>4. R[x+2][1-1] = Narrowed(R[x+1][1-1], Value(R[x+1][1]))
        BY <2>3 DEF Turns
    <2> QED
        BY <1>14, <2>4
<1>16. R[x+2][0].before = {} /\ R[x+2][0].current = Row \cap (FX.before \cup FX.current)
    BY <1>14, <1>15 DEF Narrowed, Fresh, Value
<1>17. RowsWhere(big) = RowsWhere(X)
    BY <1>3, <1>16 DEF ReadFrame
<1> QED
    BY <1>9, <1>10, <1>17 DEF big
\* An expression without a || outside its parentheses has all of them inside.
LEMMA NoOuterOr ==
    ASSUME NEW ts \in Expression, ~\E i \in DOMAIN ts : ts[i] = "||" /\ Balance(ts, i) = 0
    PROVE  Closed(ts)
<1> SUFFICES ASSUME NEW n \in 1 .. Len(ts), ts[n] = "||"
             PROVE  Balance(ts, n) >= 1
    BY DEF Closed
<1>1. /\ ts \in Seq(Token) /\ Len(ts) \in Nat
      /\ \A m \in 0 .. Len(ts) : Balance(ts, m) >= 0
    BY ExpressionParts
<1>2. n \in DOMAIN ts /\ n \in 0 .. Len(ts) /\ n \in Nat
    BY <1>1
<1>3. Balance(ts, n) # 0 /\ Balance(ts, n) >= 0
    BY <1>1, <1>2
<1>4. Balance(ts, n) \in Int
    BY <1>2, BalanceStep
<1> QED
    BY <1>3, <1>4

\* A text of one token that is no parenthesis, and the empty one.
LEMMA OneToken ==
    ASSUME NEW t \in Token, t \notin {"(", ")", "||", "&&"}
    PROVE  /\ <<t>> \in Expression /\ Closed(<<t>>)
           /\ RowsWhere(<<t>>) = Row \cap Meaning(t)
<1> DEFINE ts == <<t>>
<1>1. ts \in Seq(Token) /\ Len(ts) = 1 /\ ts[1] = t
    OBVIOUS
<1> HIDE DEF ts
<1>2. Balance(ts, 0) = 0
    BY BalanceStep
<1>3. Turns(ts[1], Balance(ts, 1 - 1), Balance(ts, 1), Reading(ts)[1 - 1], Reading(ts)[1])
    <2>1. 1 \in 1 .. Len(ts) /\ Balance(ts, 1 - 1) >= 0
        BY <1>1, <1>2
    <2> QED
        BY <1>1, <2>1, Effect
<1>4. Turns(t, 0, Balance(ts, 1), Reading(ts)[0], Reading(ts)[1])
    BY <1>1, <1>2, <1>3
<1>5. Balance(ts, 1) = 0 /\ Reading(ts)[1][0] = Narrowed(Reading(ts)[0][0], Meaning(t))
    BY <1>4 DEF Turns
<1>6. Reading(ts)[0][0] = Fresh
    <2>1. Reading(ts)[0] = [d \in 0 .. Len(ts) |-> Fresh] /\ 0 \in 0 .. Len(ts)
        BY <1>1, ReadingSteps
    <2> QED
        BY <2>1
<1>7. RowsWhere(ts) = Row \cap Meaning(t)
    BY <1>1, <1>5, <1>6 DEF RowsWhere, Value, Narrowed, Fresh
<1>8. ts \in Expression /\ Closed(ts)
    <2>1. \A n \in 1 .. Len(ts) : n = 1 /\ ts[n] = t
        BY <1>1
    <2>2. t # "||"
        OBVIOUS
    <2>3. Closed(ts)
        BY <2>1, <2>2 DEF Closed
    <2>4. \A n \in 1 .. Len(ts) : Balance(ts, n) >= 0
        BY <1>5, <2>1
    <2>5. Balance(ts, Len(ts)) = 0
        BY <1>1, <1>5
    <2> QED
        BY <1>1, <2>3, <2>4, <2>5 DEF Expression, Matched
<1> QED
    BY <1>7, <1>8 DEF ts

\* The constants.
LEMMA Constants ==
    /\ True \in Expression /\ RowsWhere(True) = Row /\ Compiles(True)
    /\ False \in Expression /\ RowsWhere(False) = {} /\ Compiles(False)
    /\ Closed(True) /\ Closed(False)
    /\ Blank \in Expression /\ Blank # True /\ Blank # False /\ True # False
<1>1. "true" \in Token /\ "false" \in Token /\ "true" \notin Atom /\ "false" \notin Atom
    BY FilterTextAssumption DEF Token, Word
<1>2. Meaning("true") = Row /\ Meaning("false") = {}
    BY DEF Meaning
<1>3. /\ True \in Expression /\ RowsWhere(True) = Row /\ Closed(True)
      /\ False \in Expression /\ RowsWhere(False) = {} /\ Closed(False)
    BY <1>1, <1>2, OneToken DEF True, False
<1>4. Blank \in Expression
    <2>1. Blank \in Seq(Token) /\ Len(Blank) = 0
        BY DEF Blank
    <2>2. Balance(Blank, 0) = 0
        BY BalanceStep
    <2> QED
        BY <2>1, <2>2 DEF Expression, Matched
<1>5. Blank # True /\ Blank # False /\ True # False
    <2>1. Len(Blank) = 0 /\ Len(True) = 1 /\ Len(False) = 1 /\ True[1] = "true" /\ False[1] = "false"
        BY DEF Blank, True, False
    <2> QED
        BY <2>1
<1>6. Compiles(True) /\ Compiles(False)
    <2>1. ToSet(True) = {"true"} /\ ToSet(False) = {"false"}
        BY DEF True, False, ToSet
    <2> QED
        BY <1>1, <1>5, <2>1 DEF Compiles
<1> QED
    BY <1>3, <1>4, <1>5, <1>6
\* A text compiles if each of its conditions does.
LEMMA CompilesParts ==
    ASSUME NEW ts \in Seq(Token)
    PROVE  Compiles(ts) <=>
              /\ ts # Blank
              /\ \A i \in 1 .. Len(ts) : ts[i] \in Atom => ts[i] \in DOMAIN Holds
<1>1. DOMAIN ts = 1 .. Len(ts)
    OBVIOUS
<1> QED
    BY <1>1 DEF Compiles, ToSet

\* Joined texts compile if both do.
LEMMA JoinCompiles ==
    ASSUME NEW X \in Seq(Token), NEW Y \in Seq(Token), NEW t \in {"&&", "||"},
           X # Blank, Y # Blank, NEW big, big = JoinedBy(t, X, Y)
    PROVE  /\ Compiles(big) <=> Compiles(X) /\ Compiles(Y)
           /\ big # Blank /\ big # True /\ big # False
<1>1. t \in Token /\ t \notin Atom
    BY FilterTextAssumption DEF Token, Word
<1>2. /\ big \in Seq(Token) /\ Len(big) = Len(X) + 1 + Len(Y)
      /\ Stands(X, big, 0) /\ Stands(Y, big, Len(X) + 1)
    BY <1>1, JoinShape
<1>3. big[Len(X) + 1] = t
    BY <1>1 DEF JoinedBy
<1>4. Len(X) \in Nat /\ Len(Y) \in Nat /\ Len(X) >= 1
    BY DEF Blank
<1>5. /\ \A i \in 1 .. Len(X) : i \in 1 .. Len(big) /\ big[i] = X[i]
      /\ \A i \in 1 .. Len(Y) : Len(X) + 1 + i \in 1 .. Len(big) /\ big[Len(X) + 1 + i] = Y[i]
    <2>1. ASSUME NEW i \in 1 .. Len(X)
          PROVE  i \in 1 .. Len(big) /\ big[i] = X[i]
        <3>1. big[0+i] = X[i] /\ 0 + i = i
            BY <1>2 DEF Stands
        <3> QED
            BY <1>2, <1>4, <3>1
    <2>2. ASSUME NEW i \in 1 .. Len(Y)
          PROVE  Len(X) + 1 + i \in 1 .. Len(big) /\ big[Len(X) + 1 + i] = Y[i]
        <3>1. big[Len(X) + 1 + i] = Y[i]
            BY <1>2 DEF Stands
        <3> QED
            BY <1>2, <1>4, <3>1
    <2> QED
        BY <2>1, <2>2
<1>6. \A n \in 1 .. Len(big) : \/ n \in 1 .. Len(X)
                              \/ n = Len(X) + 1
                              \/ \E i \in 1 .. Len(Y) : n = Len(X) + 1 + i
    <2> SUFFICES ASSUME NEW n \in 1 .. Len(big), n \notin 1 .. Len(X), n # Len(X) + 1
                 PROVE  \E i \in 1 .. Len(Y) : n = Len(X) + 1 + i
        OBVIOUS
    <2> DEFINE i == n - (Len(X) + 1)
    <2>1. i \in 1 .. Len(Y) /\ n = Len(X) + 1 + i
        BY <1>2, <1>4
    <2> QED
        BY <2>1
<1>7. big # Blank /\ big # True /\ big # False
    <2>1. Len(big) # 0 /\ Len(big) # 1
        BY <1>2, <1>4
    <2>2. Len(Blank) = 0 /\ Len(True) = 1 /\ Len(False) = 1
        BY DEF Blank, True, False
    <2> QED
        BY <2>1, <2>2
<1> DEFINE Fine(ts) == \A i \in 1 .. Len(ts) : ts[i] \in Atom => ts[i] \in DOMAIN Holds
<1>8. ASSUME Fine(big)
      PROVE  Fine(X) /\ Fine(Y)
    <2>1. Fine(X)
        BY <1>5, <1>8
    <2>2. ASSUME NEW i \in 1 .. Len(Y)
          PROVE  Y[i] \in Atom => Y[i] \in DOMAIN Holds
        <3>1. Len(X) + 1 + i \in 1 .. Len(big) /\ big[Len(X) + 1 + i] = Y[i]
            BY <1>5
        <3> QED
            BY <1>8, <3>1
    <2>3. Fine(Y)
        BY <2>2
    <2> HIDE DEF Fine
    <2> QED
        BY <2>1, <2>3
<1>9. ASSUME Fine(X), Fine(Y), NEW n \in 1 .. Len(big)
      PROVE  big[n] \in Atom => big[n] \in DOMAIN Holds
    <2>1. CASE n \in 1 .. Len(X)
        BY <1>5, <1>9, <2>1
    <2>2. CASE n = Len(X) + 1
        BY <1>1, <1>3, <2>2
    <2>3. CASE \E i \in 1 .. Len(Y) : n = Len(X) + 1 + i
        BY <1>5, <1>9, <2>3
    <2> QED
        BY <1>6, <2>1, <2>2, <2>3
<1>10. Fine(big) <=> Fine(X) /\ Fine(Y)
    BY <1>8, <1>9
<1> QED
    BY <1>2, <1>7, <1>10, CompilesParts

\* A text in parentheses compiles if the text does.
LEMMA ParenCompiles ==
    ASSUME NEW X \in Seq(Token), X # Blank
    PROVE  /\ Compiles(InParens(X)) <=> Compiles(X)
           /\ InParens(X) # Blank /\ InParens(X) # True /\ InParens(X) # False
<1> DEFINE big == InParens(X)
           Fine(ts) == \A i \in 1 .. Len(ts) : ts[i] \in Atom => ts[i] \in DOMAIN Holds
<1>1. /\ big \in Seq(Token) /\ Len(big) = Len(X) + 2 /\ Stands(X, big, 1)
      /\ big[1] = "(" /\ big[Len(X) + 2] = ")" /\ Len(X) \in Nat
    BY ParenShape
<1> HIDE DEF big
<1>2. "(" \notin Atom /\ ")" \notin Atom
    BY FilterTextAssumption DEF Word
<1>3. big # Blank /\ big # True /\ big # False
    <2>1. Len(Blank) = 0 /\ Len(True) = 1 /\ Len(False) = 1
        BY DEF Blank, True, False
    <2> QED
        BY <1>1, <2>1
<1>4. \A i \in 1 .. Len(X) : 1 + i \in 1 .. Len(big) /\ big[1 + i] = X[i]
    BY <1>1 DEF Stands
<1>5. ASSUME Fine(big)
      PROVE  Fine(X)
    <2> SUFFICES ASSUME NEW i \in 1 .. Len(X)
                 PROVE  X[i] \in Atom => X[i] \in DOMAIN Holds
        OBVIOUS
    <2>1. 1 + i \in 1 .. Len(big) /\ big[1 + i] = X[i]
        BY <1>4
    <2> QED
        BY <1>5, <2>1
<1>6. ASSUME Fine(X)
      PROVE  Fine(big)
    <2> SUFFICES ASSUME NEW n \in 1 .. Len(big)
                 PROVE  big[n] \in Atom => big[n] \in DOMAIN Holds
        OBVIOUS
    <2>1. CASE n = 1 \/ n = Len(X) + 2
        BY <1>1, <1>2, <2>1
    <2>2. CASE n # 1 /\ n # Len(X) + 2
        <3> DEFINE i == n - 1
        <3>1. i \in 1 .. Len(X) /\ n = 1 + i
            BY <1>1, <2>2
        <3> HIDE DEF i
        <3> QED
            BY <1>4, <1>6, <3>1
    <2> QED
        BY <2>1, <2>2
<1>7. Compiles(big) <=> Compiles(X)
    BY <1>1, <1>3, <1>5, <1>6, CompilesParts
<1> QED
    BY <1>3, <1>7 DEF big

\* What is joined of an expression means the same; it is all inside parentheses
\* unless the expression is misread.
LEMMA PartMeans ==
    ASSUME NEW ts \in Expression
    PROVE  /\ Part(ts) \in Expression /\ RowsWhere(Part(ts)) = RowsWhere(ts)
           /\ ts \notin {Blank, True, False} =>
                 Part(ts) \notin {Blank, True, False} /\ (Compiles(Part(ts)) <=> Compiles(ts))
           /\ ~Misread(ts) => Closed(Part(ts))
<1>1. ts \in Seq(Token)
    BY ExpressionParts
<1>2. CASE ts \in {Blank, True, False}
    <2>1. Part(ts) = ts
        BY <1>2 DEF Part, WrapExpr
    <2>2. Closed(ts)
        <3>1. Closed(Blank)
            BY DEF Closed, Blank
        <3> QED
            BY <1>2, <3>1, Constants
    <2> QED
        BY <1>2, <2>1, <2>2
<1>3. CASE ts \notin {Blank, True, False} /\ IsWrappedExpr(ts)
    <2>1. Part(ts) = ts
        BY <1>3 DEF Part, WrapExpr
    <2>2. ~Misread(ts) => Closed(ts)
        BY <1>3, NoOuterOr DEF Misread
    <2> QED
        BY <1>3, <2>1, <2>2
<1>4. CASE ts \notin {Blank, True, False} /\ ~IsWrappedExpr(ts)
    <2>1. Part(ts) = InParens(ts)
        BY <1>4 DEF Part, WrapExpr
    <2> QED
        BY <1>1, <1>4, <2>1, ParenMeans, ParenCompiles
<1> QED
    BY <1>2, <1>3, <1>4
-----------------------------------------------------------------------------
(***************************************************************************)
(* What combineExprs gives.                                                *)
(***************************************************************************)
\* The texts among the first n that the loop keeps.
Kept(texts, identity, n) == { i \in 1 .. n : texts[i] \notin {Blank, identity} }

\* One round of the loop.
Round(sofar, text, identity, joiner) ==
    IF text \in {Blank, identity} THEN sofar
    ELSE IF sofar = Blank THEN Part(text) ELSE JoinedBy(joiner, sofar, Part(text))

\* A round gives an expression again.
LEMMA RoundGives ==
    ASSUME NEW sofar \in Expression, NEW text \in Expression, NEW identity,
           NEW joiner \in {"&&", "||"}
    PROVE  Round(sofar, text, identity, joiner) \in Expression
<1>1. Part(text) \in Expression
    BY PartMeans
<1>2. JoinedBy(joiner, sofar, Part(text)) \in Expression
    BY <1>1, JoinBalance
<1> QED
    BY <1>1, <1>2 DEF Round

\* What the recursive function Joining gives.
LEMMA JoiningSteps ==
    ASSUME NEW texts \in Seq(Expression), NEW identity, NEW joiner \in {"&&", "||"}
    PROVE  LET joined == Joining(texts, identity, joiner) IN
           /\ joined \in [0 .. Len(texts) -> Expression]
           /\ joined[0] = Blank
           /\ \A n \in 1 .. Len(texts) : joined[n] = Round(joined[n-1], texts[n], identity, joiner)
<1> DEFINE N == Len(texts)
           T == Expression
           step == [n \in 1 .. N |-> [sofar \in T |-> Round(sofar, texts[n], identity, joiner)]]
           Is(f) == f = [n \in 0 .. N |->
                           CASE n = 0 -> Blank
                             [] n > 0 /\ texts[n] \in {Blank, identity} -> f[n-1]
                             [] OTHER -> IF f[n-1] = Blank THEN Part(texts[n])
                                         ELSE JoinedBy(joiner, f[n-1], Part(texts[n]))]
<1>1. N \in Nat /\ Blank \in T
    BY Constants
<1>2. \A n \in 1 .. N : texts[n] \in Expression
    OBVIOUS
<1>3. step \in [1 .. N -> [T -> T]]
    <2> SUFFICES ASSUME NEW n \in 1 .. N, NEW sofar \in T
                 PROVE  Round(sofar, texts[n], identity, joiner) \in T
        OBVIOUS
    <2> QED
        BY <1>2, RoundGives
<1>4. PICK f : Follows(f, N, T, Blank, step)
    <2> HIDE DEF N, T, step
    <2> QED
        BY <1>1, <1>3, Recursion
<1>5. f \in [0 .. N -> T] /\ f[0] = Blank
      /\ \A n \in 1 .. N : f[n] = Round(f[n-1], texts[n], identity, joiner)
    <2>1. f \in [0 .. N -> T] /\ f[0] = Blank
        <3> HIDE DEF N, T, step
        <3> QED
            BY <1>4 DEF Follows
    <2>2. ASSUME NEW n \in 1 .. N
          PROVE  f[n] = Round(f[n-1], texts[n], identity, joiner)
        <3>1. n - 1 \in 0 .. N
            BY <1>1
        <3>2. f[n] = step[n][f[n-1]]
            <4> HIDE DEF N, T, step
            <4> QED
                BY <1>4 DEF Follows
        <3>3. f[n-1] \in T
            <4> HIDE DEF N, T
            <4> QED
                BY <2>1, <3>1
        <3> HIDE DEF T
        <3> QED
            BY <3>2, <3>3
    <2> QED
        BY <2>1, <2>2
<1> HIDE DEF N, T, step
<1>6. Is(f)
    <2> DEFINE g == [n \in 0 .. N |->
                       CASE n = 0 -> Blank
                         [] n > 0 /\ texts[n] \in {Blank, identity} -> f[n-1]
                         [] OTHER -> IF f[n-1] = Blank THEN Part(texts[n])
                                     ELSE JoinedBy(joiner, f[n-1], Part(texts[n]))]
    <2>1. ASSUME NEW n \in 0 .. N
          PROVE  f[n] = g[n]
        <3>1. CASE n = 0
            BY <1>5, <3>1
        <3>2. CASE n # 0
            <4>1. n \in 1 .. N /\ n > 0
                BY <1>1, <3>2
            <4>2. f[n] = Round(f[n-1], texts[n], identity, joiner)
                BY <1>5, <4>1
            <4>3. g[n] = Round(f[n-1], texts[n], identity, joiner)
                BY <3>2, <4>1 DEF Round
            <4> QED
                BY <4>2, <4>3
        <3> QED
            BY <3>1, <3>2
    <2>2. DOMAIN g = 0 .. N /\ DOMAIN f = 0 .. N
        BY <1>5
    <2> QED
        BY <1>5, <2>1
<1>7. Joining(texts, identity, joiner) = CHOOSE g : Is(g)
    BY DEF Joining, N
<1> DEFINE joined == Joining(texts, identity, joiner)
<1> HIDE DEF joined
<1>8. Is(joined)
    <2> HIDE DEF Is
    <2> QED
        BY <1>6, <1>7 DEF joined
<1>9. joined[0] = Blank
    BY <1>1, <1>8
<1>10. \A n \in 1 .. N : joined[n] = Round(joined[n-1], texts[n], identity, joiner)
    <2> SUFFICES ASSUME NEW n \in 1 .. N
                 PROVE  joined[n] = Round(joined[n-1], texts[n], identity, joiner)
        OBVIOUS
    <2>1. n \in 0 .. N /\ n # 0 /\ n > 0
        BY <1>1
    <2>2. joined[n] = CASE n = 0 -> Blank
                        [] n > 0 /\ texts[n] \in {Blank, identity} -> joined[n-1]
                        [] OTHER -> IF joined[n-1] = Blank THEN Part(texts[n])
                                    ELSE JoinedBy(joiner, joined[n-1], Part(texts[n]))
        BY <1>8, <2>1
    <2> QED
        BY <2>1, <2>2 DEF Round
<1>11. joined \in [0 .. N -> T]
    <2> DEFINE S == { n \in 0 .. N : joined[n] \in T }
    <2>1. 0 \in S
        BY <1>1, <1>9
    <2>2. ASSUME NEW n \in 1 .. N, n - 1 \in S
          PROVE  n \in S
        <3>1. Round(joined[n-1], texts[n], identity, joiner) \in T
            BY <1>2, <2>2, RoundGives DEF T, N
        <3> QED
            BY <1>10, <3>1
    <2>3. 0 .. N \subseteq S
        <3> HIDE DEF S
        <3> QED
            BY <1>1, <2>1, <2>2, Induction
    <2>4. joined = [n \in 0 .. N |-> joined[n]]
        BY <1>8
    <2> QED
        BY <2>3, <2>4
<1> QED
    BY <1>9, <1>10, <1>11 DEF joined, N, T
\* What J, the first n of the texts joined, means: of those the loop keeps, one
\* is true of each of its rows, or all are.
JoinsKept(texts, identity, joiner, n, J) ==
    LET K == Kept(texts, identity, n)
        sound == \A i \in K : ~Misread(texts[i])
    IN  /\ J \in Expression /\ J # True /\ J # False
        /\ J = Blank <=> K = {}
        /\ J # Blank => (Compiles(J) <=> \A i \in K : Compiles(texts[i]))
        /\ joiner = "&&" /\ sound => Closed(J)
        /\ joiner = "||" /\ J # Blank =>
              RowsWhere(J) = { row \in Row : \E i \in K : row \in RowsWhere(texts[i]) }
        /\ joiner = "&&" /\ J # Blank /\ (n <= 1 \/ sound) =>
              RowsWhere(J) = { row \in Row : \A i \in K : row \in RowsWhere(texts[i]) }

\* Each round keeps that.
LEMMA RoundMeans ==
    ASSUME NEW texts \in Seq(Expression), NEW identity \in {True, False}, NEW joiner \in {"&&", "||"},
           \A i \in 1 .. Len(texts) : texts[i] \notin {True, False} \ {identity},
           NEW n \in 1 .. Len(texts), NEW J, JoinsKept(texts, identity, joiner, n - 1, J)
    PROVE  JoinsKept(texts, identity, joiner, n, Round(J, texts[n], identity, joiner))
<1> DEFINE t == texts[n]
           K == Kept(texts, identity, n - 1)
           L == Kept(texts, identity, n)
           P == Part(t)
           G == Round(J, t, identity, joiner)
<1>1. /\ n \in Nat /\ n - 1 \in Nat /\ t \in Expression
      /\ \A i \in L : i \in 1 .. Len(texts) /\ texts[i] \in Expression
      /\ \A i \in K : i \in 1 .. Len(texts) /\ texts[i] \in Expression
    BY DEF Kept
<1>2. L = IF t \in {Blank, identity} THEN K ELSE K \cup {n}
    BY DEF Kept
<1>3. /\ J \in Expression /\ J # True /\ J # False
      /\ J = Blank <=> K = {}
      /\ J # Blank => (Compiles(J) <=> \A i \in K : Compiles(texts[i]))
      /\ joiner = "&&" /\ (\A i \in K : ~Misread(texts[i])) => Closed(J)
      /\ joiner = "||" /\ J # Blank =>
            RowsWhere(J) = { row \in Row : \E i \in K : row \in RowsWhere(texts[i]) }
      /\ joiner = "&&" /\ J # Blank /\ (n - 1 <= 1 \/ \A i \in K : ~Misread(texts[i])) =>
            RowsWhere(J) = { row \in Row : \A i \in K : row \in RowsWhere(texts[i]) }
    BY DEF JoinsKept
<1>4. t \notin {True, False} \ {identity}
    OBVIOUS
<1>5. \A X \in Expression : X \in Seq(Token) /\ RowsWhere(X) \subseteq Row
    BY ExpressionParts, MeansRows
<1> SUFFICES JoinsKept(texts, identity, joiner, n, G)
    OBVIOUS
<1>6. CASE t \in {Blank, identity}
    <2>1. G = J /\ L = K
        BY <1>2, <1>6 DEF Round
    <2>2. joiner = "&&" /\ J # Blank /\ (n <= 1 \/ \A i \in K : ~Misread(texts[i])) =>
              RowsWhere(J) = { row \in Row : \A i \in K : row \in RowsWhere(texts[i]) }
        BY <1>1, <1>3
    <2> HIDE DEF G, K, L
    <2>3. Kept(texts, identity, n) = K
        BY <2>1 DEF L
    <2> QED
        BY <1>3, <2>1, <2>2, <2>3 DEF JoinsKept
<1>7. CASE t \notin {Blank, identity}
    <2>1. t \notin {Blank, True, False}
        BY <1>4, <1>7
    <2>2. /\ P \in Expression /\ RowsWhere(P) = RowsWhere(t) /\ P \notin {Blank, True, False}
          /\ Compiles(P) <=> Compiles(t)
          /\ ~Misread(t) => Closed(P)
        BY <1>1, <2>1, PartMeans
    <2>3. L = K \cup {n} /\ n \notin K
        BY <1>2, <1>7 DEF Kept
    <2>4. G = IF J = Blank THEN P ELSE JoinedBy(joiner, J, P)
        BY <1>7 DEF Round
    <2>5. RowsWhere(t) \subseteq Row
        BY <1>1, <1>5
    <2>6. CASE J = Blank
        <3>1. K = {} /\ L = {n} /\ G = P
            BY <1>3, <2>3, <2>4, <2>6
        <3>2. /\ RowsWhere(P) = { row \in Row : \E i \in L : row \in RowsWhere(texts[i]) }
              /\ RowsWhere(P) = { row \in Row : \A i \in L : row \in RowsWhere(texts[i]) }
            BY <2>2, <2>5, <3>1
        <3>3. (\A i \in L : ~Misread(texts[i])) => Closed(P)
            BY <2>2, <3>1
        <3>4. Compiles(P) <=> \A i \in L : Compiles(texts[i])
            BY <2>2, <3>1
        <3> HIDE DEF G, K, L, P
        <3>5. Kept(texts, identity, n) = L
            BY DEF L
        <3> QED
            BY <2>2, <3>1, <3>2, <3>3, <3>4, <3>5 DEF JoinsKept
    <2>7. CASE J # Blank
        <3>1. G = JoinedBy(joiner, J, P) /\ K # {}
            BY <1>3, <2>4, <2>7
        <3>2. G \in Expression /\ (Closed(J) /\ Closed(P) /\ joiner = "&&" => Closed(G))
            BY <1>3, <2>2, <3>1, JoinBalance
        <3>3. /\ Compiles(G) <=> Compiles(J) /\ Compiles(P)
              /\ G # Blank /\ G # True /\ G # False
            BY <1>3, <1>5, <2>2, <2>7, <3>1, JoinCompiles
        <3>4. /\ joiner = "||" => RowsWhere(G) = RowsWhere(J) \cup RowsWhere(P)
              /\ joiner = "&&" /\ Closed(J) /\ Closed(P) => RowsWhere(G) = RowsWhere(J) \cap RowsWhere(P)
            BY <1>3, <2>2, <3>1, JoinMeans
        <3>5. n > 1
            BY <1>1, <3>1 DEF Kept
        <3>6. Compiles(G) <=> \A i \in L : Compiles(texts[i])
            BY <1>3, <2>2, <2>3, <2>7, <3>3
        <3>7. joiner = "&&" /\ (\A i \in L : ~Misread(texts[i])) => Closed(J) /\ Closed(P) /\ Closed(G)
            BY <1>3, <2>2, <2>3, <3>2
        <3>8. joiner = "||" => RowsWhere(G) = { row \in Row : \E i \in L : row \in RowsWhere(texts[i]) }
            BY <1>3, <2>2, <2>3, <2>5, <2>7, <3>4
        <3>9. joiner = "&&" /\ (\A i \in L : ~Misread(texts[i])) =>
                  RowsWhere(G) = { row \in Row : \A i \in L : row \in RowsWhere(texts[i]) }
            <4> SUFFICES ASSUME joiner = "&&", \A i \in L : ~Misread(texts[i])
                         PROVE  RowsWhere(G) = { row \in Row : \A i \in L : row \in RowsWhere(texts[i]) }
                OBVIOUS
            <4>1. RowsWhere(J) = { row \in Row : \A i \in K : row \in RowsWhere(texts[i]) }
                BY <1>3, <2>3, <2>7
            <4>2. RowsWhere(G) = RowsWhere(J) \cap RowsWhere(t)
                BY <2>2, <3>4, <3>7
            <4> HIDE DEF G, K, L
            <4> QED
                BY <2>3, <2>5, <4>1, <4>2
        <3>10. L # {} /\ Kept(texts, identity, n) = L
            BY <2>3
        <3> HIDE DEF G, K, L, P
        <3> QED
            BY <1>1, <3>2, <3>3, <3>5, <3>6, <3>7, <3>8, <3>9, <3>10 DEF JoinsKept
    <2> QED
        BY <2>6, <2>7
<1> QED
    BY <1>6, <1>7

\* The loop, to its end.
LEMMA JoiningMeans ==
    ASSUME NEW texts \in Seq(Expression), NEW identity \in {True, False}, NEW joiner \in {"&&", "||"},
           \A i \in 1 .. Len(texts) : texts[i] \notin {True, False} \ {identity}
    PROVE  JoinsKept(texts, identity, joiner, Len(texts), Joining(texts, identity, joiner)[Len(texts)])
<1> DEFINE N == Len(texts)
           joined == Joining(texts, identity, joiner)
           S == { n \in 0 .. N : JoinsKept(texts, identity, joiner, n, joined[n]) }
<1>1. /\ N \in Nat /\ joined[0] = Blank
      /\ \A n \in 1 .. N : joined[n] = Round(joined[n-1], texts[n], identity, joiner)
    BY JoiningSteps
<1>2. 0 \in S
    <2>1. Kept(texts, identity, 0) = {}
        BY DEF Kept
    <2>2. Closed(Blank)
        BY DEF Closed, Blank
    <2>3. JoinsKept(texts, identity, joiner, 0, Blank)
        BY <2>1, <2>2, Constants DEF JoinsKept
    <2> QED
        BY <1>1, <2>3
<1>3. ASSUME NEW n \in 1 .. N, n - 1 \in S
      PROVE  n \in S
    <2>1. JoinsKept(texts, identity, joiner, n - 1, joined[n-1])
        BY <1>3
    <2>2. JoinsKept(texts, identity, joiner, n, Round(joined[n-1], texts[n], identity, joiner))
        BY <2>1, RoundMeans
    <2> QED
        BY <1>1, <2>2
<1>4. 0 .. N \subseteq S
    <2> HIDE DEF S
    <2> QED
        BY <1>1, <1>2, <1>3, Induction
<1>5. N \in 0 .. N
    BY <1>1
<1> QED
    BY <1>4, <1>5
\* Expressions that are not blank, as filters are.
Filters == Expression \ {Blank}

\* What an expression grants by itself.
LEMMA GrantingParts ==
    ASSUME NEW ts \in Expression
    PROVE  /\ Granting(ts) \subseteq Row
           /\ Compiles(ts) => Granting(ts) = RowsWhere(ts)
           /\ Granting(True) = Row /\ Granting(False) = {}
<1>1. RowsWhere(ts) \subseteq Row
    BY ExpressionParts, MeansRows
<1> QED
    BY <1>1, Constants DEF Granting

\* OrAllExprs.
LEMMA OrMeans ==
    ASSUME NEW texts \in Seq(Filters), NEW O, O = OrAllExprs(texts)
    PROVE  /\ O \in Filters
           /\ Compiles(O) <=> \/ \E i \in 1 .. Len(texts) : texts[i] = True
                              \/ \A i \in 1 .. Len(texts) : Compiles(texts[i])
           /\ O = False <=> \A i \in 1 .. Len(texts) : texts[i] = False
           /\ Compiles(O) =>
                 RowsWhere(O) = { row \in Row : \E i \in 1 .. Len(texts) : row \in Granting(texts[i]) }
<1> DEFINE N == Len(texts)
           J == Joining(texts, False, "||")[N]
           K == Kept(texts, False, N)
<1>1. /\ texts \in Seq(Expression) /\ N \in Nat
      /\ \A i \in 1 .. N : texts[i] \in Expression /\ texts[i] # Blank
    BY DEF Filters
<1>2. ToSet(texts) = { texts[i] : i \in 1 .. N }
    BY DEF ToSet
<1>3. \A i \in 1 .. N : /\ Granting(texts[i]) \subseteq Row
                        /\ Compiles(texts[i]) => Granting(texts[i]) = RowsWhere(texts[i])
    BY <1>1, GrantingParts
<1>4. CASE \E i \in 1 .. N : texts[i] = True
    <2>1. O = True
        BY <1>2, <1>4 DEF OrAllExprs, CombineExprs
    <2>2. { row \in Row : \E i \in 1 .. N : row \in Granting(texts[i]) } = Row
        BY <1>4, Constants, GrantingParts
    <2> QED
        BY <1>4, <2>1, <2>2, Constants DEF Filters
<1>5. CASE \A i \in 1 .. N : texts[i] # True
    <2>1. O = IF J = Blank THEN False ELSE J
        BY <1>2, <1>5 DEF OrAllExprs, CombineExprs
    <2>2. JoinsKept(texts, False, "||", N, J)
        <3>1. \A i \in 1 .. Len(texts) : texts[i] \notin {True, False} \ {False}
            BY <1>5
        <3> QED
            BY <1>1, <3>1, JoiningMeans
    <2> HIDE DEF J, K
    <2>3. /\ J \in Expression /\ J # True /\ J # False
          /\ J = Blank <=> K = {}
          /\ J # Blank => (Compiles(J) <=> \A i \in K : Compiles(texts[i]))
          /\ J # Blank => RowsWhere(J) = { row \in Row : \E i \in K : row \in RowsWhere(texts[i]) }
        BY <2>2 DEF JoinsKept, K
    <2>4. K = { i \in 1 .. N : texts[i] # False }
        BY <1>1 DEF K, Kept
    <2>5. CASE J = Blank
        <3>1. O = False /\ \A i \in 1 .. N : texts[i] = False
            BY <2>1, <2>3, <2>4, <2>5
        <3>2. \A i \in 1 .. N : Compiles(texts[i]) /\ Granting(texts[i]) = {}
            BY <3>1, Constants, GrantingParts
        <3>3. { row \in Row : \E i \in 1 .. N : row \in Granting(texts[i]) } = {}
            BY <3>2
        <3> QED
            BY <3>1, <3>2, <3>3, Constants DEF Filters
    <2>6. CASE J # Blank
        <3>1. O = J /\ \E i \in 1 .. N : texts[i] # False
            BY <2>1, <2>3, <2>4, <2>6
        <3>2. Compiles(J) <=> \A i \in 1 .. N : Compiles(texts[i])
            BY <2>3, <2>4, <2>6, Constants
        <3>3. ASSUME Compiles(J)
              PROVE  RowsWhere(J) = { row \in Row : \E i \in 1 .. N : row \in Granting(texts[i]) }
            <4>1. \A i \in K : i \in 1 .. N /\ RowsWhere(texts[i]) = Granting(texts[i])
                BY <1>3, <2>4, <3>2, <3>3
            <4>2. \A i \in 1 .. N : i \in K \/ Granting(texts[i]) = {}
                BY <2>4, Constants, GrantingParts
            <4> QED
                BY <2>3, <2>6, <4>1, <4>2
        <3> QED
            BY <1>5, <2>3, <2>6, <3>1, <3>2, <3>3 DEF Filters
    <2> QED
        BY <2>5, <2>6
<1> QED
    BY <1>4, <1>5

\* AndAllExprs.
LEMMA AndMeans ==
    ASSUME NEW texts \in Seq(Filters), NEW A, A = AndAllExprs(texts)
    PROVE  /\ A \in Filters
           /\ Compiles(A) <=> \/ \E i \in 1 .. Len(texts) : texts[i] = False
                              \/ \A i \in 1 .. Len(texts) : Compiles(texts[i])
           /\ Compiles(A) /\ (Len(texts) <= 1 \/ \A i \in 1 .. Len(texts) : ~Misread(texts[i])) =>
                 RowsWhere(A) = { row \in Row : \A i \in 1 .. Len(texts) : row \in Granting(texts[i]) }
<1> DEFINE N == Len(texts)
           J == Joining(texts, True, "&&")[N]
           K == Kept(texts, True, N)
<1>1. /\ texts \in Seq(Expression) /\ N \in Nat
      /\ \A i \in 1 .. N : texts[i] \in Expression /\ texts[i] # Blank
    BY DEF Filters
<1>2. ToSet(texts) = { texts[i] : i \in 1 .. N }
    BY DEF ToSet
<1>3. \A i \in 1 .. N : /\ Granting(texts[i]) \subseteq Row
                        /\ Compiles(texts[i]) => Granting(texts[i]) = RowsWhere(texts[i])
    BY <1>1, GrantingParts
<1>4. CASE \E i \in 1 .. N : texts[i] = False
    <2>1. A = False
        BY <1>2, <1>4 DEF AndAllExprs, CombineExprs
    <2>2. { row \in Row : \A i \in 1 .. N : row \in Granting(texts[i]) } = {}
        BY <1>4, Constants, GrantingParts
    <2> QED
        BY <1>4, <2>1, <2>2, Constants DEF Filters
<1>5. CASE \A i \in 1 .. N : texts[i] # False
    <2>1. A = IF J = Blank THEN True ELSE J
        BY <1>2, <1>5 DEF AndAllExprs, CombineExprs
    <2>2. JoinsKept(texts, True, "&&", N, J)
        <3>1. \A i \in 1 .. Len(texts) : texts[i] \notin {True, False} \ {True}
            BY <1>5
        <3> QED
            BY <1>1, <3>1, JoiningMeans
    <2> HIDE DEF J, K
    <2>3. /\ J \in Expression /\ J # True /\ J # False
          /\ J = Blank <=> K = {}
          /\ J # Blank => (Compiles(J) <=> \A i \in K : Compiles(texts[i]))
          /\ J # Blank /\ (N <= 1 \/ \A i \in K : ~Misread(texts[i])) =>
                RowsWhere(J) = { row \in Row : \A i \in K : row \in RowsWhere(texts[i]) }
        BY <2>2 DEF JoinsKept, K
    <2>4. K = { i \in 1 .. N : texts[i] # True }
        BY <1>1 DEF K, Kept
    <2>5. CASE J = Blank
        <3>1. A = True /\ \A i \in 1 .. N : texts[i] = True
            BY <2>1, <2>3, <2>4, <2>5
        <3>2. \A i \in 1 .. N : Compiles(texts[i]) /\ Granting(texts[i]) = Row
            BY <3>1, Constants, GrantingParts
        <3>3. { row \in Row : \A i \in 1 .. N : row \in Granting(texts[i]) } = Row
            BY <3>2
        <3> QED
            BY <3>1, <3>2, <3>3, Constants DEF Filters
    <2>6. CASE J # Blank
        <3>1. A = J
            BY <2>1, <2>6
        <3>2. Compiles(J) <=> \A i \in 1 .. N : Compiles(texts[i])
            BY <2>3, <2>4, <2>6, Constants
        <3>3. ASSUME Compiles(J), N <= 1 \/ \A i \in 1 .. N : ~Misread(texts[i])
              PROVE  RowsWhere(J) = { row \in Row : \A i \in 1 .. N : row \in Granting(texts[i]) }
            <4>1. \A i \in K : i \in 1 .. N /\ RowsWhere(texts[i]) = Granting(texts[i])
                BY <1>3, <2>4, <3>2, <3>3
            <4>2. \A i \in 1 .. N : i \in K \/ Granting(texts[i]) = Row
                BY <2>4, Constants, GrantingParts
            <4>3. RowsWhere(J) = { row \in Row : \A i \in K : row \in RowsWhere(texts[i]) }
                BY <2>3, <2>6, <3>3, <4>1
            <4> QED
                BY <4>1, <4>2, <4>3
        <3> QED
            BY <1>5, <2>3, <2>6, <3>1, <3>2, <3>3 DEF Filters
    <2> QED
        BY <2>5, <2>6
<1> QED
    BY <1>4, <1>5
-----------------------------------------------------------------------------
(***************************************************************************)
(* The text of a role, and the extra filters.                              *)
(***************************************************************************)
\* The text of one permission, whether it compiles and outweighs all others,
\* and the rows its filters grant.
PermText(fs) == IF fs = <<>> THEN True ELSE OrAllExprs(fs)
PermCompiles(fs) ==
    \/ \E i \in 1 .. Len(fs) : fs[i] = True
    \/ \A i \in 1 .. Len(fs) : Compiles(fs[i])
PermNone(fs) == fs # <<>> /\ \A i \in 1 .. Len(fs) : fs[i] = False
PermRows(fs) ==
    IF fs = <<>> THEN Row ELSE { row \in Row : \E i \in 1 .. Len(fs) : row \in Granting(fs[i]) }

\* What the text of a permission means.
LEMMA PermTextMeans ==
    ASSUME NEW fs \in Seq(Filters)
    PROVE  /\ PermText(fs) \in Filters
           /\ Compiles(PermText(fs)) <=> PermCompiles(fs)
           /\ PermText(fs) = False <=> PermNone(fs)
           /\ Compiles(PermText(fs)) => Granting(PermText(fs)) = PermRows(fs)
           /\ Misread(PermText(fs)) => Misread(OrAllExprs(fs))
<1>1. CASE fs = <<>>
    <2>1. PermText(fs) = True /\ PermRows(fs) = Row /\ ~PermNone(fs) /\ PermCompiles(fs)
        BY <1>1 DEF PermText, PermRows, PermNone, PermCompiles
    <2>2. ~Misread(True)
        <3>1. \A i \in DOMAIN True : True[i] # "||"
            BY DEF True
        <3> QED
            BY <3>1 DEF Misread
    <2> QED
        BY <2>1, <2>2, Constants, GrantingParts DEF Filters
<1>2. CASE fs # <<>>
    <2> DEFINE O == OrAllExprs(fs)
    <2>1. PermText(fs) = O
        BY <1>2 DEF PermText
    <2>2. /\ O \in Filters
          /\ Compiles(O) <=> PermCompiles(fs)
          /\ O = False <=> PermNone(fs)
          /\ Compiles(O) => RowsWhere(O) = PermRows(fs)
        BY <1>2, OrMeans DEF PermCompiles, PermNone, PermRows
    <2> HIDE DEF O
    <2>3. Compiles(O) => Granting(O) = RowsWhere(O)
        BY DEF Granting
    <2> QED
        BY <2>1, <2>2, <2>3 DEF O
<1> QED
    BY <1>1, <1>2

\* The text of a role compiles if each permission's does, or one of them is
\* false; it is true of the rows that the filters on every permission grant,
\* unless one of several is misread.
THEOREM RoleTextMeans ==
    ASSUME NEW P, NEW vs \in [P -> Seq(Filters)], NEW ps \in Seq(P),
           NEW A, A = BuildSingleRoleExpr(vs, ps)
    PROVE  /\ A \in Filters
           /\ Compiles(A) <=> \/ \E i \in 1 .. Len(ps) : PermNone(vs[ps[i]])
                              \/ \A i \in 1 .. Len(ps) : PermCompiles(vs[ps[i]])
           /\ Compiles(A) /\ (Len(ps) <= 1 \/ \A i \in 1 .. Len(ps) : ~Misread(OrAllExprs(vs[ps[i]]))) =>
                 RowsWhere(A) = { row \in Row : \A i \in 1 .. Len(ps) : row \in PermRows(vs[ps[i]]) }
<1> DEFINE N == Len(ps)
           texts == [i \in 1 .. N |-> PermText(vs[ps[i]])]
<1>1. N \in Nat /\ \A i \in 1 .. N : ps[i] \in P /\ vs[ps[i]] \in Seq(Filters)
    OBVIOUS
<1>2. \A i \in 1 .. N : /\ PermText(vs[ps[i]]) \in Filters
                        /\ Compiles(PermText(vs[ps[i]])) <=> PermCompiles(vs[ps[i]])
                        /\ PermText(vs[ps[i]]) = False <=> PermNone(vs[ps[i]])
                        /\ Compiles(PermText(vs[ps[i]])) =>
                               Granting(PermText(vs[ps[i]])) = PermRows(vs[ps[i]])
                        /\ Misread(PermText(vs[ps[i]])) => Misread(OrAllExprs(vs[ps[i]]))
    BY <1>1, PermTextMeans
<1>3. /\ texts \in Seq(Filters) /\ Len(texts) = N
      /\ \A i \in 1 .. N : texts[i] = PermText(vs[ps[i]])
    BY <1>1, <1>2
<1>4. A = AndAllExprs(texts)
    <2>1. DOMAIN ps = 1 .. N
        OBVIOUS
    <2> QED
        BY <2>1 DEF BuildSingleRoleExpr, PermText
<1> HIDE DEF texts, N
<1>5. /\ A \in Filters
      /\ Compiles(A) <=> \/ \E i \in 1 .. N : texts[i] = False
                         \/ \A i \in 1 .. N : Compiles(texts[i])
      /\ Compiles(A) /\ (N <= 1 \/ \A i \in 1 .. N : ~Misread(texts[i])) =>
            RowsWhere(A) = { row \in Row : \A i \in 1 .. N : row \in Granting(texts[i]) }
    BY <1>3, <1>4, AndMeans
<1>6. Compiles(A) <=> \/ \E i \in 1 .. N : PermNone(vs[ps[i]])
                      \/ \A i \in 1 .. N : PermCompiles(vs[ps[i]])
    BY <1>2, <1>3, <1>5
<1>7. ASSUME Compiles(A), N <= 1 \/ \A i \in 1 .. N : ~Misread(OrAllExprs(vs[ps[i]]))
      PROVE  RowsWhere(A) = { row \in Row : \A i \in 1 .. N : row \in PermRows(vs[ps[i]]) }
    <2>1. RowsWhere(A) = { row \in Row : \A i \in 1 .. N : row \in Granting(texts[i]) }
        BY <1>2, <1>3, <1>5, <1>7
    <2>2. CASE \A i \in 1 .. N : Compiles(texts[i])
        BY <1>2, <1>3, <2>1, <2>2
    <2>3. CASE \E i \in 1 .. N : texts[i] = False
        <3>1. PICK i \in 1 .. N : texts[i] = False
            BY <2>3
        <3>2. Granting(texts[i]) = {}
            BY <3>1, Constants, GrantingParts
        <3>3. PermRows(vs[ps[i]]) = {}
            BY <1>2, <1>3, <3>1, <3>2, Constants
        <3> QED
            BY <2>1, <3>2, <3>3
    <2> QED
        BY <1>5, <1>7, <2>2, <2>3
<1> QED
    BY <1>5, <1>6, <1>7 DEF N
\* One more extra filter.
Narrower(sofar, text) ==
    IF text = Blank THEN sofar
    ELSE IF sofar = Blank THEN text ELSE JoinedBy("&&", InParens(sofar), InParens(text))

\* What the recursive function ExtraFilters gives.
LEMMA ExtraSteps ==
    ASSUME NEW texts \in Seq(Expression)
    PROVE  LET extra == ExtraFilters(texts) IN
           /\ extra \in [0 .. Len(texts) -> Expression]
           /\ extra[0] = Blank
           /\ \A n \in 1 .. Len(texts) : extra[n] = Narrower(extra[n-1], texts[n])
<1> DEFINE N == Len(texts)
           T == Expression
           step == [n \in 1 .. N |-> [sofar \in T |-> Narrower(sofar, texts[n])]]
           Is(f) == f = [n \in 0 .. N |->
                           CASE n = 0 -> Blank
                             [] n > 0 /\ texts[n] = Blank -> f[n-1]
                             [] OTHER -> IF f[n-1] = Blank THEN texts[n]
                                         ELSE JoinedBy("&&", InParens(f[n-1]), InParens(texts[n]))]
<1>1. N \in Nat /\ Blank \in T
    BY Constants
<1>2. \A n \in 1 .. N : texts[n] \in Expression
    OBVIOUS
<1>3. \A X, Y \in T : Narrower(X, Y) \in T
    <2> SUFFICES ASSUME NEW X \in T, NEW Y \in T
                 PROVE  Narrower(X, Y) \in T
        OBVIOUS
    <2>1. InParens(X) \in Expression /\ InParens(Y) \in Expression
        BY ParenMeans
    <2>2. JoinedBy("&&", InParens(X), InParens(Y)) \in Expression
        BY <2>1, JoinBalance
    <2> QED
        BY <2>2 DEF Narrower
<1>4. step \in [1 .. N -> [T -> T]]
    BY <1>2, <1>3
<1>5. PICK f : Follows(f, N, T, Blank, step)
    <2> HIDE DEF N, T, step
    <2> QED
        BY <1>1, <1>4, Recursion
<1>6. f \in [0 .. N -> T] /\ f[0] = Blank
      /\ \A n \in 1 .. N : f[n] = Narrower(f[n-1], texts[n])
    <2>1. f \in [0 .. N -> T] /\ f[0] = Blank
        <3> HIDE DEF N, T, step
        <3> QED
            BY <1>5 DEF Follows
    <2>2. ASSUME NEW n \in 1 .. N
          PROVE  f[n] = Narrower(f[n-1], texts[n])
        <3>1. n - 1 \in 0 .. N
            BY <1>1
        <3>2. f[n] = step[n][f[n-1]]
            <4> HIDE DEF N, T, step
            <4> QED
                BY <1>5 DEF Follows
        <3>3. f[n-1] \in T
            <4> HIDE DEF N, T
            <4> QED
                BY <2>1, <3>1
        <3> HIDE DEF T
        <3> QED
            BY <3>2, <3>3
    <2> QED
        BY <2>1, <2>2
<1> HIDE DEF N, T, step
<1>7. Is(f)
    <2> DEFINE g == [n \in 0 .. N |->
                       CASE n = 0 -> Blank
                         [] n > 0 /\ texts[n] = Blank -> f[n-1]
                         [] OTHER -> IF f[n-1] = Blank THEN texts[n]
                                     ELSE JoinedBy("&&", InParens(f[n-1]), InParens(texts[n]))]
    <2>1. ASSUME NEW n \in 0 .. N
          PROVE  f[n] = g[n]
        <3>1. CASE n = 0
            BY <1>6, <3>1
        <3>2. CASE n # 0
            <4>1. n \in 1 .. N /\ n > 0
                BY <1>1, <3>2
            <4>2. f[n] = Narrower(f[n-1], texts[n])
                BY <1>6, <4>1
            <4>3. g[n] = Narrower(f[n-1], texts[n])
                BY <3>2, <4>1 DEF Narrower
            <4> QED
                BY <4>2, <4>3
        <3> QED
            BY <3>1, <3>2
    <2> QED
        BY <1>6, <2>1
<1>8. ExtraFilters(texts) = CHOOSE g : Is(g)
    BY DEF ExtraFilters, N
<1> DEFINE extra == ExtraFilters(texts)
<1> HIDE DEF extra
<1>9. Is(extra)
    <2> HIDE DEF Is
    <2> QED
        BY <1>7, <1>8 DEF extra
<1>10. extra[0] = Blank
    BY <1>1, <1>9
<1>11. \A n \in 1 .. N : extra[n] = Narrower(extra[n-1], texts[n])
    <2> SUFFICES ASSUME NEW n \in 1 .. N
                 PROVE  extra[n] = Narrower(extra[n-1], texts[n])
        OBVIOUS
    <2>1. n \in 0 .. N /\ n # 0 /\ n > 0
        BY <1>1
    <2>2. extra[n] = CASE n = 0 -> Blank
                       [] n > 0 /\ texts[n] = Blank -> extra[n-1]
                       [] OTHER -> IF extra[n-1] = Blank THEN texts[n]
                                   ELSE JoinedBy("&&", InParens(extra[n-1]), InParens(texts[n]))
        BY <1>9, <2>1
    <2> QED
        BY <2>1, <2>2 DEF Narrower
<1>12. extra \in [0 .. N -> T]
    <2> DEFINE S == { n \in 0 .. N : extra[n] \in T }
    <2>1. 0 \in S
        BY <1>1, <1>10
    <2>2. ASSUME NEW n \in 1 .. N, n - 1 \in S
          PROVE  n \in S
        <3>1. Narrower(extra[n-1], texts[n]) \in T
            BY <1>2, <1>3, <2>2 DEF T, N
        <3> QED
            BY <1>11, <3>1
    <2>3. 0 .. N \subseteq S
        <3> HIDE DEF S
        <3> QED
            BY <1>1, <2>1, <2>2, Induction
    <2>4. extra = [n \in 0 .. N |-> extra[n]]
        BY <1>9
    <2> QED
        BY <2>3, <2>4
<1> QED
    BY <1>10, <1>11, <1>12 DEF extra, N, T

\* The extra filters as one text: it compiles if all of them that are not blank
\* do, and is true of the rows that each of these is true of.
THEOREM ExtraMeans ==
    ASSUME NEW texts \in Seq(Expression), NEW E, E = ExtraFilterCEL(texts)
    PROVE  LET K == { i \in 1 .. Len(texts) : texts[i] # Blank } IN
           /\ E \in Expression
           /\ E = Blank <=> K = {}
           /\ E # Blank => (Compiles(E) <=> \A i \in K : Compiles(texts[i]))
           /\ E # Blank => RowsWhere(E) = { row \in Row : \A i \in K : row \in RowsWhere(texts[i]) }
<1> DEFINE N == Len(texts)
           extra == ExtraFilters(texts)
           K(n) == { i \in 1 .. n : texts[i] # Blank }
           Good(n, X) ==
               /\ X \in Expression
               /\ X = Blank <=> K(n) = {}
               /\ X # Blank => (Compiles(X) <=> \A i \in K(n) : Compiles(texts[i]))
               /\ X # Blank => RowsWhere(X) = { row \in Row : \A i \in K(n) : row \in RowsWhere(texts[i]) }
           S == { n \in 0 .. N : Good(n, extra[n]) }
<1>1. /\ N \in Nat /\ extra[0] = Blank
      /\ \A n \in 1 .. N : extra[n] = Narrower(extra[n-1], texts[n])
    BY ExtraSteps
<1>2. 0 \in S
    <2>1. K(0) = {}
        OBVIOUS
    <2>2. Good(0, Blank)
        BY <2>1, Constants
    <2> HIDE DEF Good
    <2> QED
        BY <1>1, <2>2
<1>3. ASSUME NEW n \in 1 .. N, n - 1 \in S
      PROVE  n \in S
    <2> DEFINE J == extra[n-1]
               t == texts[n]
               G == Narrower(J, t)
    <2>1. Good(n - 1, J) /\ t \in Expression /\ n \in 0 .. N
        BY <1>1, <1>3
    <2>2. K(n) = IF t = Blank THEN K(n-1) ELSE K(n-1) \cup {n}
        OBVIOUS
    <2>3. J \in Seq(Token) /\ t \in Seq(Token) /\ RowsWhere(t) \subseteq Row
        BY <2>1, ExpressionParts, MeansRows
    <2> HIDE DEF N, extra, J, S
    <2>4. Good(n, G)
        <3>1. CASE t = Blank
            <4>1. G = J /\ K(n) = K(n-1)
                BY <2>2, <3>1 DEF Narrower
            <4> HIDE DEF G, K, t
            <4> QED
                BY <2>1, <4>1
        <3>2. CASE t # Blank /\ J = Blank
            <4>1. G = t /\ K(n-1) = {} /\ K(n) = {n}
                BY <2>1, <2>2, <3>2 DEF Narrower
            <4> HIDE DEF G, K
            <4> QED
                BY <2>1, <2>3, <3>2, <4>1
        <3>3. CASE t # Blank /\ J # Blank
            <4>1. G = JoinedBy("&&", InParens(J), InParens(t)) /\ K(n) = K(n-1) \cup {n}
                BY <2>2, <3>3 DEF Narrower
            <4>2. /\ InParens(J) \in Expression /\ Closed(InParens(J)) /\ RowsWhere(InParens(J)) = RowsWhere(J)
                  /\ InParens(t) \in Expression /\ Closed(InParens(t)) /\ RowsWhere(InParens(t)) = RowsWhere(t)
                BY <2>1, ParenMeans
            <4>3. /\ InParens(J) # Blank /\ (Compiles(InParens(J)) <=> Compiles(J))
                  /\ InParens(t) # Blank /\ (Compiles(InParens(t)) <=> Compiles(t))
                BY <2>3, <3>3, ParenCompiles
            <4>4. G \in Expression /\ RowsWhere(G) = RowsWhere(J) \cap RowsWhere(t)
                <5> DEFINE left == InParens(J)
                           right == InParens(t)
                <5>1. /\ left \in Expression /\ Closed(left) /\ RowsWhere(left) = RowsWhere(J)
                      /\ right \in Expression /\ Closed(right) /\ RowsWhere(right) = RowsWhere(t)
                      /\ G = JoinedBy("&&", left, right)
                    BY <4>1, <4>2
                <5> HIDE DEF left, right, G
                <5>2. G \in Expression
                    BY <5>1, JoinBalance
                <5>3. RowsWhere(G) = RowsWhere(left) \cap RowsWhere(right)
                    BY <5>1, JoinMeans
                <5> QED
                    BY <5>1, <5>2, <5>3
            <4>5. G # Blank /\ (Compiles(G) <=> Compiles(J) /\ Compiles(t))
                <5>1. InParens(J) \in Seq(Token) /\ InParens(t) \in Seq(Token)
                    BY <4>2, ExpressionParts
                <5> QED
                    BY <4>1, <4>3, <5>1, JoinCompiles
            <4> HIDE DEF G, K
            <4>6. K(n) # {}
                BY <4>1
            <4>7. Compiles(G) <=> \A i \in K(n) : Compiles(texts[i])
                BY <2>1, <3>3, <4>1, <4>5
            <4>8. RowsWhere(G) = { row \in Row : \A i \in K(n) : row \in RowsWhere(texts[i]) }
                BY <2>1, <2>3, <3>3, <4>1, <4>4
            <4> QED
                BY <4>4, <4>5, <4>6, <4>7, <4>8
        <3> QED
            BY <3>1, <3>2, <3>3
    <2>5. Good(n, extra[n])
        BY <1>1, <2>4 DEF J
    <2> HIDE DEF Good
    <2> QED
        BY <2>1, <2>5 DEF S
<1>4. 0 .. N \subseteq S
    <2> HIDE DEF S
    <2> QED
        BY <1>1, <1>2, <1>3, Induction
<1>5. N \in S /\ E = extra[N]
    <2> HIDE DEF S
    <2> QED
        BY <1>1, <1>4 DEF ExtraFilterCEL
<1> QED
    BY <1>5
=============================================================================
