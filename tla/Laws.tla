-------------------------------- MODULE Laws --------------------------------
(***************************************************************************)
(* What is known of loops, sums and finite sets, as formulas.  FoldProofs   *)
(* proves them (LawsHold); AppSteps derives its lemmas from them, so that    *)
(* the library of facts about finite sets stays out of its way.             *)
(***************************************************************************)
EXTENDS Integers, FiniteSets, Functions, FiniteSetsExt

\* A step of a loop over 1..n, as the library's folds write it: the last element of a set
\* of indices is applied to what the others come to.
LoopRec(F, b, g, s) == IF s = {} THEN b ELSE F[Max(s)][g[s \ {Max(s)}]]

\* The steps of a loop over S stay in A.
StaysIn(F, A, S) == \A x \in A : \A i \in S : F[i][x] \in A

\* A solution of the recursion, in A.
Solves(F, b, A, S, g) ==
    g = [s \in SUBSET S |-> LoopRec(F, b, g, s)] /\ \A s \in SUBSET S : g[s] \in A

\* A function that follows the loop over 1..n as long as it stays in A, and the values it
\* runs through.
Follows(F, b, A, n, h) ==
    /\ h[{}] = b
    /\ \A s \in SUBSET (1..n) : s # {} /\ h[s \ {Max(s)}] \in A
          => h[s] = F[Max(s)][h[s \ {Max(s)}]]

RunsThrough(F, b, A, n, end, tr) ==
    /\ tr \in [0..n -> A] /\ tr[0] = b /\ tr[n] = end
    /\ \A i \in 1..n : tr[i] = F[i][tr[i - 1]]

-----------------------------------------------------------------------------
\* Loops: induction along them, the last index, and the values they run through.
InductionLaw ==
    \A n \in Nat : \A T :
        0 \in T /\ (\A i \in 1..n : i - 1 \in T => i \in T) => \A i \in 0..n : i \in T

LastLaw == \A n \in Nat : \A s \in SUBSET (1..n) : s # {} => Max(s) \in s /\ Max(s) \in 1..n

SolutionLaw ==
    \A n \in Nat : \A A, F : \A b \in A :
        StaysIn(F, A, 1..n) => \E g : Solves(F, b, A, 1..n, g)

TraceLaw ==
    \A n \in Nat : \A A, F, h : \A b \in A :
        StaysIn(F, A, 1..n) /\ Follows(F, b, A, n, h)
            => \E tr : RunsThrough(F, b, A, n, h[1..n], tr)

\* Sums over finite sets.
SumLaw ==
    /\ \A f : SumFunctionOnSet(f, {}) = 0
    /\ \A S, f : IsFiniteSet(S) /\ (\A x \in S : f[x] \in Int) => SumFunctionOnSet(f, S) \in Int
    /\ \A S, f : IsFiniteSet(S) /\ (\A x \in S : f[x] \in Nat) => SumFunctionOnSet(f, S) \in Nat

InsertLaw ==
    \A S, f, x : IsFiniteSet(S) /\ x \notin S /\ (\A y \in S \cup {x} : f[y] \in Int)
        => SumFunctionOnSet(f, S \cup {x}) = f[x] + SumFunctionOnSet(f, S)

OnlyAt(x, f, g, S) == \A y \in S : f[y] \in Int /\ g[y] \in Int /\ (y # x => g[y] = f[y])

Exchanged(x, f, g, S) == SumFunctionOnSet(g, S) = SumFunctionOnSet(f, S) - f[x] + g[x]

UpdateLaw ==
    \A S, f, g : \A x \in S : IsFiniteSet(S) /\ OnlyAt(x, f, g, S) => Exchanged(x, f, g, S)

SameLaw ==
    \A S, f, g : IsFiniteSet(S) /\ (\A x \in S : f[x] \in Int /\ f[x] = g[x])
        => SumFunctionOnSet(f, S) = SumFunctionOnSet(g, S)

\* Finite sets and the number of their elements.
FiniteLaw ==
    /\ \A n \in Nat : IsFiniteSet(1..n)
    /\ \A S : IsFiniteSet(S) => Cardinality(S) \in Nat
    /\ \A S : IsFiniteSet(S) => \A T \in SUBSET S : IsFiniteSet(T)

CountLaw ==
    /\ IsFiniteSet({}) /\ Cardinality({}) = 0
    /\ \A x : IsFiniteSet({x}) /\ Cardinality({x}) = 1
    /\ \A S, x : IsFiniteSet(S) /\ x \notin S => Cardinality(S \cup {x}) = Cardinality(S) + 1

Laws ==
    /\ InductionLaw /\ LastLaw /\ SolutionLaw /\ TraceLaw
    /\ SumLaw /\ InsertLaw /\ UpdateLaw /\ SameLaw /\ FiniteLaw /\ CountLaw
=============================================================================
