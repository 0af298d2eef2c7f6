------------------------------ MODULE Vectors ------------------------------
(***************************************************************************)
(* src/math: vectors (vec_funcs.h), several of them laid out dimension by  *)
(* dimension for vector instructions (vec3soa in vecsoa_funcs.h), and      *)
(* matrix<3, 4> (matrix.h).                                                *)
(*                                                                         *)
(* A client keeps points in a vec3soa and a matrix, as the aimbot does     *)
(* with the points of a hitbox.  Coordinates are integers: rounding is     *)
(* left out, and InverseOf is used where it divides by 1 or -1.            *)
(***************************************************************************)
EXTENDS Integers, Sequences, FiniteSetsExt, SequencesExt

CONSTANTS
    Columns,        \* Y: how many points a vec3soa holds
    Registers,      \* how many elements vector instructions add at once
    Directions,     \* vectors clients use,
    Scalars,        \* numbers they change a dimension by,
    Matrices,       \* and matrices
    MaxCoordinate, MaxFactors       \* bounds

Dims == 0 .. 2
Cols == 0 .. Columns - 1

VARIABLES
    soa,            \* soa[i][o]: dimension i of point o
    pose,           \* pose[i][o]: row i of the matrix, with three columns and a fourth
    points,         \* history: the points one by one
    factors         \* history: what pose was multiplied with since it was set, the last first;
                    \* none before it is set

vectorVars == <<soa, pose, points, factors>>

-----------------------------------------------------------------------------
(* One vector.                                                             *)

Dot(a, b) == a[0] * b[0] + a[1] * b[1] + a[2] * b[2]

After(i) == (i + 1) % 3

Cross(a, b) ==
    [i \in Dims |-> a[After(i)] * b[After(After(i))] - a[After(After(i))] * b[After(i)]]

(* A point of a vec3soa, by its accessor.                                  *)
Acc(v, o) == [i \in DOMAIN v |-> v[i][o]]

SetAcc(v, o, a) == [i \in DOMAIN v |-> [v[i] EXCEPT ![o] = a[i]]]

-----------------------------------------------------------------------------
(* All points at once.                                                     *)

SoaMul(a, b) == [i \in Dims |-> [o \in Cols |-> a[i][o] * b[i][o]]]

(* As many elements at once as divide Y.                                   *)
Elems == Max({1} \union {r \in Registers : Columns % r = 0})

(* One dimension is added to the one before, in place.                     *)
AddUpDim(v, dim) ==
    [v EXCEPT ![dim - 1] =
        [o \in Cols |-> IF o < (Columns \div Elems) * Elems THEN @[o] + v[dim][o] ELSE @[o]]]

(* Mutant of AddUp: the first dimension first.                             *)
AddUpUpwards(v) == AddUpDim(AddUpDim(v, 1), 2)

AddUp(v) == AddUpDim(AddUpDim(v, 2), 1)

SoaDot(a, b) == AddUp(SoaMul(a, b))[0]

SoaCross(a, b) ==
    [i \in Dims |-> [o \in Cols |->
        a[After(i)][o] * b[After(After(i))][o] - a[After(After(i))][o] * b[After(i)][o]]]

(* Rows become columns.                                                    *)
Rotate(v) == [o \in DOMAIN v[0] |-> [i \in DOMAIN v |-> v[i][o]]]

-----------------------------------------------------------------------------
(* The matrix.                                                             *)

Vector3Rotate(m, x) == [i \in Dims |-> Dot(x, m[i])]
Vector3IRotate(m, x) == [i \in Dims |-> Dot(x, Rotate(m)[i])]
Vector3Transform(m, x) == [i \in Dims |-> Dot(x, m[i]) + m[i][3]]
Vector3ITransform(m, x) ==
    LET moved == [i \in Dims |-> x[i] - Rotate(m)[3][i]]
    IN  [i \in Dims |-> Dot(moved, Rotate(m)[i])]

VecSoaTransform(m, v) == [i \in Dims |-> [o \in Cols |-> Dot(Acc(v, o), m[i]) + m[i][3]]]

(* Rows by columns where both have three; the fourth column stays.         *)
Multiply(m, other) ==
    [i \in Dims |-> [o \in 0 .. 3 |->
        IF o \in Dims THEN Dot(m[i], Rotate(other)[o]) ELSE m[i][o]]]

Minor(m, i, o) ==
    m[After(i)][After(o)] * m[After(After(i))][After(After(o))]
        - m[After(i)][After(After(o))] * m[After(After(i))][After(o)]

Det(m) == Dot(m[0], [o \in Dims |-> Minor(m, 0, o)])

ASSUME VectorsAssumption ==
    /\ Columns \in Nat \ {0} /\ Registers \subseteq Nat \ {0}
    /\ Directions \subseteq [Dims -> Int] /\ Scalars \subseteq Int
    /\ \A m \in Matrices : m \in [Dims -> [0 .. 3 -> Int]] /\ Det(m) \in {-1, 1}
    /\ MaxCoordinate \in Nat /\ MaxFactors \in Nat

(* 1 / Det(m).                                                             *)
InvDet(m) == CHOOSE inv \in {-1, 1} : inv * Det(m) = 1

InverseOf(m) ==
    LET invDet == InvDet(m)
    IN  [i \in Dims |-> [o \in 0 .. 3 |->
            IF o \in Dims THEN Minor(m, o, i) * invDet ELSE m[i][o]]]

InverseTranspose(m) ==
    LET invDet == InvDet(m)
    IN  [i \in Dims |-> [o \in 0 .. 3 |->
            IF o \in Dims THEN Minor(m, i, o) * invDet ELSE m[i][o]]]

-----------------------------------------------------------------------------
(* What clients do.                                                        *)

Origin == [i \in Dims |-> 0]

Identity == [i \in Dims |-> [o \in 0 .. 3 |-> IF i = o THEN 1 ELSE 0]]

(* Nothing initializes a matrix; until it is set it counts as Identity.    *)
VectorsInit ==
    /\ soa = [i \in Dims |-> [o \in Cols |-> 0]]
    /\ points = [o \in Cols |-> Origin]
    /\ pose = Identity /\ factors = <<>>

Small == \A o \in Cols, i \in Dims : points'[o][i] \in -MaxCoordinate .. MaxCoordinate

AssignRow(o, x) ==
    /\ soa' = SetAcc(soa, o, x)
    /\ points' = [points EXCEPT ![o] = x]
    /\ UNCHANGED <<pose, factors>>

AddRow(o, x) ==
    /\ soa' = [i \in Dims |-> [soa[i] EXCEPT ![o] = @ + x[i]]]
    /\ points' = [points EXCEPT ![o] = [i \in Dims |-> @[i] + x[i]]]
    /\ UNCHANGED <<pose, factors>>

(* One dimension of all points, by a vector with an element for each.      *)
MulCol(i, y) ==
    /\ soa' = [soa EXCEPT ![i] = [o \in Cols |-> @[o] * y[o]]]
    /\ points' = [o \in Cols |-> [points[o] EXCEPT ![i] = @ * y[o]]]
    /\ UNCHANGED <<pose, factors>>

AddCol(i, y) ==
    /\ soa' = [soa EXCEPT ![i] = [o \in Cols |-> @[o] + y[o]]]
    /\ points' = [o \in Cols |-> [points[o] EXCEPT ![i] = @ + y[o]]]
    /\ UNCHANGED <<pose, factors>>

TransformPoints ==
    /\ factors # <<>>
    /\ soa' = VecSoaTransform(pose, soa)
    /\ points' = [o \in Cols |-> Vector3Transform(pose, points[o])]
    /\ UNCHANGED <<pose, factors>>

CrossPoints(x) ==
    /\ soa' = SoaCross(soa, [i \in Dims |-> [o \in Cols |-> x[i]]])
    /\ points' = [o \in Cols |-> Cross(points[o], x)]
    /\ UNCHANGED <<pose, factors>>

SetPose(m) ==
    /\ pose' = m
    /\ factors' = <<m>>
    /\ UNCHANGED <<soa, points>>

MultiplyPose(m) ==
    /\ factors # <<>> /\ Len(factors) < MaxFactors
    /\ pose' = Multiply(pose, m)
    /\ factors' = <<m>> \o factors
    /\ UNCHANGED <<soa, points>>

InvertPose ==
    /\ Len(factors) = 1
    /\ pose' = InverseOf(pose)
    /\ factors' = <<pose'>>
    /\ UNCHANGED <<soa, points>>

VectorsNext ==
    \/ \E o \in Cols, x \in Directions :
          /\ AssignRow(o, x) \/ AddRow(o, x)
          /\ Small
    \/ \E i \in Dims, y \in [Cols -> Scalars] :
          /\ MulCol(i, y) \/ AddCol(i, y)
          /\ Small
    \/ TransformPoints /\ Small
    \/ \E x \in Directions : CrossPoints(x) /\ Small
    \/ \E m \in Matrices : SetPose(m) \/ MultiplyPose(m)
    \/ InvertPose

VectorsSpec == VectorsInit /\ [][VectorsNext]_vectorVars

-----------------------------------------------------------------------------

VectorsTypeOK ==
    /\ soa \in [Dims -> [Cols -> Int]]
    /\ pose \in [Dims -> [0 .. 3 -> Int]]

(* Whatever is done to all points at once is done to each of them, and     *)
(* what is computed of all at once is what it is of each: aimbot.cpp moves *)
(* the same points both ways.                                              *)
SoaHoldsPoints ==
    \A o \in Cols :
        /\ Acc(soa, o) = points[o]
        /\ SoaDot(soa, soa)[o] = Dot(points[o], points[o])
        /\ SoaDot(SoaCross(soa, VecSoaTransform(pose, soa)), soa)[o] = 0

Unit(i) == [Origin EXCEPT ![i] = 1]
Orthogonal(m) == \A i, o \in Dims : Dot(m[i], m[o]) = IF i = o THEN 1 ELSE 0

(* The matrix turns vectors as its factors do one after the other, the     *)
(* last first; the inverse turns them back, and if the matrix is a         *)
(* rotation, so do the functions that use its columns as rows.             *)
PoseTurnsBack ==
    factors # <<>> =>
        /\ \A inverse \in {InverseOf(pose)}, transposed \in {InverseTranspose(pose)}, i \in Dims :
              LET turned == Vector3Rotate(pose, Unit(i))
              IN  /\ turned = FoldLeft(LAMBDA x, m : Vector3Rotate(m, x), Unit(i), factors)
                  /\ Vector3Rotate(inverse, turned) = Unit(i)
                  /\ Vector3IRotate(transposed, turned) = Unit(i)
                  /\ Orthogonal(pose) => Vector3IRotate(pose, turned) = Unit(i)
        /\ Orthogonal(pose) =>
              \A o \in Cols :
                  Vector3ITransform(pose, Vector3Transform(pose, points[o])) = points[o]

(* What vector.h promises of points kept dimension by dimension, and what  *)
(* matrix.h does of products and inverses.                                 *)
VectorsAgree == SoaHoldsPoints /\ PoseTurnsBack
=============================================================================
