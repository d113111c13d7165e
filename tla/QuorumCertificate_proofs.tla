---------------------- MODULE QuorumCertificate_proofs ----------------------
(***************************************************************************)
(* TLAPS proofs about QuorumCertificate, for any organs, actions and       *)
(* policies and any number of changes on the way.                          *)
(***************************************************************************)
EXTENDS QuorumCertificate, TLAPS, FiniteSetTheorems, SequenceTheorems

----------------------------------------------------------------------------
(* Type correctness.                                                       *)

\* What an organ signs is a record that verifies.
LEMMA SignedWitness ==
  ASSUME NEW o \in Organ, NEW a \in Action, NEW v \in Verdict
  PROVE  LET w == SignVerdict(o, a, v)
         IN  /\ w \in Witness /\ w.intact = TRUE
             /\ w.organ = w.statement.signer
             /\ w.statement.action = a /\ w.statement \in Statement
  BY DEF SignVerdict, Witness, Statement

\* A tally is a number.
LEMMA TallyType ==
  ASSUME NEW W \in Seq(Witness), NEW a, NEW keys
  PROVE  Tally(W, a, keys) \in Nat
<1> DEFINE S == {i \in DOMAIN W : Counts(W[i], a, keys)}
<1>1. Len(W) \in Nat /\ DOMAIN W = 1 .. Len(W)
  BY LenProperties
<1>2. IsFiniteSet(1 .. Len(W))
  BY <1>1, FS_Interval
<1>3. S \in SUBSET (1 .. Len(W))
  BY <1>1
<1>4. Cardinality(S) \in Nat
  <2> HIDE DEF S
  <2> QED BY <1>2, <1>3, FS_Subset, FS_CardinalityType
<1> QED
  BY <1>4 DEF Tally

\* A sequence without one of its elements has the others, and no more.
LEMMA RemoveOne ==
  ASSUME NEW S, NEW s \in Seq(S), NEW i \in DOMAIN s
  PROVE  LET r == RemoveAt(s, i)
         IN  /\ r \in Seq(S)
             /\ \A j \in DOMAIN r : \E k \in DOMAIN s : r[j] = s[k]
             /\ \A k \in DOMAIN s : k # i => \E j \in DOMAIN r : r[j] = s[k]
<1> DEFINE n == Len(s)
           a == SubSeq(s, 1, i - 1)
           b == SubSeq(s, i + 1, n)
<1>1. n \in Nat /\ DOMAIN s = 1 .. n /\ i \in 1 .. n /\ \A k \in 1 .. n : s[k] \in S
  BY LenProperties, ElementOfSeq
<1> HIDE DEF n
<1>2. /\ a \in Seq(S) /\ Len(a) = i - 1
      /\ \A j \in 1 .. i - 1 : a[j] = s[j]
  <2>1. \A j \in 1 .. i - 1 : s[j] \in S
    BY <1>1
  <2> QED BY <1>1, <2>1, SubSeqProperties
<1>3. /\ b \in Seq(S) /\ Len(b) = n - i
      /\ \A j \in 1 .. n - i : b[j] = s[i + j]
  <2>1. \A j \in i + 1 .. n : s[j] \in S
    BY <1>1
  <2> QED BY <1>1, <2>1, SubSeqProperties
<1> HIDE DEF a, b
<1>10. i \in Int /\ n \in Int /\ 1 <= i /\ i <= n
  BY <1>1
<1>4. /\ a \o b \in Seq(S) /\ Len(a \o b) = n - 1
      /\ \A j \in 1 .. n - 1 : (a \o b)[j] = IF j <= i - 1 THEN a[j] ELSE b[j - (i - 1)]
  <2>1. /\ a \o b \in Seq(S) /\ Len(a \o b) = Len(a) + Len(b)
        /\ \A j \in 1 .. Len(a) + Len(b) :
             (a \o b)[j] = IF j <= Len(a) THEN a[j] ELSE b[j - Len(a)]
    BY ONLY <1>2, <1>3, ConcatProperties
  <2>2. Len(a) = i - 1 /\ Len(a) + Len(b) = n - 1
    BY ONLY <1>2, <1>3, <1>10
  <2> QED BY ONLY <2>1, <2>2
<1>5. DOMAIN (a \o b) = 1 .. n - 1
  BY <1>4, LenProperties
<1>6. \A j \in 1 .. n - 1 : (a \o b)[j] = IF j <= i - 1 THEN s[j] ELSE s[j + 1]
  <2> TAKE j \in 1 .. n - 1
  <2>1. CASE j <= i - 1
    <3>1. j \in 1 .. i - 1
      BY ONLY <1>10, <2>1, j \in 1 .. n - 1
    <3> QED BY ONLY <1>2, <1>4, <2>1, <3>1, j \in 1 .. n - 1
  <2>2. CASE ~ (j <= i - 1)
    <3>1. j - (i - 1) \in 1 .. n - i /\ i + (j - (i - 1)) = j + 1
      BY ONLY <1>10, <2>2, j \in 1 .. n - 1
    <3>2. b[j - (i - 1)] = s[j + 1]
      BY ONLY <1>3, <3>1
    <3> QED BY ONLY <1>4, <2>2, <3>2, j \in 1 .. n - 1
  <2> QED BY ONLY <2>1, <2>2
<1>7. \A j \in 1 .. n - 1 : \E k \in 1 .. n : (a \o b)[j] = s[k]
  <2> TAKE j \in 1 .. n - 1
  <2>1. j \in 1 .. n /\ j + 1 \in 1 .. n
    BY <1>1
  <2> QED BY <1>6, <2>1
<1>8. \A k \in 1 .. n : k # i => \E j \in 1 .. n - 1 : (a \o b)[j] = s[k]
  <2> SUFFICES ASSUME NEW k \in 1 .. n, k # i
               PROVE  \E j \in 1 .. n - 1 : (a \o b)[j] = s[k]
    OBVIOUS
  <2>1. CASE k < i
    <3>1. k \in 1 .. n - 1 /\ k <= i - 1
      BY ONLY <1>10, <2>1, k \in 1 .. n
    <3> QED BY <1>6, <3>1
  <2>2. CASE k > i
    <3>1. k - 1 \in 1 .. n - 1 /\ ~ (k - 1 <= i - 1) /\ (k - 1) + 1 = k
      BY ONLY <1>10, <2>2, k \in 1 .. n
    <3> QED BY <1>6, <3>1
  <2>3. k < i \/ k > i
    BY ONLY <1>10, k \in 1 .. n, k # i
  <2> QED BY ONLY <2>1, <2>2, <2>3
<1>9. RemoveAt(s, i) = a \o b
  BY DEF RemoveAt, a, b, n
<1>11. \A j \in DOMAIN (a \o b) : \E k \in DOMAIN s : (a \o b)[j] = s[k]
  BY ONLY <1>1, <1>5, <1>7
<1>12. \A k \in DOMAIN s : k # i => \E j \in DOMAIN (a \o b) : (a \o b)[j] = s[k]
  BY ONLY <1>1, <1>5, <1>8
<1>13. a \o b \in Seq(S)
  BY ONLY <1>4
<1> QED
  BY ONLY <1>9, <1>11, <1>12, <1>13
\* Of a change on the way: the certificate after it, and that it is one of the records'
\* or of the fields around them.
LEMMA TransitSteps ==
  ASSUME TypeOK, Transit
  PROVE  /\ cert' \in Certificate
         /\ UNCHANGED <<signed, issued>>
         /\ damage' \in {damage, damage + 1}
         /\ faults' = faults + 1
<1> USE DEF TypeOK, Certificate, Change
<1>1. cert.witnesses \in Seq(Witness) /\ DOMAIN cert.witnesses = 1 .. Len(cert.witnesses)
      /\ \A i \in DOMAIN cert.witnesses : cert.witnesses[i] \in Witness
  BY LenProperties, ElementOfSeq
<1>2. ASSUME NEW st \in signed, NEW ok \in BOOLEAN, NEW o \in {st.signer, Unhashable},
             AddWitness(o, st, ok)
      PROVE  cert' \in Certificate /\ damage' = damage
  <2>1. [organ |-> o, said |-> st.verdict, statement |-> st, intact |-> ok]
          \in Witness
    BY DEF Witness, Statement
  <2>2. damage' = damage
    BY <1>2 DEF AddWitness
  <2>3. cert' \in Certificate
    BY <1>1, <1>2, <2>1, AppendProperties DEF AddWitness
  <2> QED BY <2>2, <2>3
<1>3. ASSUME NEW i \in DOMAIN cert.witnesses, LoseWitness(i)
      PROVE  cert' \in Certificate /\ damage' = damage + 1
  <2>1. RemoveAt(cert.witnesses, i) \in Seq(Witness)
    BY <1>1, RemoveOne
  <2> QED BY <1>3, <2>1 DEF LoseWitness
<1>4. ASSUME NEW i \in DOMAIN cert.witnesses, NEW w \in Witness
      PROVE  [cert.witnesses EXCEPT ![i] = w] \in Seq(Witness)
  BY <1>1, ExceptSeq
<1>5. ASSUME NEW i \in DOMAIN cert.witnesses, SpoilWitness(i)
      PROVE  cert' \in Certificate /\ damage' = damage + 1
  <2>1. [cert.witnesses[i] EXCEPT !.intact = FALSE] \in Witness
    BY <1>1 DEF Witness
  <2> QED BY <1>4, <1>5, <2>1 DEF SpoilWitness
<1>6. ASSUME NEW i \in DOMAIN cert.witnesses, NEW o \in Organ \cup {Unhashable}, Relabel(i, o)
      PROVE  cert' \in Certificate /\ damage' = damage + 1
  <2>1. [cert.witnesses[i] EXCEPT !.organ = o] \in Witness
    BY <1>1 DEF Witness
  <2> QED BY <1>4, <1>6, <2>1 DEF Relabel
<1>7. ASSUME NEW i \in DOMAIN cert.witnesses, NEW v \in Verdict, Misquote(i, v)
      PROVE  cert' \in Certificate /\ damage' = damage
  <2>1. [cert.witnesses[i] EXCEPT !.said = v] \in Witness
    BY <1>1 DEF Witness
  <2>2. damage' = damage
    BY <1>7 DEF Misquote
  <2>3. cert' = [cert EXCEPT !.witnesses =
                   [@ EXCEPT ![i] = [cert.witnesses[i] EXCEPT !.said = v]]]
    BY <1>7 DEF Misquote
  <2> QED BY <1>4, <2>1, <2>2, <2>3
<1>8. ASSUME NEW a \in Action \cup {NoAction}, Retarget(a)
      PROVE  cert' \in Certificate /\ damage' = damage
  BY <1>8 DEF Retarget
<1>9. ASSUME NEW p \in Policy \cup {Undeclared}, Redeclare(p)
      PROVE  cert' \in Certificate /\ damage' = damage
  BY <1>9 DEF Redeclare
<1>10. UNCHANGED <<signed, issued>> /\ faults' = faults + 1
  BY DEF Transit, AddWitness, LoseWitness, SpoilWitness, Relabel, Misquote, Retarget, Redeclare
<1> QED
  BY <1>2, <1>3, <1>5, <1>6, <1>7, <1>8, <1>9, <1>10 DEF Transit

\* The certificate a proposal returns.
LEMMA ProposalType ==
  ASSUME TypeOK, NEW a \in Action, NEW organs \in BoundedSeq(Organ, MaxOrgans),
         NEW verdicts \in [Organ -> Verdict], NEW policy \in Policy,
         Propose(a, organs, verdicts, policy)
  PROVE  /\ TypeOK'
         /\ issued' = cert' /\ cert'.action = a /\ damage' = damage
         /\ \A i \in DOMAIN cert'.witnesses :
              LET w == cert'.witnesses[i]
              IN  /\ w.intact = TRUE /\ w.organ = w.statement.signer
                  /\ w.statement.action = a /\ w.statement \in signed'
<1> DEFINE W == [i \in DOMAIN organs |-> SignVerdict(organs[i], a, verdicts[organs[i]])]
           count == Tally(W, a, ToSet(organs))
<1>1. PICK m \in 0 .. MaxOrgans : organs \in [1 .. m -> Organ]
  BY DEF BoundedSeq, SeqOf
<1>2. /\ DOMAIN W = 1 .. m
      /\ \A i \in 1 .. m : W[i] = SignVerdict(organs[i], a, verdicts[organs[i]])
      /\ \A i \in 1 .. m : organs[i] \in Organ /\ verdicts[organs[i]] \in Verdict
  BY <1>1
<1>3. \A i \in 1 .. m :
        /\ W[i] \in Witness /\ W[i].intact = TRUE /\ W[i].organ = W[i].statement.signer
        /\ W[i].statement.action = a /\ W[i].statement \in Statement
  <2> TAKE i \in 1 .. m
  <2>1. organs[i] \in Organ /\ verdicts[organs[i]] \in Verdict
    BY <1>2
  <2>2. W[i] = SignVerdict(organs[i], a, verdicts[organs[i]])
    BY <1>2
  <2> DEFINE o == organs[i]
             v == verdicts[o]
             w == SignVerdict(o, a, v)
  <2>3. /\ w \in Witness /\ w.intact = TRUE /\ w.organ = w.statement.signer
        /\ w.statement.action = a /\ w.statement \in Statement
    <3>1. o \in Organ /\ v \in Verdict
      BY <2>1
    <3> HIDE DEF o, v, W, count
    <3> QED BY <3>1, SignedWitness
  <2>4. W[i] = w
    BY <2>2
  <2> HIDE DEF W, w
  <2> QED BY <2>3, <2>4
<1>4. W \in Seq(Witness)
  <2>1. m \in Nat /\ W \in [1 .. m -> Witness]
    BY <1>1, <1>2, <1>3
  <2> HIDE DEF W
  <2> QED BY <2>1, IsASeq
<1>5. /\ cert' = [action |-> a, witnesses |-> W, policy |-> policy,
                  canonical |-> Decision(count, policy[1]), count |-> count]
      /\ issued' = cert' /\ UNCHANGED <<damage, faults>>
      /\ signed' = signed \cup {w.statement : w \in ToSet(W)}
  BY DEF Propose
<1>6. count \in Nat
  <2> HIDE DEF W
  <2> QED BY <1>4, TallyType
<1>7. \A i \in 1 .. m : W[i].statement \in signed'
  <2> HIDE DEF W
  <2> QED BY <1>2, <1>5 DEF ToSet
<1>8. signed' \subseteq Statement
  <2> HIDE DEF W
  <2> QED BY <1>2, <1>3, <1>5 DEF ToSet, TypeOK
<1>9. Decision(count, policy[1]) \in BOOLEAN
  BY DEF Decision
<1> HIDE DEF W, count
<1>10. cert' \in Certificate
  BY <1>4, <1>5, <1>6, <1>9 DEF Certificate
<1>11. cert'.witnesses = W /\ cert'.action = a
  BY <1>5
<1> QED
  BY <1>2, <1>3, <1>5, <1>7, <1>8, <1>10, <1>11 DEF TypeOK

\* A step is a proposal, a signature elsewhere, a change on the way or a stutter.
LEMMA NextTypeOK == TypeOK /\ [Next]_vars => TypeOK'
<1> SUFFICES ASSUME TypeOK, [Next]_vars PROVE TypeOK'
  OBVIOUS
<1>1. CASE ProposeOnce
  BY <1>1, ProposalType DEF ProposeOnce
<1>2. ASSUME NEW o \in Organ, NEW a \in Action, NEW v \in Verdict, SignElsewhere(o, a, v)
      PROVE  TypeOK'
  <2>1. SignVerdict(o, a, v).statement \in Statement
    BY SignedWitness
  <2> QED BY <1>2, <2>1 DEF SignElsewhere, TypeOK
<1>3. CASE Transit
  BY <1>3, TransitSteps DEF TypeOK
<1>4. CASE UNCHANGED vars
  BY <1>4 DEF TypeOK, vars
<1> QED
  BY <1>1, <1>2, <1>3, <1>4 DEF Next

\* Nothing on the way makes a certificate that the verifier could not read.
THEOREM TypeCorrect == Spec => []TypeOK
<1>1. Init => TypeOK
  <2>1. <<>> \in Seq(Witness)
    BY EmptySeq
  <2> QED BY <2>1 DEF Init, TypeOK, NoCert, Certificate
<1> QED
  BY <1>1, NextTypeOK, PTL DEF Spec

----------------------------------------------------------------------------
(* What the changes on the way leave.                                      *)

\* The verifier sees no difference between two such records.
Alike(w, v) == v.organ = w.organ /\ v.statement = w.statement /\ v.intact = w.intact

KeptBut(W, V, organs) ==
  \A i \in DOMAIN W : W[i].organ \notin organs => \E j \in DOMAIN V : Alike(W[i], V[j])

\* A change takes the records of no organ away, or of one if it does damage; and it
\* brings only statements that were signed.
LEMMA TransitKeeps ==
  ASSUME TypeOK, Transit
  PROVE  LET W == cert.witnesses
             V == cert'.witnesses
         IN  /\ \A j \in DOMAIN V :
                  \/ V[j].statement \in signed
                  \/ \E k \in DOMAIN W : V[j].statement = W[k].statement
             /\ \/ damage' = damage /\ KeptBut(W, V, {})
                \/ damage' = damage + 1 /\ \E o : KeptBut(W, V, {o})
<1> DEFINE W == cert.witnesses
           V == cert'.witnesses
           FromSigned == \A j \in DOMAIN V : \/ V[j].statement \in signed
                                           \/ \E k \in DOMAIN W : V[j].statement = W[k].statement
           Keeps(E) == KeptBut(W, V, E)
<1>1. /\ cert \in Certificate /\ W \in Seq(Witness) /\ DOMAIN W = 1 .. Len(W)
      /\ Len(W) \in Nat /\ damage \in Nat
      /\ \A i \in DOMAIN W : W[i] \in Witness
  BY LenProperties, ElementOfSeq DEF TypeOK, Certificate
<1>2. SUFFICES FromSigned /\ ((damage' = damage /\ Keeps({}))
                              \/ (damage' = damage + 1 /\ \E o : Keeps({o})))
  OBVIOUS
<1>3. ASSUME NEW st \in signed, NEW ok \in BOOLEAN, NEW o \in {st.signer, Unhashable},
             AddWitness(o, st, ok)
      PROVE  FromSigned /\ damage' = damage /\ Keeps({})
  <2> DEFINE e == [organ |-> o, said |-> st.verdict, statement |-> st, intact |-> ok]
  <2>1. V = Append(W, e)
    BY <1>1, <1>3 DEF AddWitness, Change, Certificate
  <2>2. damage' = damage
    BY <1>1, <1>3 DEF AddWitness, Change
  <2>3. e \in Witness /\ e.statement = st
    BY DEF TypeOK, Witness, Statement
  <2> HIDE DEF e
  <2>4. /\ V \in Seq(Witness) /\ Len(V) = Len(W) + 1 /\ DOMAIN V = 1 .. Len(V)
        /\ \A i \in 1 .. Len(W) : V[i] = W[i]
        /\ V[Len(W) + 1] = e
    BY <1>1, <2>1, <2>3, AppendProperties, LenProperties
  <2>5. FromSigned
    <3> SUFFICES ASSUME NEW j \in 1 .. Len(W) + 1
                 PROVE  \/ V[j].statement \in signed
                        \/ \E k \in DOMAIN W : V[j].statement = W[k].statement
      BY <2>4
    <3>1. j \in 1 .. Len(W) \/ j = Len(W) + 1
      BY <1>1
    <3> QED BY <1>1, <2>3, <2>4, <3>1
  <2>6. Keeps({})
    <3>1. \A i \in DOMAIN W : i \in DOMAIN V /\ V[i] = W[i]
      BY <1>1, <2>4
    <3> HIDE DEF W, V
    <3> QED BY <3>1 DEF Alike, KeptBut
  <2> QED BY <2>2, <2>5, <2>6
<1>4. ASSUME NEW i \in DOMAIN W, LoseWitness(i)
      PROVE  FromSigned /\ damage' = damage + 1 /\ Keeps({W[i].organ})
  <2>1. V = RemoveAt(W, i) /\ damage' = damage + 1
    BY <1>1, <1>4 DEF LoseWitness, Change, Certificate
  <2>2. /\ \A j \in DOMAIN V : \E k \in DOMAIN W : V[j] = W[k]
        /\ \A k \in DOMAIN W : k # i => \E j \in DOMAIN V : V[j] = W[k]
    <3>1. W \in Seq(Witness) /\ i \in DOMAIN W /\ V = RemoveAt(W, i)
      BY <1>1, <2>1
    <3> HIDE DEF W, V
    <3> QED BY ONLY <3>1, RemoveOne
  <2> HIDE DEF W, V
  <2>3. FromSigned
    BY <2>2
  <2>4. Keeps({W[i].organ})
    BY <2>2 DEF Alike, KeptBut
  <2> QED BY <2>1, <2>3, <2>4
<1>5. ASSUME NEW i \in DOMAIN W, NEW w \in Witness, V = [W EXCEPT ![i] = w],
             w.statement = W[i].statement
      PROVE  FromSigned /\ Keeps({W[i].organ}) /\ (Alike(W[i], w) => Keeps({}))
  <2>1. DOMAIN V = DOMAIN W /\ V[i] = w /\ \A k \in DOMAIN W : k # i => V[k] = W[k]
    BY <1>5
  <2> HIDE DEF W, V
  <2> QED BY <1>5, <2>1 DEF Alike, KeptBut
<1>6. ASSUME NEW i \in DOMAIN W, SpoilWitness(i)
      PROVE  FromSigned /\ damage' = damage + 1 /\ Keeps({W[i].organ})
  <2> DEFINE w == [W[i] EXCEPT !.intact = FALSE]
  <2>1. V = [W EXCEPT ![i] = w] /\ damage' = damage + 1
    BY <1>1, <1>6 DEF SpoilWitness, Change, Certificate
  <2>2. w \in Witness /\ w.statement = W[i].statement
    BY <1>1 DEF Witness
  <2> QED BY <1>5, <2>1, <2>2
<1>7. ASSUME NEW i \in DOMAIN W, NEW o \in Organ \cup {Unhashable}, Relabel(i, o)
      PROVE  FromSigned /\ damage' = damage + 1 /\ Keeps({W[i].organ})
  <2> DEFINE w == [W[i] EXCEPT !.organ = o]
  <2>1. V = [W EXCEPT ![i] = w] /\ damage' = damage + 1
    BY <1>1, <1>7 DEF Relabel, Change, Certificate
  <2>2. w \in Witness /\ w.statement = W[i].statement
    BY <1>1 DEF Witness
  <2> QED BY <1>5, <2>1, <2>2
<1>8. ASSUME NEW i \in DOMAIN W, NEW v \in Verdict, Misquote(i, v)
      PROVE  FromSigned /\ damage' = damage /\ Keeps({})
  <2> DEFINE w == [W[i] EXCEPT !.said = v]
  <2>1. V = [W EXCEPT ![i] = w]
    BY <1>1, <1>8 DEF Misquote, Change, Certificate
  <2>2. w \in Witness /\ w.statement = W[i].statement /\ Alike(W[i], w)
    BY <1>1 DEF Witness, Alike
  <2>3. damage' = damage
    BY <1>1, <1>8 DEF Misquote, Change
  <2> HIDE DEF w
  <2>4. FromSigned /\ (Alike(W[i], w) => Keeps({}))
    BY <1>5, <2>1, <2>2
  <2> HIDE DEF FromSigned, Keeps
  <2> QED BY <2>2, <2>3, <2>4
<1>9. ASSUME V = W PROVE FromSigned /\ Keeps({})
  BY <1>9 DEF Alike, KeptBut
<1>10. ASSUME NEW a, Retarget(a) PROVE V = W /\ damage' = damage
  <2>1. V = W
    BY <1>1, <1>10 DEF Retarget, Change, Certificate
  <2>2. damage' = damage
    BY <1>1, <1>10 DEF Retarget, Change
  <2> QED BY <2>1, <2>2
<1>11. ASSUME NEW p, Redeclare(p) PROVE V = W /\ damage' = damage
  <2>1. V = W
    BY <1>1, <1>11 DEF Redeclare, Change, Certificate
  <2>2. damage' = damage
    BY <1>1, <1>11 DEF Redeclare, Change
  <2> QED BY <2>1, <2>2
<1> HIDE DEF FromSigned, Keeps
<1> QED
  BY <1>3, <1>4, <1>6, <1>7, <1>8, <1>9, <1>10, <1>11 DEF Transit

----------------------------------------------------------------------------
(* No quorum is fabricated.                                                *)

\* Whatever happens on the way, the statement in a record is one that was signed.
Backed == \A i \in DOMAIN cert.witnesses : cert.witnesses[i].statement \in signed

\* Proposals sign what they put in, and changes only bring in what was signed.
LEMMA NextBacked == TypeOK /\ Backed /\ [Next]_vars => Backed'
<1> SUFFICES ASSUME TypeOK, Backed, [Next]_vars PROVE Backed'
  OBVIOUS
<1>1. CASE ProposeOnce
  BY <1>1, ProposalType DEF ProposeOnce, Backed
<1>2. CASE \E o \in Organ, a \in Action, v \in Verdict : SignElsewhere(o, a, v)
  BY <1>2 DEF SignElsewhere, Backed
<1>3. CASE Transit
  <2>1. signed' = signed
    BY <1>3, TransitSteps
  <2>2. \A j \in DOMAIN cert'.witnesses :
          \/ cert'.witnesses[j].statement \in signed
          \/ \E k \in DOMAIN cert.witnesses :
               cert'.witnesses[j].statement = cert.witnesses[k].statement
    BY <1>3, TransitKeeps
  <2> QED BY <2>1, <2>2 DEF Backed
<1>4. CASE UNCHANGED vars
  BY <1>4 DEF Backed, vars
<1> QED
  BY <1>1, <1>2, <1>3, <1>4 DEF Next

\* Sets of organs are finite.
LEMMA OrganSets == \A S \in SUBSET Organ : IsFiniteSet(S) /\ Cardinality(S) \in Nat
  BY OrganAssumption, FS_Subset, FS_CardinalityType

\* So the organs that count for the verifier all signed, each for itself.
LEMMA BackedIsEarned == TypeOK /\ Backed => CanonicalIsEarned
<1> SUFFICES ASSUME TypeOK, Backed, Canonical(cert)
             PROVE  Cardinality(Signers(cert.action)) >= Threshold
  BY DEF CanonicalIsEarned
<1> DEFINE C == CountingOrgans(cert)
           S == Signers(cert.action)
<1>1. C \subseteq S
  <2> SUFFICES ASSUME NEW w \in ToSet(cert.witnesses), Counts(w, cert.action, Trusted)
               PROVE  w.organ \in S
    BY DEF CountingOrgans
  <2>1. w.statement \in signed /\ w.statement \in Statement
    BY DEF ToSet, Backed, TypeOK
  <2>2. w.statement = [signer |-> w.organ, action |-> cert.action, verdict |-> "allow"]
    BY <2>1 DEF Counts, Statement
  <2> QED BY <2>1, <2>2 DEF Counts, Signers
<1>2. S \in SUBSET Organ /\ C \in SUBSET S
  BY <1>1, OrganAssumption DEF Signers
<1>3. Cardinality(C) >= Threshold
  BY DEF Canonical, ConsensusCount
<1> HIDE DEF C, S
<1>4. Cardinality(C) <= Cardinality(S) /\ Cardinality(S) \in Nat /\ Cardinality(C) \in Nat
  BY <1>2, OrganSets, FS_Subset
<1> QED
  BY <1>3, <1>4, PolicyAssumption DEF S

\* "Never fabricate a quorum", for every number of organs and changes: a certificate the
\* verifier takes for canonical has a threshold of trusted organs' allows behind it.
THEOREM QuorumIsEarned == Spec => []CanonicalIsEarned
<1>1. Init => Backed
  BY DEF Init, Backed, NoCert
<1> QED
  BY <1>1, TypeCorrect, NextBacked, BackedIsEarned, PTL DEF Spec

----------------------------------------------------------------------------
(* A genuine quorum survives.                                              *)

\* The organs whose records in W count for an action.
Standing(W, action) ==
  {o \in Trusted : \E i \in DOMAIN W : W[i].organ = o /\ Counts(W[i], action, Trusted)}

\* As many organs of the certificate as issued have fallen away as records were lost or
\* altered, at most.
Spared ==
  IF issued = NoCert THEN damage = 0
  ELSE Cardinality(Genuine(issued) \ Standing(cert.witnesses, issued.action)) <= damage

\* When it is issued, each of its genuine organs stands.
LEMMA IssuedStands ==
  ASSUME TypeOK, Spared, ProposeOnce
  PROVE  Spared'
<1>1. PICK a \in Action, organs \in BoundedSeq(Organ, MaxOrgans),
           verdicts \in [Organ -> Verdict], policy \in Policy :
             Propose(a, organs, verdicts, policy)
  BY DEF ProposeOnce
<1>2. issued' = cert' /\ damage' = 0 /\ issued'.action = a
      /\ \A i \in DOMAIN cert'.witnesses :
           LET w == cert'.witnesses[i]
           IN  w.intact = TRUE /\ w.organ = w.statement.signer /\ w.statement.action = a
  BY <1>1, ProposalType DEF ProposeOnce, Spared
<1>3. Genuine(issued)' \ Standing(cert.witnesses, issued.action)' = {}
  BY <1>2 DEF Genuine, Standing, Counts, ToSet
<1>4. Cardinality(Genuine(issued)' \ Standing(cert.witnesses, issued.action)') = 0
  BY <1>3, FS_EmptySet
<1> QED
  BY <1>2, <1>4 DEF Spared

\* A change on the way takes at most one organ's standing, and that is damage.
LEMMA ChangeSpares ==
  ASSUME TypeOK, Spared, Transit
  PROVE  Spared'
<1> DEFINE W == cert.witnesses
           V == cert'.witnesses
           G == Genuine(issued)
           S == Standing(W, issued.action)
           T == Standing(V, issued.action)
<1>1. UNCHANGED <<signed, issued>> /\ damage \in Nat
  BY TransitSteps DEF TypeOK
<1>2. issued # NoCert
  BY DEF Transit, AddWitness, LoseWitness, SpoilWitness, Relabel, Misquote, Retarget,
         Redeclare, Change
<1>3. Genuine(issued)' = G /\ Standing(cert.witnesses, issued.action)' = T
  BY <1>1 DEF Genuine, Standing, Counts
<1>4. Cardinality(G \ S) <= damage
  BY <1>2 DEF Spared
<1>5. ASSUME NEW E, KeptBut(W, V, E) PROVE S \ E \subseteq T
  BY <1>5 DEF Standing, KeptBut, Alike, Counts
<1>6. G \in SUBSET Organ
  BY OrganAssumption DEF Genuine
<1>7. CASE damage' = damage /\ KeptBut(W, V, {})
  <2>1. S \subseteq T
    BY <1>5, <1>7
  <2> HIDE DEF G, S, T
  <2>2. G \ T \in SUBSET (G \ S) /\ G \ S \in SUBSET Organ /\ G \ T \in SUBSET Organ
    BY <1>6, <2>1
  <2>3. Cardinality(G \ T) <= Cardinality(G \ S)
        /\ Cardinality(G \ T) \in Nat /\ Cardinality(G \ S) \in Nat
    BY <2>2, OrganSets, FS_Subset
  <2>4. Cardinality(G \ T) <= damage'
    BY <1>1, <1>4, <1>7, <2>3
  <2> QED BY <1>1, <1>2, <1>3, <2>4 DEF Spared
<1>8. CASE damage' = damage + 1 /\ \E o : KeptBut(W, V, {o})
  <2>1. PICK o : KeptBut(W, V, {o})
    BY <1>8
  <2>2. S \ {o} \subseteq T
    BY <1>5, <2>1
  <2> HIDE DEF G, S, T
  <2>3. G \ T \in SUBSET ((G \ S) \cup {o}) /\ G \ S \in SUBSET Organ
        /\ G \ T \in SUBSET Organ
    BY <1>6, <2>2
  <2>4. /\ IsFiniteSet((G \ S) \cup {o})
        /\ Cardinality((G \ S) \cup {o}) <= Cardinality(G \ S) + 1
        /\ Cardinality((G \ S) \cup {o}) \in Nat
        /\ Cardinality(G \ S) \in Nat /\ Cardinality(G \ T) \in Nat
    BY <2>3, OrganSets, FS_AddElement, FS_CardinalityType
  <2>5. Cardinality(G \ T) <= Cardinality((G \ S) \cup {o})
    BY <2>3, <2>4, FS_Subset
  <2>6. Cardinality(G \ T) <= damage'
    BY <1>1, <1>4, <1>8, <2>4, <2>5
  <2> QED BY <1>1, <1>2, <1>3, <2>6 DEF Spared
<1> QED
  BY <1>7, <1>8, TransitKeeps

\* Signatures elsewhere touch neither certificate.
LEMMA NextSpared == TypeOK /\ Spared /\ [Next]_vars => Spared'
<1> SUFFICES ASSUME TypeOK, Spared, [Next]_vars PROVE Spared'
  OBVIOUS
<1>1. CASE (\E o \in Organ, a \in Action, v \in Verdict : SignElsewhere(o, a, v))
            \/ UNCHANGED vars
  <2>1. UNCHANGED <<cert, issued, damage>>
    BY <1>1 DEF SignElsewhere, vars
  <2> QED BY <2>1 DEF Spared, Genuine, Standing, Counts
<1> QED
  BY <1>1, IssuedStands, ChangeSpares DEF Next

\* With a threshold of its genuine organs left, the certificate is canonical.
LEMMA SparedSurvives == TypeOK /\ Spared => GenuineQuorumSurvives
<1> SUFFICES ASSUME TypeOK, Spared, Readable(cert), ~ Raises(cert), cert.action = issued.action,
                    Cardinality(Genuine(issued)) - damage >= Threshold
             PROVE  Canonical(cert)
  BY DEF GenuineQuorumSurvives
<1> DEFINE G == Genuine(issued)
           S == Standing(cert.witnesses, issued.action)
<1>1. S = CountingOrgans(cert)
  BY DEF Standing, CountingOrgans, ToSet, Counts
<1>2. issued # NoCert
  BY DEF Readable, NoCert
<1>3. Cardinality(G \ S) <= damage /\ damage \in Nat
  BY <1>2 DEF Spared, TypeOK
<1>4. G \in SUBSET Organ /\ S \in SUBSET Organ
  BY OrganAssumption DEF Genuine, Standing
<1> HIDE DEF G, S
<1>5. /\ Cardinality(G \ S) = Cardinality(G) - Cardinality(G \cap S)
      /\ Cardinality(G \cap S) <= Cardinality(S)
      /\ Cardinality(G) \in Nat /\ Cardinality(S) \in Nat /\ Cardinality(G \cap S) \in Nat
  <2>1. IsFiniteSet(G) /\ IsFiniteSet(S) /\ G \cap S \in SUBSET S /\ G \cap S \in SUBSET Organ
    BY <1>4, OrganSets
  <2> QED BY <1>4, <2>1, OrganSets, FS_Difference, FS_Subset
<1>6. Cardinality(S) >= Threshold
  BY <1>3, <1>5, PolicyAssumption DEF G
<1> QED
  BY <1>1, <1>6 DEF Canonical, ConsensusCount

\* Where the verifier comes to a verdict, what is added to a certificate on the way never
\* demotes it, and each record lost or altered costs it one organ at most: n - threshold of
\* them are tolerated.
THEOREM QuorumSurvives == Spec => []GenuineQuorumSurvives
<1>1. Init => Spared
  BY DEF Init, Spared
<1> QED
  BY <1>1, TypeCorrect, NextSpared, SparedSurvives, PTL DEF Spec

----------------------------------------------------------------------------
(* Proposer and verifier.                                                  *)

OrgansNamed(W) == {W[i].organ : i \in DOMAIN W}

\* The flags of the certificate that was issued are those of its own tally.
FlagsAsTallied ==
  issued # NoCert =>
    /\ issued.action \in Action
    /\ issued.count = Tally(issued.witnesses, issued.action, OrgansNamed(issued.witnesses))
    /\ issued.canonical = Decision(issued.count, issued.policy[1])

\* They are when it is issued, as each organ's record names the organ.
LEMMA ProposalFlags ==
  ASSUME TypeOK, NEW a \in Action, NEW organs \in BoundedSeq(Organ, MaxOrgans),
         NEW verdicts \in [Organ -> Verdict], NEW policy \in Policy,
         Propose(a, organs, verdicts, policy)
  PROVE  FlagsAsTallied'
<1> DEFINE W == [i \in DOMAIN organs |-> SignVerdict(organs[i], a, verdicts[organs[i]])]
           count == Tally(W, a, ToSet(organs))
<1>1. /\ cert' = [action |-> a, witnesses |-> W, policy |-> policy,
                  canonical |-> Decision(count, policy[1]), count |-> count]
      /\ issued' = cert'
  BY DEF Propose
<1>2. DOMAIN W = DOMAIN organs /\ \A i \in DOMAIN organs : W[i].organ = organs[i]
  BY DEF SignVerdict
<1>3. OrgansNamed(W) = ToSet(organs)
  <2> HIDE DEF W
  <2> QED BY <1>2 DEF OrgansNamed, ToSet
<1> HIDE DEF W
<1> QED
  BY <1>1, <1>3 DEF FlagsAsTallied

\* A certificate is issued once.
LEMMA NextFlags == TypeOK /\ FlagsAsTallied /\ [Next]_vars => FlagsAsTallied'
<1> SUFFICES ASSUME TypeOK, FlagsAsTallied, [Next]_vars PROVE FlagsAsTallied'
  OBVIOUS
<1>1. CASE ProposeOnce
  BY <1>1, ProposalFlags DEF ProposeOnce
<1>2. CASE issued' = issued
  BY <1>2 DEF FlagsAsTallied
<1>3. ProposeOnce \/ issued' = issued
  BY TransitSteps DEF Next, SignElsewhere, vars
<1> QED
  BY <1>1, <1>2, <1>3

\* Among organs that are trusted and named once each, counting records is counting organs.
LEMMA TallyCountsOrgans ==
  ASSUME TypeOK, IsInjective([i \in DOMAIN cert.witnesses |-> cert.witnesses[i].organ]),
         OrgansNamed(cert.witnesses) \subseteq Trusted
  PROVE  Cardinality(CountingOrgans(cert))
           = Tally(cert.witnesses, cert.action, OrgansNamed(cert.witnesses))
<1> DEFINE W == cert.witnesses
           I == {i \in DOMAIN W : Counts(W[i], cert.action, OrgansNamed(W))}
           O == CountingOrgans(cert)
           f == [i \in I |-> W[i].organ]
<1>1. W \in Seq(Witness)
  BY DEF TypeOK, Certificate
<1>2. \A i \in DOMAIN W : Counts(W[i], cert.action, OrgansNamed(W))
                          <=> Counts(W[i], cert.action, Trusted)
  BY DEF Counts, OrgansNamed
<1>3. IsFiniteSet(I)
  <2>1. I \in SUBSET (1 .. Len(W)) /\ Len(W) \in Nat
    <3> HIDE DEF W
    <3> QED BY <1>1, LenProperties
  <2>2. IsFiniteSet(1 .. Len(W))
    BY <2>1, FS_Interval
  <2> HIDE DEF I
  <2> QED BY <2>1, <2>2, FS_Subset
<1>4. O = {W[i].organ : i \in I}
  BY <1>2 DEF CountingOrgans, ToSet
<1>5. \A i, j \in DOMAIN W : W[i].organ = W[j].organ => i = j
  BY DEF IsInjective
<1>6. f \in Bijection(I, O)
  <2> HIDE DEF O, W
  <2> QED BY <1>4, <1>5 DEF Bijection, Injection, Surjection, IsInjective
<1>7. Cardinality(O) = Cardinality(I)
  <2>1. ExistsBijection(I, O)
    BY <1>6 DEF ExistsBijection
  <2> HIDE DEF I, O
  <2> QED BY <1>3, <2>1, FS_Bijection
<1> QED
  BY <1>7 DEF Tally

\* So the two come to the same decision.
LEMMA FlagsAgree == TypeOK /\ FlagsAsTallied => ProposerAndVerifierAgree
<1> DEFINE organs == [i \in DOMAIN cert.witnesses |-> cert.witnesses[i].organ]
<1> SUFFICES ASSUME TypeOK, FlagsAsTallied, cert = issued, cert.policy = <<Threshold, N>>,
                    IsInjective(organs), ToSet(organs) \subseteq Trusted
             PROVE  Canonical(cert) = cert.canonical /\ ConsensusCount(cert) = cert.count
  BY DEF ProposerAndVerifierAgree
<1>1. CASE cert = NoCert
  <2>1. cert.action = NoAction /\ cert.canonical = FALSE /\ cert.count = 0
    BY <1>1 DEF NoCert
  <2>2. Readable(cert) = FALSE
    BY <2>1 DEF Readable
  <2> QED
    BY <2>1, <2>2 DEF Canonical, ConsensusCount
<1>2. CASE cert # NoCert
  <2>1. /\ cert.action \in Action
        /\ cert.count = Tally(cert.witnesses, cert.action, OrgansNamed(cert.witnesses))
        /\ cert.canonical = Decision(cert.count, Threshold)
    BY <1>2 DEF FlagsAsTallied
  <2>2. Readable(cert)
    BY <2>1, ActionAssumption DEF Readable, PolicyMatches
  <2>3. OrgansNamed(cert.witnesses) \subseteq Trusted
    BY DEF OrgansNamed, ToSet
  <2>4. ConsensusCount(cert) = cert.count
    BY <2>1, <2>2, <2>3, TallyCountsOrgans DEF ConsensusCount
  <2>5. ~ Raises(cert)
    <3>1. \A i \in DOMAIN cert.witnesses : cert.witnesses[i].organ # Unhashable
      BY <2>3, OrganAssumption DEF OrgansNamed
    <3> QED BY <3>1 DEF Raises, ToSet
  <2>6. Canonical(cert) = (cert.count >= Threshold)
    BY <2>2, <2>4, <2>5 DEF Canonical
  <2> QED
    BY <2>1, <2>4, <2>6 DEF Decision
<1> QED
  BY <1>1, <1>2

\* The verifier judges a certificate that arrives as it was issued as its proposer did, if
\* the proposer named trusted organs, each once, under the verifier's policy.
THEOREM ProposerIsBelieved == Spec => []ProposerAndVerifierAgree
<1>1. Init => FlagsAsTallied
  BY DEF Init, FlagsAsTallied
<1> QED
  BY <1>1, TypeCorrect, NextFlags, FlagsAgree, PTL DEF Spec
=============================================================================
