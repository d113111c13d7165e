------------------------- MODULE QuorumCertificate -------------------------
(***************************************************************************)
(* A quorum certificate (src/szl_mesh/quorum.py, over the khipu engine in  *)
(* _vendor/khipu_consensus): organs sign a verdict about an action, the    *)
(* proposer collects the records and flags the certificate, the certificate*)
(* travels as JSON whose fields no signature covers, and a verifier that   *)
(* has its own policy and public keys judges what arrives.  Cryptography   *)
(* is abstracted to who signed what: a record verifies under the key of    *)
(* the organ that signed it, as long as it is as it was signed.            *)
(***************************************************************************)
EXTENDS Integers, Sequences, FiniteSets, SequencesExt

CONSTANTS
  Organ,         \* the organs that have a key
  Trusted,       \* the organs whose public key the verifier has
  Unhashable,    \* what JSON may have for an organ that no dict can be asked for
  Action,        \* action hashes
  NoAction,      \* an action hash that is missing or no string
  Threshold, N,  \* the verifier's policy
  Policy,        \* the policies that proposers and certificates name
  Undeclared,    \* a certificate that names none
  MaxOrgans,     \* bound of the model: the length of a proposal's list of organs
  MaxElsewhere,  \* bound of the model: verdicts signed in earlier proposals
  MaxFaults      \* bound of the model: changes on the way

ValidPolicy(policy) == 1 <= policy[1] /\ policy[1] <= policy[2]

\* Organs are finitely many, and verify_quorum raises ValueError under another policy.
ASSUME OrganAssumption ==
  IsFiniteSet(Organ) /\ Trusted \subseteq Organ /\ Unhashable \notin Organ
ASSUME PolicyAssumption ==
  /\ Threshold \in Nat /\ N \in Nat /\ ValidPolicy(<<Threshold, N>>)
  /\ Policy \subseteq Int \X Int
ASSUME ActionAssumption == NoAction \notin Action

VARIABLES
  signed,   \* every verdict any organ has signed
  issued,   \* the certificate as propose_action returned it, NoCert before
  cert,     \* the certificate as it is by now
  damage,   \* records of the certificate lost or altered on the way
  faults    \* changes on the way

vars == <<signed, issued, cert, damage, faults>>

Verdict == {"allow", "block"}
Statement == [signer : Organ, action : Action, verdict : Verdict]

\* A record of a witness: the organ and the verdict it says it is from and of, and the
\* signed statement inside, which may no longer be what was signed.
Witness == [organ : Organ \cup {Unhashable}, said : Verdict, statement : Statement,
            intact : BOOLEAN]

Certificate ==
  [action : Action \cup {NoAction}, witnesses : Seq(Witness),
   policy : Policy \cup {Undeclared}, canonical : BOOLEAN, count : Nat]

NoCert == [action |-> NoAction, witnesses |-> <<>>, policy |-> Undeclared,
           canonical |-> FALSE, count |-> 0]

TypeOK ==
  /\ signed \subseteq Statement
  /\ cert \in Certificate /\ issued \in Certificate
  /\ damage \in Nat /\ faults \in Nat

Init ==
  /\ signed = {}
  /\ cert = NoCert
  /\ issued = NoCert
  /\ damage = 0
  /\ faults = 0

----------------------------------------------------------------------------
(* The engine.                                                             *)

\* Faulty variant: an organ that does not allow signs its reason in place of its verdict.
SignReason(organ, action, verdict) ==
  LET said == IF verdict = "allow" THEN "allow" ELSE "dissent"
      statement == [signer |-> organ, action |-> action, verdict |-> said]
  IN  [organ |-> organ, said |-> said, statement |-> statement, intact |-> TRUE]

SignVerdict(organ, action, verdict) ==
  LET statement == [signer |-> organ, action |-> action, verdict |-> verdict]
  IN  [organ |-> organ, said |-> verdict, statement |-> statement, intact |-> TRUE]

\* Faulty variant: the verdict is taken from the record, not from what was signed.
CountsAsSaid(w, action, pubkeys) ==
  /\ w.organ \in pubkeys
  /\ w.intact /\ w.statement.signer = w.organ
  /\ w.statement.action = action
  /\ w.said = "allow"

\* verify_verdict under the key of the organ the record says it is from.
Counts(w, action, pubkeys) ==
  /\ w.organ \in pubkeys
  /\ w.intact /\ w.statement.signer = w.organ
  /\ w.statement.action = action
  /\ w.statement.verdict = "allow"

Tally(witnesses, action, pubkeys) ==
  Cardinality({i \in DOMAIN witnesses : Counts(witnesses[i], action, pubkeys)})

----------------------------------------------------------------------------
(* The proposer.                                                           *)

\* Faulty variant: one allow more than the threshold is asked for.
DecisionAbove(count, threshold) == count > threshold

Decision(count, threshold) == count >= threshold

\* propose_action: the organs listed sign, in the list's order and as often as it names
\* them, and the tally counts their records; an organ without a key is passed over, as if
\* the list did not name it.
Propose(action, organs, verdicts, policy) ==
  LET witnesses == [i \in DOMAIN organs |->
                      SignVerdict(organs[i], action, verdicts[organs[i]])]
      count == Tally(witnesses, action, ToSet(organs))
  IN  /\ ValidPolicy(policy)
      /\ cert' = [action |-> action, witnesses |-> witnesses, policy |-> policy,
                  canonical |-> Decision(count, policy[1]), count |-> count]
      /\ issued' = cert'
      /\ signed' = signed \cup {w.statement : w \in ToSet(witnesses)}
      /\ UNCHANGED <<damage, faults>>

\* A verdict signed in an earlier proposal, whose certificate goes elsewhere.
SignElsewhere(organ, action, verdict) ==
  /\ issued = NoCert
  /\ Cardinality(signed) < MaxElsewhere      \* bound
  /\ signed' = signed \cup {SignVerdict(organ, action, verdict).statement}
  /\ UNCHANGED <<cert, issued, damage, faults>>

----------------------------------------------------------------------------
(* On the way: the records of another certificate join, records come twice,*)
(* get lost or altered, and the fields around them change.                 *)

Change(newCert, harm) ==
  /\ issued # NoCert /\ newCert # cert
  /\ faults < MaxFaults                      \* bound
  /\ cert' = newCert
  /\ faults' = faults + 1
  /\ damage' = damage + harm
  /\ UNCHANGED <<signed, issued>>

AddWitness(organ, statement, intact) ==
  /\ statement \in signed
  /\ Change([cert EXCEPT !.witnesses =
               Append(@, [organ |-> organ, said |-> statement.verdict,
                          statement |-> statement, intact |-> intact])], 0)

LoseWitness(i) == Change([cert EXCEPT !.witnesses = RemoveAt(@, i)], 1)

SpoilWitness(i) == Change([cert EXCEPT !.witnesses[i].intact = FALSE], 1)

Relabel(i, organ) == Change([cert EXCEPT !.witnesses[i].organ = organ], 1)

\* The verdict beside the signed statement.
Misquote(i, verdict) == Change([cert EXCEPT !.witnesses[i].said = verdict], 0)

Retarget(action) == Change([cert EXCEPT !.action = action], 0)

Redeclare(policy) == Change([cert EXCEPT !.policy = policy], 0)

----------------------------------------------------------------------------
(* The verifier.                                                           *)

\* Faulty variant: a record that does not count speaks against its organ's others.
CountingOrgansUnanimous(c) ==
  {o \in Organ :
     /\ \E w \in ToSet(c.witnesses) : w.organ = o
     /\ \A w \in ToSet(c.witnesses) : w.organ = o => Counts(w, c.action, Trusted)}

CountingOrgans(c) ==
  {w.organ : w \in {v \in ToSet(c.witnesses) : Counts(v, c.action, Trusted)}}

\* A policy that is not declared is taken to be the verifier's.
PolicyMatches(c) == c.policy \in {<<Threshold, N>>, Undeclared}

\* verify_quorum fails closed on a certificate of another policy or of no action.
Readable(c) == PolicyMatches(c) /\ c.action # NoAction

\* tally: the engine looks each record's organ up among the public keys, and for a list or
\* an object that raises, out of verify_quorum and whatever the other records are.
Raises(c) == Readable(c) /\ \E w \in ToSet(c.witnesses) : w.organ = Unhashable

ConsensusCount(c) == IF Readable(c) THEN Cardinality(CountingOrgans(c)) ELSE 0

Canonical(c) == Readable(c) /\ ~ Raises(c) /\ ConsensusCount(c) >= Threshold

----------------------------------------------------------------------------
Transit ==
  \/ \E statement \in signed, intact \in BOOLEAN :
       \E organ \in {statement.signer, Unhashable} : AddWitness(organ, statement, intact)
  \/ \E i \in DOMAIN cert.witnesses :
       \/ LoseWitness(i) \/ SpoilWitness(i)
       \/ \E organ \in Organ \cup {Unhashable} : Relabel(i, organ)
       \/ \E verdict \in Verdict : Misquote(i, verdict)
  \/ \E action \in Action \cup {NoAction} : Retarget(action)
  \/ \E policy \in Policy \cup {Undeclared} : Redeclare(policy)

\* One certificate is followed.
ProposeOnce ==
  /\ issued = NoCert
  /\ \E action \in Action, organs \in BoundedSeq(Organ, MaxOrgans),
        verdicts \in [Organ -> Verdict], policy \in Policy :
       Propose(action, organs, verdicts, policy)

Next ==
  \/ ProposeOnce
  \/ \E organ \in Organ, action \in Action, verdict \in Verdict :
       SignElsewhere(organ, action, verdict)
  \/ Transit

Spec == Init /\ [][Next]_vars

----------------------------------------------------------------------------
(* Properties.                                                             *)

\* The trusted organs that signed an allow of the action, wherever the record is.
Signers(action) ==
  {o \in Trusted : [signer |-> o, action |-> action, verdict |-> "allow"] \in signed}

\* "Never fabricate a quorum": whatever happened to a certificate on the way, the verifier
\* takes it for canonical only if as many trusted organs as its own policy asks for
\* signed an allow of that very action.
CanonicalIsEarned ==
  Canonical(cert) => Cardinality(Signers(cert.action)) >= Threshold

\* The organs whose allow of its action a certificate was issued with.
Genuine(c) ==
  {o \in Trusted : \E w \in ToSet(c.witnesses) :
     w.statement = [signer |-> o, action |-> c.action, verdict |-> "allow"]}

\* "A forged duplicate cannot demote a real 3-of-4": what is added to a certificate takes
\* nothing from it, and it stays canonical while no more of its records are lost or altered
\* than it has to spare; unless the verifier comes to no verdict, for a record whose organ
\* is no name.
GenuineQuorumSurvives ==
  Readable(cert) /\ ~ Raises(cert) /\ cert.action = issued.action
    /\ Cardinality(Genuine(issued)) - damage >= Threshold
  => Canonical(cert)

\* A certificate that arrives as it was issued is judged as its proposer flagged it, if
\* the two have one policy and the proposer named organs the verifier trusts, each once.
ProposerAndVerifierAgree ==
  LET organs == [i \in DOMAIN cert.witnesses |-> cert.witnesses[i].organ]
  IN  cert = issued /\ cert.policy = <<Threshold, N>>
        /\ IsInjective(organs) /\ ToSet(organs) \subseteq Trusted
      => Canonical(cert) = cert.canonical /\ ConsensusCount(cert) = cert.count
=============================================================================
