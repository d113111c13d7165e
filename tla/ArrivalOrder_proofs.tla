------------------------ MODULE ArrivalOrder_proofs ------------------------
(***************************************************************************)
(* Proofs about ArrivalOrder: the corroboration ledger, the snapshot merge *)
(* and the convergence lab, for any number of collectors, reporters,       *)
(* sites, snapshots, rows and replicas and any policies.                   *)
(***************************************************************************)
EXTENDS ArrivalOrder, Recursion

----------------------------------------------------------------------------
(* The corroboration ledger.                                               *)

\* The threshold of a class is a number.
LEMMA KForIsNat == \A class : KFor(class) \in Nat
BY ThresholdAssumption DEF KFor

\* Entering a node adds it to the list's set of nodes, and lists none twice.
LEMMA EnteredIs ==
  ASSUME NEW s \in Seq(Reporter), NEW r \in Reporter
  PROVE  /\ Entered(s, r) \in Seq(Reporter)
         /\ ToSet(Entered(s, r)) = ToSet(s) \cup {r}
         /\ IsInjective(s) => IsInjective(Entered(s, r))
<1>1. CASE r \in ToSet(s)
  BY <1>1 DEF Entered
<1>2. CASE r \notin ToSet(s)
  <2> DEFINE t == Append(s, r)
  <2>1. Entered(s, r) = t
    BY <1>2 DEF Entered
  <2>2. /\ t \in Seq(Reporter) /\ Len(s) \in Nat
        /\ DOMAIN s = 1 .. Len(s) /\ DOMAIN t = 1 .. Len(s) + 1
        /\ \A i \in 1 .. Len(s) : t[i] = s[i]
        /\ t[Len(s) + 1] = r
    BY AppendProperties, LenProperties
  <2> HIDE DEF t
  <2>3. \A i \in DOMAIN t : i \in DOMAIN s \/ i = Len(s) + 1
    BY <2>2
  <2>4. \A i \in DOMAIN s : i \in DOMAIN t /\ Len(s) + 1 \in DOMAIN t
    BY <2>2
  <2>5. Len(s) + 1 \in DOMAIN t
    BY <2>2
  <2>6. ToSet(t) = ToSet(s) \cup {r}
    BY <2>2, <2>3, <2>4, <2>5 DEF ToSet
  <2>7. IsInjective(s) => IsInjective(t)
    BY <1>2, <2>2, <2>3 DEF IsInjective, ToSet
  <2> QED BY <2>1, <2>2, <2>6, <2>7
<1> QED BY <1>1, <1>2

\* The entry that a report makes or finds.
LEMMA OpenedEntry ==
  ASSUME NEW e \in Entry \cup {NoEntry}, NEW class \in Class, NEW window \in Window
  PROVE  LET old == Opened(e, class, window)
         IN  /\ old \in Entry
             /\ old.nodes = e.nodes /\ old.status = e.status
             /\ e = NoEntry => old.class = class /\ old.k = KFor(class)
             /\ e # NoEntry => old = e
<1>1. CASE e = NoEntry
  <2>1. <<>> \in Seq(Reporter)
    BY EmptySeq
  <2> QED BY <1>1, <2>1, KForIsNat DEF Opened, NoEntry, Entry, Status
<1>2. CASE e # NoEntry
  BY <1>2 DEF Opened
<1> QED BY <1>1, <1>2

\* What a report leaves of an entry.
LEMMA NotedEntry ==
  ASSUME NEW e \in Entry, NEW r \in Reporter, NEW class \in Class
  PROVE  /\ Noted(e, r, class) \in Entry
         /\ Noted(e, r, class).nodes = Entered(e.nodes, r)
         /\ Noted(e, r, class).k = e.k /\ Noted(e, r, class).class = e.class
         /\ e.status # "FAILED" /\ Corroborated(Entered(e.nodes, r), class)
              => Noted(e, r, class).status = "CORROBORATED"
         /\ ~ (e.status # "FAILED" /\ Corroborated(Entered(e.nodes, r), class))
              => Noted(e, r, class).status = e.status
<1> DEFINE N == Entered(e.nodes, r)
<1>0. N \in Seq(Reporter) BY EnteredIs DEF Entry
<1>1. CASE e.status # "FAILED" /\ Corroborated(N, class)
  <2>1. Noted(e, r, class) = [e EXCEPT !.nodes = N, !.status = "CORROBORATED"]
    BY <1>1 DEF Noted
  <2> HIDE DEF N
  <2>2. /\ Noted(e, r, class) \in Entry
        /\ Noted(e, r, class).nodes = N
        /\ Noted(e, r, class).k = e.k /\ Noted(e, r, class).class = e.class
        /\ Noted(e, r, class).status = "CORROBORATED"
    BY <1>0, <2>1 DEF Entry, Status
  <2> QED BY <1>1, <2>2 DEF N
<1>2. CASE ~ (e.status # "FAILED" /\ Corroborated(N, class))
  <2>1. Noted(e, r, class) = [e EXCEPT !.nodes = N, !.status = e.status]
    BY <1>2 DEF Noted
  <2> HIDE DEF N
  <2>2. /\ Noted(e, r, class) \in Entry
        /\ Noted(e, r, class).nodes = N
        /\ Noted(e, r, class).k = e.k /\ Noted(e, r, class).class = e.class
        /\ Noted(e, r, class).status = e.status
    BY <1>0, <2>1 DEF Entry, Status
  <2> QED BY <1>2, <2>2 DEF N
<1> QED BY <1>1, <1>2

\* A change that has an annotation is not one without.
LEMMA NoEntryIsNone == NoEntry \notin Entry
<1> SUFFICES ASSUME NoEntry \in Entry PROVE FALSE
  OBVIOUS
<1>1. DOMAIN NoEntry = {"status", "nodes"} BY DEF NoEntry
<1>2. "k" \in DOMAIN NoEntry BY DEF Entry
<1> QED BY <1>1, <1>2

\* Marking an entry failed changes its status alone.
LEMMA FailedEntryIs ==
  ASSUME NEW e \in Entry \cup {NoEntry}
  PROVE  /\ Failed(e) \in Entry \cup {NoEntry}
         /\ Failed(e).nodes = e.nodes
         /\ Failed(e).status # "CORROBORATED"
         /\ Failed(e) = NoEntry <=> e = NoEntry
         /\ e # NoEntry => /\ Failed(e).status = "FAILED"
                           /\ Failed(e).k = e.k /\ Failed(e).class = e.class
<1>1. CASE e = NoEntry
  BY <1>1 DEF Failed, NoEntry
<1>2. CASE e # NoEntry
  <2>1. e \in Entry /\ Failed(e) = [e EXCEPT !.status = "FAILED"] BY <1>2 DEF Failed
  <2>2. /\ Failed(e) \in Entry /\ Failed(e).nodes = e.nodes /\ Failed(e).status = "FAILED"
        /\ Failed(e).k = e.k /\ Failed(e).class = e.class
    BY <2>1 DEF Entry, Status
  <2> QED BY <1>2, <2>2, NoEntryIsNone
<1> QED BY <1>1, <1>2

\* Every step keeps the types.
LEMMA TypeStep == LedgerTypeOK /\ [LedgerNext]_ledgerVars => LedgerTypeOK'
<1> SUFFICES ASSUME LedgerTypeOK, [LedgerNext]_ledgerVars PROVE LedgerTypeOK'
  OBVIOUS
<1>1. ASSUME NEW r \in Reporter, NEW ch \in Change, Sight(r, ch) PROVE LedgerTypeOK'
  BY <1>1 DEF LedgerTypeOK, Sight
<1>2. ASSUME NEW c \in Collector, NEW r \in Reporter, NEW ch \in Change, NEW class \in Class,
             NEW window \in Window, Observe(c, r, ch, class, window)
      PROVE  LedgerTypeOK'
  <2>1. Noted(Opened(entries[c][ch], class, window), r, class) \in Entry
    <3>1. entries[c][ch] \in Entry \cup {NoEntry}
      BY DEF LedgerTypeOK
    <3>2. Opened(entries[c][ch], class, window) \in Entry
      BY <3>1, OpenedEntry
    <3> QED BY <3>2, NotedEntry
  <2>2. entries' \in [Collector -> [Change -> Entry \cup {NoEntry}]]
    BY <1>2, <2>1 DEF LedgerTypeOK, Observe
  <2>3. heard' \in [Collector -> SUBSET Report]
    BY <1>2 DEF LedgerTypeOK, Observe, Report
  <2> QED BY <1>2, <2>2, <2>3 DEF LedgerTypeOK, Observe
<1>3. ASSUME NEW c \in Collector, NEW ch \in Change, MarkFailed(c, ch) PROVE LedgerTypeOK'
  <2>1. Failed(entries[c][ch]) \in Entry \cup {NoEntry}
    <3>1. entries[c][ch] \in Entry \cup {NoEntry} BY DEF LedgerTypeOK
    <3> QED BY <3>1, FailedEntryIs
  <2> QED BY <1>3, <2>1 DEF LedgerTypeOK, MarkFailed
<1>4. CASE UNCHANGED ledgerVars
  BY <1>4 DEF LedgerTypeOK, ledgerVars
<1> QED BY <1>1, <1>2, <1>3, <1>4 DEF LedgerNext

\* The initial states are well typed.
LEMMA TypeInit == LedgerInit => LedgerTypeOK
BY DEF LedgerInit, LedgerTypeOK

\* The ledger's variables keep their types.
THEOREM LedgerTypeCorrect == LedgerSpec => []LedgerTypeOK
BY TypeInit, TypeStep, PTL DEF LedgerSpec

----------------------------------------------------------------------------
(* Soft safety.  An entry holds only nodes that reported what they could,  *)
(* and one that is corroborated holds as many as the class of some report  *)
(* of it asks for: more than there are Byzantine nodes, if all classes do. *)

NodesCouldReport ==
  \A c \in Collector, ch \in Change :
    \A r \in ToSet(entries[c][ch].nodes) : r \in Byzantine \/ <<r, ch>> \in sighted

CorroboratedByClass ==
  \A c \in Collector, ch \in Change :
    entries[c][ch].status = "CORROBORATED" =>
      \E h \in Heard(c, ch) : Corroborated(entries[c][ch].nodes, h.class)

SafetyInv == LedgerTypeOK /\ NodesCouldReport /\ CorroboratedByClass

\* An annotation lists finitely many nodes, and all are reporters.
LEMMA NodesAreReporters ==
  ASSUME LedgerTypeOK, NEW c \in Collector, NEW ch \in Change
  PROVE  /\ entries[c][ch] \in Entry \cup {NoEntry}
         /\ entries[c][ch].nodes \in Seq(Reporter)
         /\ ToSet(entries[c][ch].nodes) \subseteq Reporter
         /\ IsFiniteSet(ToSet(entries[c][ch].nodes))
<1>1. entries[c][ch] \in Entry \cup {NoEntry}
  BY DEF LedgerTypeOK
<1>2. entries[c][ch].nodes \in Seq(Reporter)
  <2>1. NoEntry.nodes \in Seq(Reporter)
    BY EmptySeq DEF NoEntry
  <2>2. entries[c][ch] \in Entry => entries[c][ch].nodes \in Seq(Reporter)
    BY DEF Entry
  <2> QED BY <1>1, <2>1, <2>2
<1>3. ToSet(entries[c][ch].nodes) \subseteq Reporter
  BY <1>2, ElementOfSeq, LenProperties DEF ToSet
<1> QED BY <1>1, <1>2, <1>3, FS_Subset, ReporterAssumption

\* More nodes never fall below a threshold that fewer reached.
LEMMA MoreNodesCorroborate ==
  ASSUME NEW s \in Seq(Reporter), IsFiniteSet(ToSet(s)), NEW r \in Reporter, NEW class,
         Corroborated(s, class)
  PROVE  Corroborated(Entered(s, r), class)
<1> DEFINE S == ToSet(s)
<1>1. Cardinality(S) >= KFor(class) BY DEF Corroborated
<1>2. /\ IsFiniteSet(S \cup {r})
      /\ Cardinality(S \cup {r}) = IF r \in S THEN Cardinality(S) ELSE Cardinality(S) + 1
  BY FS_AddElement
<1>3. Cardinality(S \cup {r}) \in Nat /\ Cardinality(S) \in Nat
  BY <1>2, FS_CardinalityType
<1>4. Cardinality(S \cup {r}) >= KFor(class)
  <2> HIDE DEF S
  <2> QED BY <1>1, <1>2, <1>3, KForIsNat
<1>5. ToSet(Entered(s, r)) = S \cup {r}
  BY EnteredIs
<1> QED BY <1>4, <1>5 DEF Corroborated

\* The strengthened invariant gives soft safety.
LEMMA SafetyInvImplies == SafetyInv => SoftSafety
<1> SUFFICES ASSUME SafetyInv, NEW c \in Collector, NEW ch \in Change,
                    Confidence("OBSERVED", entries[c][ch].status) = "medium",
                    \A h \in Heard(c, ch) : KFor(h.class) > Cardinality(Byzantine)
             PROVE  \E r \in Honest : <<r, ch>> \in sighted
  BY DEF SoftSafety
<1> DEFINE N == ToSet(entries[c][ch].nodes)
<1>1. entries[c][ch].status = "CORROBORATED"
  BY DEF Confidence
<1>2. PICK h \in Heard(c, ch) : Corroborated(entries[c][ch].nodes, h.class)
  BY <1>1 DEF SafetyInv, CorroboratedByClass
<1>3. IsFiniteSet(N) /\ N \subseteq Reporter
  BY NodesAreReporters DEF SafetyInv
<1>4. IsFiniteSet(Byzantine)
  BY FS_Subset, ReporterAssumption
<1>5. Cardinality(N) > Cardinality(Byzantine)
  <2>1. Cardinality(N) >= KFor(h.class) BY <1>2 DEF Corroborated
  <2>2. Cardinality(N) \in Nat /\ Cardinality(Byzantine) \in Nat /\ KFor(h.class) \in Nat
    BY <1>3, <1>4, FS_CardinalityType, KForIsNat
  <2>3. KFor(h.class) > Cardinality(Byzantine) BY <1>2
  <2> HIDE DEF N
  <2> QED BY <2>1, <2>2, <2>3
<1>6. ~ (N \subseteq Byzantine)
  <2>1. ASSUME N \subseteq Byzantine PROVE FALSE
    <3>1. Cardinality(N) <= Cardinality(Byzantine) BY <2>1, <1>4, FS_Subset
    <3>2. Cardinality(N) \in Nat /\ Cardinality(Byzantine) \in Nat
      BY <1>3, <1>4, FS_CardinalityType
    <3> HIDE DEF N
    <3> QED BY <3>1, <3>2, <1>5
  <2> QED BY <2>1
<1>7. PICK r \in N : r \notin Byzantine BY <1>6
<1>8. <<r, ch>> \in sighted BY <1>7 DEF SafetyInv, NodesCouldReport
<1> QED BY <1>3, <1>7, <1>8 DEF Honest

\* A report is heard where and of what it is made, and nowhere else.
LEMMA HeardAfter ==
  ASSUME LedgerTypeOK, NEW c \in Collector, NEW r \in Reporter, NEW ch \in Change,
         NEW class \in Class, NEW window \in Window, Observe(c, r, ch, class, window),
         NEW d \in Collector, NEW dh \in Change
  PROVE  Heard(d, dh)' =
           IF d = c /\ dh = ch
           THEN Heard(c, ch) \cup {[node |-> r, change |-> ch, class |-> class]}
           ELSE Heard(d, dh)
<1> DEFINE made == [node |-> r, change |-> ch, class |-> class]
<1>1. heard'[d] = IF d = c THEN heard[c] \cup {made} ELSE heard[d]
  BY DEF LedgerTypeOK, Observe
<1>2. made.change = ch OBVIOUS
<1> HIDE DEF made
<1>3. CASE d = c /\ dh = ch BY <1>1, <1>2, <1>3 DEF Heard, made
<1>4. CASE d = c /\ dh # ch BY <1>1, <1>2, <1>4 DEF Heard, made
<1>5. CASE d # c BY <1>1, <1>5 DEF Heard, made
<1> QED BY <1>3, <1>4, <1>5

\* Every step keeps the strengthened invariant.
LEMMA SafetyStep == SafetyInv /\ [LedgerNext]_ledgerVars => SafetyInv'
<1> SUFFICES ASSUME SafetyInv, [LedgerNext]_ledgerVars PROVE SafetyInv'
  OBVIOUS
<1> USE DEF SafetyInv
<1>0. LedgerTypeOK' BY TypeStep
<1>1. ASSUME NEW r \in Reporter, NEW ch \in Change, Sight(r, ch) PROVE SafetyInv'
  <2>1. NodesCouldReport' BY <1>1 DEF NodesCouldReport, Sight
  <2>2. CorroboratedByClass' BY <1>1 DEF CorroboratedByClass, Sight, Heard
  <2> QED BY <1>0, <2>1, <2>2
<1>2. ASSUME NEW c \in Collector, NEW r \in Reporter, NEW ch \in Change, NEW class \in Class,
             NEW window \in Window, Observe(c, r, ch, class, window)
      PROVE  SafetyInv'
  <2> DEFINE old == Opened(entries[c][ch], class, window)
             new == Noted(old, r, class)
             made == [node |-> r, change |-> ch, class |-> class]
  <2>1. \A d \in Collector, dh \in Change :
          entries'[d][dh] = IF d = c /\ dh = ch THEN new ELSE entries[d][dh]
    BY <1>2 DEF LedgerTypeOK, Observe
  <2>2. /\ entries[c][ch] \in Entry \cup {NoEntry} /\ entries[c][ch].nodes \in Seq(Reporter)
        /\ IsFiniteSet(ToSet(entries[c][ch].nodes))
    BY NodesAreReporters
  <2>3. old \in Entry /\ old.nodes = entries[c][ch].nodes /\ old.status = entries[c][ch].status
    BY <2>2, OpenedEntry
  <2> HIDE DEF old
  <2>4. /\ new.nodes = Entered(old.nodes, r)
        /\ old.status # "FAILED" /\ Corroborated(Entered(old.nodes, r), class)
             => new.status = "CORROBORATED"
        /\ ~ (old.status # "FAILED" /\ Corroborated(Entered(old.nodes, r), class))
             => new.status = old.status
    <3>1. old \in Entry BY <2>3, Zenon
    <3> QED BY <3>1, NotedEntry, Zenon
  <2> HIDE DEF new, made
  <2>5. NodesCouldReport'
    <3> SUFFICES ASSUME NEW d \in Collector, NEW dh \in Change, NEW q \in ToSet(entries'[d][dh].nodes)
                 PROVE  q \in Byzantine \/ <<q, dh>> \in sighted'
      BY DEF NodesCouldReport
    <3>1. CASE d = c /\ dh = ch
      <4>1. q \in ToSet(entries[c][ch].nodes) \cup {r}
        BY <3>1, <2>1, <2>2, <2>3, <2>4, EnteredIs
      <4> QED BY <3>1, <4>1, <1>2 DEF NodesCouldReport, Observe
    <3>2. CASE ~ (d = c /\ dh = ch)
      BY <3>2, <1>2, <2>1 DEF NodesCouldReport, Observe
    <3> QED BY <3>1, <3>2
  <2>6. CorroboratedByClass'
    <3> SUFFICES ASSUME NEW d \in Collector, NEW dh \in Change,
                        entries'[d][dh].status = "CORROBORATED"
                 PROVE  \E h \in Heard(d, dh)' : Corroborated(entries'[d][dh].nodes, h.class)
      BY DEF CorroboratedByClass, Corroborated
    <3>1. CASE d = c /\ dh = ch
      <4>1. Heard(c, ch)' = Heard(c, ch) \cup {made}
        BY <1>2, HeardAfter DEF made
      <4>2. new.status = "CORROBORATED" /\ entries'[c][ch] = new
        BY <2>1, <3>1
      <4>3. CASE Corroborated(Entered(old.nodes, r), class)
        <5>1. made.class = class BY DEF made
        <5> QED BY <3>1, <4>1, <4>2, <4>3, <5>1, <2>4
      <4>4. CASE ~ Corroborated(Entered(old.nodes, r), class)
        <5>1. entries[c][ch].status = "CORROBORATED" BY <4>2, <4>4, <2>3, <2>4
        <5>2. PICK h \in Heard(c, ch) : Corroborated(entries[c][ch].nodes, h.class)
          BY <5>1 DEF CorroboratedByClass
        <5>3. Corroborated(new.nodes, h.class)
          <6>1. new.nodes = Entered(entries[c][ch].nodes, r) BY <2>3, <2>4
          <6>2. Corroborated(Entered(entries[c][ch].nodes, r), h.class)
            BY <5>2, <2>2, MoreNodesCorroborate
          <6> QED BY <6>1, <6>2
        <5> QED BY <3>1, <4>1, <4>2, <5>2, <5>3
      <4> QED BY <4>3, <4>4
    <3>2. CASE ~ (d = c /\ dh = ch)
      <4>1. Heard(d, dh)' = Heard(d, dh) BY <1>2, <3>2, HeardAfter
      <4>2. entries'[d][dh] = entries[d][dh] BY <2>1, <3>2
      <4> QED BY <4>1, <4>2 DEF CorroboratedByClass
    <3> QED BY <3>1, <3>2
  <2> QED BY <1>0, <2>5, <2>6
<1>3. ASSUME NEW c \in Collector, NEW ch \in Change, MarkFailed(c, ch) PROVE SafetyInv'
  <2>1. entries[c][ch] \in Entry \cup {NoEntry} BY NodesAreReporters
  <2>2. /\ Failed(entries[c][ch]).nodes = entries[c][ch].nodes
        /\ Failed(entries[c][ch]).status # "CORROBORATED"
    BY <2>1, FailedEntryIs
  <2>3. \A d \in Collector, dh \in Change :
          entries'[d][dh] = IF d = c /\ dh = ch THEN Failed(entries[c][ch]) ELSE entries[d][dh]
    BY <1>3 DEF LedgerTypeOK, MarkFailed
  <2>4. NodesCouldReport'
    <3> SUFFICES ASSUME NEW d \in Collector, NEW dh \in Change, NEW q \in ToSet(entries'[d][dh].nodes)
                 PROVE  q \in Byzantine \/ <<q, dh>> \in sighted'
      BY DEF NodesCouldReport
    <3>1. q \in ToSet(entries[d][dh].nodes) BY <2>2, <2>3
    <3>2. sighted' = sighted BY <1>3 DEF MarkFailed
    <3> QED BY <3>1, <3>2 DEF NodesCouldReport
  <2>5. CorroboratedByClass'
    <3> SUFFICES ASSUME NEW d \in Collector, NEW dh \in Change,
                        entries'[d][dh].status = "CORROBORATED"
                 PROVE  \E h \in Heard(d, dh)' : Corroborated(entries'[d][dh].nodes, h.class)
      BY DEF CorroboratedByClass, Corroborated
    <3>1. entries'[d][dh] = entries[d][dh] BY <2>2, <2>3
    <3>2. Heard(d, dh)' = Heard(d, dh) BY <1>3 DEF MarkFailed, Heard
    <3> QED BY <3>1, <3>2 DEF CorroboratedByClass
  <2> QED BY <1>0, <2>4, <2>5
<1>4. CASE UNCHANGED ledgerVars
  <2>1. NodesCouldReport' BY <1>4 DEF NodesCouldReport, ledgerVars
  <2>2. CorroboratedByClass' BY <1>4 DEF CorroboratedByClass, ledgerVars, Heard
  <2> QED BY <1>0, <2>1, <2>2
<1> QED BY <1>1, <1>2, <1>3, <1>4 DEF LedgerNext

\* It holds of an empty ledger.
LEMMA SafetyInit == LedgerInit => SafetyInv
BY TypeInit DEF LedgerInit, SafetyInv, NodesCouldReport, CorroboratedByClass, NoEntry, ToSet

\* Byzantine reporters alone never corroborate a value, as long as every report of it names
\* a class whose threshold is above their number (quorum.py 405-409).
THEOREM CorroborationIsSoftSafe == LedgerSpec => []SoftSafety
BY SafetyInit, SafetyStep, SafetyInvImplies, PTL DEF LedgerSpec

----------------------------------------------------------------------------
(* Collectors agree: what a collector heard of a value determines its      *)
(* annotation, as long as one class is named and it is not marked failed.  *)

OneClass(c, ch) == \A g, h \in Heard(c, ch) : g.class = h.class

\* The part of it that holds of a value reported under several classes, too.
EntryIsHeard(c, ch) ==
  /\ ToSet(entries[c][ch].nodes) = {h.node : h \in Heard(c, ch)}
  /\ IsInjective(entries[c][ch].nodes)
  /\ entries[c][ch] = NoEntry <=> Heard(c, ch) = {}
  /\ entries[c][ch] # NoEntry =>
       \E h \in Heard(c, ch) : entries[c][ch].class = h.class /\ entries[c][ch].k = KFor(h.class)

StatusIsHeard(c, ch) ==
  entries[c][ch].status # "FAILED" /\ OneClass(c, ch) =>
    \A h \in Heard(c, ch) :
      /\ Corroborated(entries[c][ch].nodes, h.class) => entries[c][ch].status = "CORROBORATED"
      /\ ~ Corroborated(entries[c][ch].nodes, h.class) => entries[c][ch].status = "PENDING"

AgreeInv ==
  /\ LedgerTypeOK
  /\ \A c \in Collector, ch \in Change : EntryIsHeard(c, ch) /\ StatusIsHeard(c, ch)

\* The strengthened invariant gives agreement.
LEMMA AgreeInvImplies == AgreeInv => CollectorsAgree
<1> SUFFICES ASSUME AgreeInv, NEW c \in Collector, NEW d \in Collector, NEW ch \in Change,
                    Heard(c, ch) = Heard(d, ch), OneClass(c, ch),
                    entries[c][ch].status # "FAILED", entries[d][ch].status # "FAILED"
             PROVE  /\ SameAnnotation(entries[c][ch], entries[d][ch])
                    /\ IsInjective(entries[c][ch].nodes)
  BY DEF CollectorsAgree, OneClass
<1>1. /\ EntryIsHeard(c, ch) /\ StatusIsHeard(c, ch)
      /\ EntryIsHeard(d, ch) /\ StatusIsHeard(d, ch)
  BY DEF AgreeInv
<1>2. CASE Heard(c, ch) = {}
  BY <1>1, <1>2 DEF EntryIsHeard, SameAnnotation
<1>3. CASE Heard(c, ch) # {}
  <2>1. ToSet(entries[c][ch].nodes) = ToSet(entries[d][ch].nodes)
    BY <1>1 DEF EntryIsHeard
  <2>2. PICK h \in Heard(c, ch) :
          entries[c][ch].class = h.class /\ entries[c][ch].k = KFor(h.class)
    BY <1>1, <1>3 DEF EntryIsHeard
  <2>3. PICK g \in Heard(d, ch) :
          entries[d][ch].class = g.class /\ entries[d][ch].k = KFor(g.class)
    BY <1>1, <1>3 DEF EntryIsHeard
  <2>4. g.class = h.class
    BY <2>2, <2>3 DEF OneClass
  <2>5. OneClass(d, ch)
    BY DEF OneClass
  <2>6. entries[c][ch].status = entries[d][ch].status
    <3>1. Corroborated(entries[c][ch].nodes, h.class)
            <=> Corroborated(entries[d][ch].nodes, h.class)
      BY <2>1 DEF Corroborated
    <3>2. CASE Corroborated(entries[c][ch].nodes, h.class)
      BY <3>1, <3>2, <1>1, <2>5 DEF StatusIsHeard
    <3>3. CASE ~ Corroborated(entries[c][ch].nodes, h.class)
      BY <3>1, <3>3, <1>1, <2>5 DEF StatusIsHeard
    <3> QED BY <3>2, <3>3
  <2>7. entries[c][ch].k = entries[d][ch].k /\ entries[c][ch].class = entries[d][ch].class
    BY <2>2, <2>3, <2>4
  <2> QED BY <1>1, <2>1, <2>6, <2>7 DEF SameAnnotation, EntryIsHeard
<1> QED BY <1>2, <1>3

\* An annotation and reports that a step leaves alone stay as they are.
LEMMA AgreeUntouched ==
  ASSUME NEW d \in Collector, NEW dh \in Change, EntryIsHeard(d, dh), StatusIsHeard(d, dh),
         entries'[d][dh] = entries[d][dh], Heard(d, dh)' = Heard(d, dh)
  PROVE  EntryIsHeard(d, dh)' /\ StatusIsHeard(d, dh)'
<1>1. EntryIsHeard(d, dh)' BY DEF EntryIsHeard
<1>2. OneClass(d, dh)' <=> OneClass(d, dh) BY DEF OneClass
<1>3. StatusIsHeard(d, dh)' BY <1>2 DEF StatusIsHeard, Corroborated
<1> QED BY <1>1, <1>3

\* Every step keeps the strengthened invariant.
LEMMA AgreeStep == AgreeInv /\ [LedgerNext]_ledgerVars => AgreeInv'
<1> SUFFICES ASSUME AgreeInv, [LedgerNext]_ledgerVars PROVE AgreeInv'
  OBVIOUS
<1>0. LedgerTypeOK /\ LedgerTypeOK' BY TypeStep DEF AgreeInv
<1> SUFFICES ASSUME NEW d \in Collector, NEW dh \in Change
             PROVE  EntryIsHeard(d, dh)' /\ StatusIsHeard(d, dh)'
  BY <1>0 DEF AgreeInv
<1>u. EntryIsHeard(d, dh) /\ StatusIsHeard(d, dh) BY DEF AgreeInv
<1>1. ASSUME NEW r \in Reporter, NEW ch \in Change, Sight(r, ch)
      PROVE  EntryIsHeard(d, dh)' /\ StatusIsHeard(d, dh)'
  <2>1. entries'[d][dh] = entries[d][dh] /\ Heard(d, dh)' = Heard(d, dh)
    BY <1>1 DEF Sight, Heard
  <2> QED BY <1>u, <2>1, AgreeUntouched
<1>2. ASSUME NEW c \in Collector, NEW r \in Reporter, NEW ch \in Change, NEW class \in Class,
             NEW window \in Window, Observe(c, r, ch, class, window)
      PROVE  EntryIsHeard(d, dh)' /\ StatusIsHeard(d, dh)'
  <2> DEFINE e == entries[d][dh]
             old == Opened(e, class, window)
             new == Noted(old, r, class)
             made == [node |-> r, change |-> ch, class |-> class]
  <2>1. CASE ~ (d = c /\ dh = ch)
    <3>1. entries'[d][dh] = entries[d][dh]
      BY <1>0, <1>2, <2>1 DEF LedgerTypeOK, Observe
    <3>2. Heard(d, dh)' = Heard(d, dh) BY <1>0, <1>2, <2>1, HeardAfter
    <3> QED BY <1>u, <3>1, <3>2, AgreeUntouched
  <2>2. CASE d = c /\ dh = ch
    <3>1. entries'[d][dh] = new
      BY <1>0, <1>2, <2>2 DEF LedgerTypeOK, Observe
    <3>2. Heard(d, dh)' = Heard(d, dh) \cup {made}
      BY <1>0, <1>2, <2>2, HeardAfter
    <3>3. /\ e \in Entry \cup {NoEntry} /\ e.nodes \in Seq(Reporter)
          /\ IsFiniteSet(ToSet(e.nodes))
      BY <1>0, NodesAreReporters
    <3>4. made.node = r /\ made.class = class OBVIOUS
    <3>5. /\ old \in Entry /\ old.nodes = e.nodes /\ old.status = e.status
          /\ e = NoEntry => old.class = class /\ old.k = KFor(class)
          /\ e # NoEntry => old = e
      BY <3>3, OpenedEntry
    <3> HIDE DEF old, made
    <3>6. /\ new \in Entry /\ new.nodes = Entered(old.nodes, r)
          /\ new.k = old.k /\ new.class = old.class
          /\ old.status # "FAILED" /\ Corroborated(Entered(old.nodes, r), class)
               => new.status = "CORROBORATED"
          /\ ~ (old.status # "FAILED" /\ Corroborated(Entered(old.nodes, r), class))
               => new.status = old.status
      BY <3>5, NotedEntry
    <3> HIDE DEF new
    <3>7. EntryIsHeard(d, dh)'
      <4>1. new # NoEntry BY <3>6, NoEntryIsNone
      <4>2. /\ ToSet(new.nodes) = {h.node : h \in Heard(d, dh) \cup {made}}
            /\ IsInjective(new.nodes)
        <5>1. /\ ToSet(new.nodes) = ToSet(e.nodes) \cup {r}
              /\ IsInjective(e.nodes) => IsInjective(new.nodes)
          BY <3>3, <3>5, <3>6, EnteredIs
        <5> QED BY <1>u, <3>4, <5>1 DEF EntryIsHeard
      <4>3. \E h \in Heard(d, dh) \cup {made} : new.class = h.class /\ new.k = KFor(h.class)
        <5>1. CASE e = NoEntry BY <5>1, <3>4, <3>5, <3>6
        <5>2. CASE e # NoEntry BY <5>2, <1>u, <3>5, <3>6 DEF EntryIsHeard
        <5> QED BY <5>1, <5>2
      <4> QED BY <3>1, <3>2, <4>1, <4>2, <4>3 DEF EntryIsHeard
    <3>8. StatusIsHeard(d, dh)'
      <4> SUFFICES ASSUME new.status # "FAILED", OneClass(d, dh)', NEW h \in Heard(d, dh)'
                   PROVE  /\ Corroborated(new.nodes, h.class) => new.status = "CORROBORATED"
                          /\ ~ Corroborated(new.nodes, h.class) => new.status = "PENDING"
        BY <3>1 DEF StatusIsHeard, Corroborated
      <4>1. \A g \in Heard(d, dh)' : g.class = class
        BY <3>2, <3>4 DEF OneClass
      <4>2. h.class = class BY <4>1
      <4>3. old.status # "FAILED" BY <3>6
      <4>4. CASE Corroborated(Entered(old.nodes, r), class)
        BY <4>2, <4>3, <4>4, <3>6
      <4>5. CASE ~ Corroborated(Entered(old.nodes, r), class)
        <5>1. ~ Corroborated(e.nodes, class)
          BY <4>5, <3>3, <3>5, MoreNodesCorroborate
        <5>2. e.status = "PENDING"
          <6>1. CASE e = NoEntry BY <6>1 DEF NoEntry
          <6>2. CASE e # NoEntry
            <7>1. PICK g \in Heard(d, dh) : TRUE BY <6>2, <1>u DEF EntryIsHeard
            <7>2. \A f \in Heard(d, dh) : f.class = class BY <3>2, <4>1
            <7>3. OneClass(d, dh) BY <7>2 DEF OneClass
            <7>4. g.class = class BY <7>2
            <7> QED BY <1>u, <3>5, <4>3, <5>1, <7>1, <7>3, <7>4 DEF StatusIsHeard
          <6> QED BY <6>1, <6>2
        <5> QED BY <4>2, <4>5, <5>2, <3>5, <3>6
      <4> QED BY <4>4, <4>5
    <3> QED BY <3>7, <3>8
  <2> QED BY <2>1, <2>2
<1>3. ASSUME NEW c \in Collector, NEW ch \in Change, MarkFailed(c, ch)
      PROVE  EntryIsHeard(d, dh)' /\ StatusIsHeard(d, dh)'
  <2>1. Heard(d, dh)' = Heard(d, dh) BY <1>3 DEF MarkFailed, Heard
  <2>2. entries'[d][dh] = IF d = c /\ dh = ch THEN Failed(entries[d][dh]) ELSE entries[d][dh]
    BY <1>0, <1>3 DEF LedgerTypeOK, MarkFailed
  <2>3. CASE ~ (d = c /\ dh = ch) \/ entries[d][dh] = NoEntry
    <3>1. entries'[d][dh] = entries[d][dh] BY <2>2, <2>3 DEF Failed
    <3> QED BY <1>u, <2>1, <3>1, AgreeUntouched
  <2>4. CASE d = c /\ dh = ch /\ entries[d][dh] # NoEntry
    <3>1. /\ entries'[d][dh] # NoEntry
          /\ entries'[d][dh].status = "FAILED"
          /\ entries'[d][dh].nodes = entries[d][dh].nodes
          /\ entries'[d][dh].k = entries[d][dh].k
          /\ entries'[d][dh].class = entries[d][dh].class
      <4>1. entries'[d][dh] = Failed(entries[d][dh]) BY <2>2, <2>4
      <4>2. entries[d][dh] \in Entry \cup {NoEntry} BY <1>0, NodesAreReporters
      <4> QED BY <4>1, <4>2, <2>4, FailedEntryIs
    <3>2. EntryIsHeard(d, dh)' BY <1>u, <2>1, <2>4, <3>1 DEF EntryIsHeard
    <3>3. StatusIsHeard(d, dh)' BY <3>1 DEF StatusIsHeard
    <3> QED BY <3>2, <3>3
  <2> QED BY <2>3, <2>4
<1>4. CASE UNCHANGED ledgerVars
  <2>1. entries'[d][dh] = entries[d][dh] /\ Heard(d, dh)' = Heard(d, dh)
    BY <1>4 DEF ledgerVars, Heard
  <2> QED BY <1>u, <2>1, AgreeUntouched
<1> QED BY <1>1, <1>2, <1>3, <1>4 DEF LedgerNext

\* It holds of an empty ledger.
LEMMA AgreeInit == LedgerInit => AgreeInv
<1> SUFFICES ASSUME LedgerInit PROVE AgreeInv
  OBVIOUS
<1>1. \A c \in Collector, ch \in Change : entries[c][ch] = NoEntry /\ Heard(c, ch) = {}
  BY DEF LedgerInit, Heard
<1>2. ToSet(NoEntry.nodes) = {} /\ IsInjective(NoEntry.nodes)
  BY DEF NoEntry, ToSet, IsInjective
<1> QED BY <1>1, <1>2, TypeInit DEF AgreeInv, EntryIsHeard, StatusIsHeard

\* Collectors that heard the same reports of a value, of one class, agree on its status and
\* on the set of its nodes, each of them listed once, in whatever order and number the
\* reports came (set-union semantics, quorum.py 471-475).
THEOREM CollectorsAlwaysAgree == LedgerSpec => []CollectorsAgree
BY AgreeInit, AgreeStep, AgreeInvImplies, PTL DEF LedgerSpec

----------------------------------------------------------------------------
(* The snapshots of a request, sorted by site.                             *)

OneOfEachSite(snapshots) ==
  \A i, j \in DOMAIN snapshots : i # j => snapshots[i].site # snapshots[j].site

\* t has the snapshots of s, each at the place that the permutation g names.
Rearranges(t, s, g) ==
  /\ g \in [DOMAIN s -> DOMAIN s] /\ DOMAIN t = DOMAIN s
  /\ \A i \in DOMAIN s : \E j \in DOMAIN s : g[j] = i
  /\ \A i \in DOMAIN s : t[i] = s[g[i]]

RisesBySite(s) == \A i, j \in DOMAIN s : i < j => s[i].site < s[j].site

\* A snapshot's site, clock and registers.
LEMMA SnapshotIs ==
  ASSUME NEW t \in SiteSnapshot
  PROVE  /\ t.site \in Site /\ t.site \in Nat
         /\ t.clock \in Clock
         /\ \A s \in Site : Counter(t.clock, s) \in Nat
         /\ DOMAIN t.clock \subseteq Site
<1>1. t.site \in Site /\ t.clock \in Clock
  BY DEF SiteSnapshot
<1>2. t.clock \in [DOMAIN t.clock -> Nat] /\ DOMAIN t.clock \subseteq Site
  BY <1>1, ClockAssumption
<1>3. \A s \in Site : Counter(t.clock, s) \in Nat
  BY <1>2 DEF Counter
<1> QED
  BY <1>1, <1>2, <1>3, SiteAssumption

\* Sorting rearranges them, so that the sites rise.
LEMMA BySiteSorts ==
  ASSUME NEW s \in Seq(SiteSnapshot), OneOfEachSite(s)
  PROVE  /\ BySite(s) \in Seq(SiteSnapshot) /\ Len(BySite(s)) = Len(s)
         /\ RisesBySite(BySite(s))
         /\ \E g : Rearranges(BySite(s), s, g)
<1> DEFINE D == DOMAIN s
           Ahead(i, j) == \/ s[i].site < s[j].site
                          \/ s[i].site = s[j].site /\ i < j
           R == {p \in D \X D : Ahead(p[1], p[2])}
           Sorted(t) == \A i, j \in DOMAIN t : i < j => Ahead(t[i], t[j])
           order == CHOOSE order \in SetToSeqs(D) : Sorted(order)
<1>1. D = 1 .. Len(s) /\ Len(s) \in Nat /\ \A i \in D : s[i] \in SiteSnapshot
  OBVIOUS
<1>2. IsFiniteSet(D) /\ Cardinality(D) = Len(s)
  BY <1>1, FS_Interval
<1>3. \A i \in D : s[i].site \in Nat
  BY <1>1, SnapshotIs
<1>4. \A i, j \in D : <<i, j>> \in R <=> Ahead(i, j)
  OBVIOUS
<1> HIDE DEF R, D
<1>5. Orders(R, D)
  <2>1. \A i \in D : i \in Int
    BY <1>1
  <2>2. \A i \in D : ~ Ahead(i, i)
    BY <1>3, <2>1
  <2>3. \A i, j \in D : i # j => Ahead(i, j) \/ Ahead(j, i)
    BY <1>3, <2>1
  <2>4. \A i, j, k \in D : Ahead(i, j) /\ Ahead(j, k) => Ahead(i, k)
    BY <1>3, <2>1
  <2> HIDE DEF Ahead
  <2> QED BY <1>4, <2>2, <2>3, <2>4 DEF Orders
<1>6. PICK t \in SetToSeqs(D) : InOrder(t, R)
  BY <1>2, <1>5, SortedExists
<1>7. t \in [DOMAIN t -> D]
  BY <1>1, <1>2, <1>6 DEF SetToSeqs
<1>8. Sorted(t)
  <2> HIDE DEF Ahead
  <2> QED BY <1>4, <1>6, <1>7 DEF InOrder
<1>9. order \in SetToSeqs(D) /\ Sorted(order)
  <2> HIDE DEF Sorted
  <2> QED BY <1>6, <1>8
<1>10. BySite(s) = [i \in D |-> s[order[i]]]
  BY DEF BySite, D
<1> HIDE DEF order
<1>11. /\ order \in [D -> D] /\ \A i \in D : \E j \in D : order[j] = i
       /\ \A i, j \in D : i # j => order[i] # order[j]
  <2>1. 1 .. Cardinality(D) = D
    BY <1>1, <1>2
  <2>2. /\ order \in [1 .. Cardinality(D) -> D] /\ DOMAIN order = 1 .. Cardinality(D)
        /\ \A i, j \in DOMAIN order : i # j => order[i] # order[j]
        /\ \A x \in D : \E i \in DOMAIN order : order[i] = x
    BY <1>2, <1>9, SeqsAreOnto
  <2> QED BY <2>1, <2>2
<1>12. /\ BySite(s) \in [D -> SiteSnapshot] /\ DOMAIN BySite(s) = D
       /\ \A i \in D : BySite(s)[i] = s[order[i]]
  BY <1>1, <1>10, <1>11
<1>13. BySite(s) \in Seq(SiteSnapshot) /\ Len(BySite(s)) = Len(s)
  BY <1>1, <1>12
<1>14. Rearranges(BySite(s), s, order)
  BY <1>11, <1>12 DEF Rearranges, D
<1>15. ASSUME NEW i \in D, NEW j \in D, i < j
       PROVE  BySite(s)[i].site < BySite(s)[j].site
  <2>0. i # j
    BY <1>1, <1>15
  <2>1. order[i] \in D /\ order[j] \in D /\ order[i] # order[j]
    BY <1>11, <2>0
  <2>2. Ahead(order[i], order[j])
    BY <1>9, <1>11, <1>15
  <2>3. s[order[i]].site # s[order[j]].site
    BY <2>1 DEF OneOfEachSite, D
  <2> QED BY <1>12, <2>2, <2>3
<1> QED
  BY <1>12, <1>13, <1>14, <1>15 DEF RisesBySite

\* Two listings of the same snapshots are sorted alike.
LEMMA BySiteForgetsTheOrder ==
  ASSUME NEW s \in Seq(SiteSnapshot), OneOfEachSite(s), NEW p \in SetToSeqs(DOMAIN s)
  PROVE  BySite([i \in DOMAIN p |-> s[p[i]]]) = BySite(s)
<1> DEFINE n == Len(s)
           D == 1 .. n
           t == [i \in DOMAIN p |-> s[p[i]]]
           S == {s[i] : i \in D}
           R == {q \in S \X S : q[1].site < q[2].site}
<1>1. DOMAIN s = D /\ n \in Nat /\ \A i \in D : s[i] \in SiteSnapshot /\ s[i].site \in Nat
  <2>1. DOMAIN s = D /\ n \in Nat /\ \A i \in D : s[i] \in SiteSnapshot
    OBVIOUS
  <2> QED BY <2>1, SnapshotIs
<1> HIDE DEF n
<1>2. IsFiniteSet(D) /\ Cardinality(D) = n
  BY <1>1, FS_Interval
<1>3. /\ p \in [D -> D] /\ DOMAIN p = D /\ \A i \in D : \E j \in D : p[j] = i
      /\ \A i, j \in D : i # j => p[i] # p[j]
  <2>1. p \in SetToSeqs(D)
    BY <1>1
  <2>2. 1 .. Cardinality(D) = D
    BY <1>2
  <2> HIDE DEF D
  <2>3. /\ p \in [1 .. Cardinality(D) -> D] /\ DOMAIN p = 1 .. Cardinality(D)
        /\ \A i, j \in DOMAIN p : i # j => p[i] # p[j]
        /\ \A x \in D : \E i \in DOMAIN p : p[i] = x
    BY <1>2, <2>1, SeqsAreOnto
  <2>4. p \in [D -> D] /\ DOMAIN p = D
    BY <2>2, <2>3, Zenon
  <2> QED BY <2>3, <2>4
<1>4. t \in [D -> SiteSnapshot] /\ DOMAIN t = D /\ \A i \in D : t[i] = s[p[i]]
  BY <1>1, <1>3
<1> HIDE DEF t
<1>5. t \in Seq(SiteSnapshot) /\ Len(t) = n
  BY <1>1, <1>4
<1>6. OneOfEachSite(t)
  <2> HIDE DEF D
  <2> SUFFICES ASSUME NEW i \in D, NEW j \in D, i # j
               PROVE  t[i].site # t[j].site
    BY <1>4 DEF OneOfEachSite
  <2>1. p[i] \in D /\ p[j] \in D /\ p[i] # p[j]
    BY <1>3
  <2> QED BY <1>1, <1>4, <2>1 DEF OneOfEachSite
<1>7. \A x \in S, y \in S : <<x, y>> \in R <=> x.site < y.site
  OBVIOUS
<1>8. \A x \in S : x.site \in Nat
  BY <1>1
<1>9. \A x, y \in S : x # y => x.site # y.site
  BY <1>1 DEF OneOfEachSite
<1> HIDE DEF R
<1>10. Orders(R, S)
  <2> HIDE DEF S
  <2> QED BY <1>7, <1>8, <1>9 DEF Orders
<1>11. ASSUME NEW u \in Seq(SiteSnapshot), Len(u) = n, OneOfEachSite(u),
              \A i \in D : u[i] \in S, \A x \in S : \E i \in D : u[i] = x
       PROVE  /\ BySite(u) \in [D -> S] /\ InOrder(BySite(u), R)
              /\ \A x \in S : \E i \in D : BySite(u)[i] = x
  <2>1. /\ BySite(u) \in Seq(SiteSnapshot) /\ Len(BySite(u)) = n
        /\ RisesBySite(BySite(u))
    BY <1>11, BySiteSorts
  <2>2. PICK g : Rearranges(BySite(u), u, g)
    BY <1>11, BySiteSorts
  <2>3. DOMAIN u = D /\ DOMAIN BySite(u) = D /\ BySite(u) \in [D -> SiteSnapshot]
    BY <1>11, <2>1
  <2>4. \A i \in D : BySite(u)[i] \in S
    <3> HIDE DEF S
    <3> QED BY <1>11, <2>2, <2>3 DEF Rearranges
  <2>5. \A x \in S : \E i \in D : BySite(u)[i] = x
    <3> HIDE DEF S
    <3> SUFFICES ASSUME NEW x \in S PROVE \E i \in D : BySite(u)[i] = x
      OBVIOUS
    <3>1. PICK j \in D : u[j] = x
      BY <1>11
    <3>2. \E i \in D : g[i] = j /\ BySite(u)[i] = u[g[i]]
      BY <2>2, <2>3, <3>1 DEF Rearranges
    <3> QED BY <3>1, <3>2
  <2>6. InOrder(BySite(u), R)
    <3> HIDE DEF S
    <3> QED BY <1>7, <2>1, <2>3, <2>4 DEF RisesBySite, InOrder
  <2> HIDE DEF S
  <2> QED BY <2>3, <2>4, <2>5, <2>6
<1>12. (\A i \in D : s[i] \in S) /\ \A x \in S : \E i \in D : s[i] = x
  OBVIOUS
<1>13. (\A i \in D : t[i] \in S) /\ \A x \in S : \E i \in D : t[i] = x
  <2>1. \A i \in D : p[i] \in D /\ t[i] = s[p[i]]
    BY <1>3, <1>4
  <2>2. \A i \in D : \E j \in D : t[j] = s[i]
    BY <1>3, <1>4
  <2> HIDE DEF D
  <2> QED BY <2>1, <2>2
<1> DEFINE a == BySite(t)
           b == BySite(s)
<1>14. a \in [D -> S] /\ InOrder(a, R) /\ \A x \in S : \E i \in D : a[i] = x
  <2> HIDE DEF S
  <2> QED BY <1>5, <1>6, <1>11, <1>13
<1>15. b \in [D -> S] /\ InOrder(b, R) /\ \A x \in S : \E i \in D : b[i] = x
  <2> HIDE DEF S
  <2> QED BY <1>1, <1>11, <1>12 DEF n
<1> HIDE DEF S, a, b
<1>16. a = b
  <2>1. /\ \A i \in 1 .. n : \E j \in 1 .. n : b[j] = a[i]
        /\ \A i \in 1 .. n : \E j \in 1 .. n : a[j] = b[i]
    BY <1>14, <1>15
  <2> QED BY <1>1, <1>10, <1>14, <1>15, <2>1, SortedUnique
<1> QED
  BY <1>16 DEF a, b, t

----------------------------------------------------------------------------
(* The reply to a request.                                                 *)

\* A clock counts no site lower than another clock does.
Covers(c, d) == \A s \in Site : Counter(d, s) <= Counter(c, s)

\* What compare_clocks says of two clocks.
LEMMA RelationIs ==
  ASSUME NEW c \in Clock, NEW d \in Clock
  PROVE  /\ CompareClocks(c, d) \in {"equal", "after"} <=> Covers(c, d)
         /\ CompareClocks(c, d) \in {"equal", "before"} <=> Covers(d, c)
<1> DEFINE names == DOMAIN c \cup DOMAIN d
           le == \A s \in names : Counter(c, s) <= Counter(d, s)
           ge == \A s \in names : Counter(c, s) >= Counter(d, s)
<1>1. /\ DOMAIN c \subseteq Site /\ c \in [DOMAIN c -> Nat]
      /\ DOMAIN d \subseteq Site /\ d \in [DOMAIN d -> Nat]
  BY ClockAssumption
<1>2. \A s \in Site : Counter(c, s) \in Nat /\ Counter(d, s) \in Nat
  BY <1>1 DEF Counter
<1>3. \A s \in Site \ names : Counter(c, s) = 0 /\ Counter(d, s) = 0
  BY DEF Counter
<1>4. names \subseteq Site
  BY <1>1
<1> HIDE DEF names
<1>5. ge <=> Covers(c, d)
  BY <1>2, <1>3, <1>4 DEF Covers
<1>6. le <=> Covers(d, c)
  BY <1>2, <1>3, <1>4 DEF Covers
<1>7. CompareClocks(c, d) =
        CASE le /\ ge -> "equal" [] le /\ ~ ge -> "before"
          [] ge /\ ~ le -> "after" [] OTHER -> "concurrent"
  BY DEF CompareClocks, names
<1> HIDE DEF le, ge
<1> QED
  BY <1>5, <1>6, <1>7

\* The joined clock counts each site that a clock names as the highest of them does.
LEMMA JoinedIs ==
  ASSUME NEW s \in Seq(SiteSnapshot), s # <<>>
  PROVE  LET names == UNION {DOMAIN s[i].clock : i \in DOMAIN s}
         IN  /\ DOMAIN MergeClock(s) = names /\ names \subseteq Site
             /\ \A n \in names :
                  /\ \A i \in DOMAIN s : Counter(s[i].clock, n) <= MergeClock(s)[n]
                  /\ \E i \in DOMAIN s : Counter(s[i].clock, n) = MergeClock(s)[n]
<1> DEFINE D == DOMAIN s
           clocks == {s[i].clock : i \in D}
           names == UNION {DOMAIN c : c \in clocks}
           Counts(n) == {Counter(c, n) : c \in clocks}
<1>1. D = 1 .. Len(s) /\ Len(s) \in Nat /\ D # {} /\ \A i \in D : s[i] \in SiteSnapshot
  <2>1. Len(s) \in Nat /\ Len(s) # 0
    BY EmptySeq
  <2>2. D = 1 .. Len(s) /\ \A i \in D : s[i] \in SiteSnapshot
    OBVIOUS
  <2>3. 1 \in 1 .. Len(s)
    BY <2>1
  <2> QED BY <2>1, <2>2, <2>3
<1>2. names = UNION {DOMAIN s[i].clock : i \in DOMAIN s}
  OBVIOUS
<1>3. MergeClock(s) = [n \in names |-> Max(Counts(n))]
  BY DEF MergeClock
<1>4. IsFiniteSet(D)
  BY <1>1, FS_Interval
<1> HIDE DEF D
<1>5. names \subseteq Site
  BY <1>1, SnapshotIs
<1>6. ASSUME NEW n \in names
      PROVE  /\ \A i \in D : Counter(s[i].clock, n) <= MergeClock(s)[n]
             /\ \E i \in D : Counter(s[i].clock, n) = MergeClock(s)[n]
  <2> DEFINE f == [i \in D |-> Counter(s[i].clock, n)]
             S == Counts(n)
  <2>1. n \in Site
    BY <1>5
  <2>2. S = {f[i] : i \in D}
    OBVIOUS
  <2>3. \A i \in D : f[i] \in Nat
    BY <1>1, <2>1, SnapshotIs
  <2>4. MergeClock(s)[n] = Max(S)
    BY <1>3
  <2>5. \A i \in D : f[i] = Counter(s[i].clock, n)
    OBVIOUS
  <2>6. f \in [D -> S]
    BY <2>2
  <2> HIDE DEF f, S
  <2>7. f \in Surjection(D, S)
    BY <2>2, <2>6 DEF Surjection
  <2>8. IsFiniteSet(S)
    BY <1>4, <2>7, FS_Surjection
  <2>9. S \in SUBSET Nat /\ S # {}
    BY <1>1, <2>2, <2>3
  <2>10. Max(S) \in S /\ \A x \in S : x <= Max(S)
    BY <2>8, <2>9, MaxIs
  <2> QED BY <2>2, <2>4, <2>5, <2>10
<1> HIDE DEF names
<1>7. DOMAIN MergeClock(s) = names
  BY <1>3
<1> QED
  BY <1>2, <1>5, <1>6, <1>7 DEF D

\* For any snapshots in order, the relations agree with the joined clock.
LEMMA RelationsAgree ==
  ASSUME NEW s \in Seq(SiteSnapshot), s # <<>>, RisesBySite(s), NEW include,
         NEW r, r = MergeSorted(s, include), NEW k \in DOMAIN s
  PROVE  (\A n \in DOMAIN r.clock : Counter(s[k].clock, n) = r.clock[n]) <=>
         (\A p \in DOMAIN r.relations :
            /\ r.relations[p].left = s[k].site => r.relations[p].relation \in {"equal", "after"}
            /\ r.relations[p].right = s[k].site => r.relations[p].relation \in {"equal", "before"})
<1> DEFINE D == DOMAIN s
           pairs == {p \in D \X D : p[1] < p[2]}
           names == UNION {DOMAIN s[i].clock : i \in DOMAIN s}
           Joined == \A n \in DOMAIN r.clock : Counter(s[k].clock, n) = r.clock[n]
           Latest == \A p \in DOMAIN r.relations :
             /\ r.relations[p].left = s[k].site => r.relations[p].relation \in {"equal", "after"}
             /\ r.relations[p].right = s[k].site => r.relations[p].relation \in {"equal", "before"}
           CoversAll == \A i \in D : Covers(s[k].clock, s[i].clock)
<1>1. /\ r.clock = MergeClock(s)
      /\ r.relations = [p \in pairs |->
                          [left |-> s[p[1]].site, right |-> s[p[2]].site,
                           relation |-> CompareClocks(s[p[1]].clock, s[p[2]].clock)]]
  BY DEF MergeSorted
<1>2. /\ D \subseteq Int
      /\ \A i \in D : s[i] \in SiteSnapshot /\ s[i].site \in Nat /\ s[i].clock \in Clock
      /\ \A i \in D, n \in Site : Counter(s[i].clock, n) \in Nat
  <2>1. D \subseteq Int /\ \A i \in D : s[i] \in SiteSnapshot
    OBVIOUS
  <2> QED BY <2>1, SnapshotIs
<1>3. /\ DOMAIN MergeClock(s) = names /\ names \subseteq Site
      /\ \A n \in names :
           /\ \A i \in D : Counter(s[i].clock, n) <= MergeClock(s)[n]
           /\ \E i \in D : Counter(s[i].clock, n) = MergeClock(s)[n]
  BY JoinedIs
<1>4. \A n \in Site \ names : \A i \in D : Counter(s[i].clock, n) = 0
  BY DEF Counter
<1>5. \A p \in pairs : /\ r.relations[p].left = s[p[1]].site
                       /\ r.relations[p].right = s[p[2]].site
                       /\ r.relations[p].relation = CompareClocks(s[p[1]].clock, s[p[2]].clock)
  BY <1>1
<1>6. DOMAIN r.relations = pairs
  BY <1>1
<1>7. \A i, j \in D : i # j => s[i].site # s[j].site
  <2> SUFFICES ASSUME NEW i \in D, NEW j \in D, i # j PROVE s[i].site # s[j].site
    OBVIOUS
  <2>1. i < j \/ j < i
    BY <1>2
  <2> QED BY <1>2, <2>1 DEF RisesBySite
<1>8. \A i, j \in D : i < j => <<i, j>> \in pairs
  OBVIOUS
<1>9. \A p \in pairs : p[1] \in D /\ p[2] \in D /\ p[1] < p[2]
  OBVIOUS
<1>10. k \in D
  OBVIOUS
<1> HIDE DEF D, pairs, names
<1>11. Joined <=> CoversAll
  <2>1. ASSUME Joined, NEW i \in D, NEW n \in Site
        PROVE  Counter(s[i].clock, n) <= Counter(s[k].clock, n)
    <3>1. CASE n \in names
      BY <1>1, <1>3, <2>1, <3>1
    <3>2. CASE n \notin names
      BY <1>4, <1>10, <3>2
    <3> QED BY <3>1, <3>2
  <2>2. ASSUME CoversAll, NEW n \in names
        PROVE  Counter(s[k].clock, n) = MergeClock(s)[n]
    <3>1. PICK i \in D : Counter(s[i].clock, n) = MergeClock(s)[n]
      BY <1>3
    <3>2. MergeClock(s)[n] <= Counter(s[k].clock, n)
      BY <1>3, <2>2, <3>1 DEF Covers
    <3>3. Counter(s[k].clock, n) <= MergeClock(s)[n]
      BY <1>3, <1>10
    <3>4. MergeClock(s)[n] \in Nat /\ Counter(s[k].clock, n) \in Nat
      BY <1>2, <1>3, <1>10, <3>1
    <3> QED BY <3>2, <3>3, <3>4
  <2> QED BY <1>1, <1>3, <2>1, <2>2 DEF Covers
<1>12. Latest <=> CoversAll
  <2>1. ASSUME Latest, NEW i \in D
        PROVE  Covers(s[k].clock, s[i].clock)
    <3>1. CASE i = k
      BY <1>2, <3>1 DEF Covers
    <3>2. CASE k < i
      <4>1. CompareClocks(s[k].clock, s[i].clock) \in {"equal", "after"}
        <5>1. <<k, i>> \in pairs
          BY <1>8, <1>10, <3>2
        <5> QED BY <1>5, <1>6, <2>1, <5>1
      <4> QED BY <1>2, <1>10, <4>1, RelationIs
    <3>3. CASE i < k
      <4>1. CompareClocks(s[i].clock, s[k].clock) \in {"equal", "before"}
        <5>1. <<i, k>> \in pairs
          BY <1>8, <1>10, <3>3
        <5> QED BY <1>5, <1>6, <2>1, <5>1
      <4> QED BY <1>2, <1>10, <4>1, RelationIs
    <3> QED BY <1>2, <1>10, <3>1, <3>2, <3>3
  <2>2. ASSUME CoversAll, NEW p \in pairs
        PROVE  /\ s[p[1]].site = s[k].site =>
                    CompareClocks(s[p[1]].clock, s[p[2]].clock) \in {"equal", "after"}
               /\ s[p[2]].site = s[k].site =>
                    CompareClocks(s[p[1]].clock, s[p[2]].clock) \in {"equal", "before"}
    <3>1. p[1] \in D /\ p[2] \in D
      BY <1>9
    <3>2. p[1] = k => CompareClocks(s[p[1]].clock, s[p[2]].clock) \in {"equal", "after"}
      <4>1. s[p[1]].clock \in Clock /\ s[p[2]].clock \in Clock
        BY <1>2, <3>1
      <4>2. p[1] = k => Covers(s[p[1]].clock, s[p[2]].clock)
        BY <2>2, <3>1
      <4> QED BY <4>1, <4>2, RelationIs
    <3>3. p[2] = k => CompareClocks(s[p[1]].clock, s[p[2]].clock) \in {"equal", "before"}
      <4>1. s[p[1]].clock \in Clock /\ s[p[2]].clock \in Clock
        BY <1>2, <3>1
      <4>2. p[2] = k => Covers(s[p[2]].clock, s[p[1]].clock)
        BY <2>2, <3>1
      <4> QED BY <4>1, <4>2, RelationIs
    <3> QED BY <1>7, <1>10, <3>1, <3>2, <3>3
  <2> HIDE DEF CoversAll
  <2> QED BY <1>5, <1>6, <2>1, <2>2 DEF CoversAll
<1> QED
  BY <1>11, <1>12

\* What holds of every request: its snapshots are of different sites, and its reply is
\* their merge.
MergeInv ==
  /\ MergeTypeOK
  /\ OneOfEachSite(request)
  /\ reply # NoReply => request # <<>> /\ reply = MergeSnapshots(request, tombstones)

\* The reply to a request that is not empty, from the snapshots in order.
LEMMA ReplyIs ==
  ASSUME MergeTypeOK, OneOfEachSite(request), request # <<>>
  PROVE  /\ MergeSnapshots(request, tombstones) = MergeSorted(BySite(request), tombstones)
         /\ BySite(request) \in Seq(SiteSnapshot) /\ BySite(request) # <<>>
         /\ RisesBySite(BySite(request))
         /\ \A i \in DOMAIN request : \E k \in DOMAIN BySite(request) :
              BySite(request)[k] = request[i]
<1>1. request \in Seq(SiteSnapshot)
  BY DEF MergeTypeOK
<1>2. /\ BySite(request) \in Seq(SiteSnapshot) /\ Len(BySite(request)) = Len(request)
      /\ RisesBySite(BySite(request))
  BY <1>1, BySiteSorts
<1>3. PICK g : Rearranges(BySite(request), request, g)
  BY <1>1, BySiteSorts
<1>4. BySite(request) # <<>>
  BY <1>1, <1>2, EmptySeq
<1>5. \A i \in DOMAIN request : \E k \in DOMAIN BySite(request) : BySite(request)[k] = request[i]
  BY <1>3 DEF Rearranges
<1> QED
  BY <1>2, <1>4, <1>5 DEF MergeSnapshots

LEMMA MergeInvInit == MergeInit => MergeInv
<1> SUFFICES ASSUME MergeInit PROVE MergeInv
  OBVIOUS
<1>1. request = <<>> /\ tombstones \in BOOLEAN /\ reply = NoReply
  BY DEF MergeInit
<1>2. request \in Seq(SiteSnapshot)
  BY <1>1, EmptySeq
<1>3. reply.sites \in Seq(Site)
  BY <1>1, EmptySeq DEF NoReply
<1>4. OneOfEachSite(request)
  BY <1>1 DEF OneOfEachSite
<1> QED
  BY <1>1, <1>2, <1>3, <1>4 DEF MergeInv, MergeTypeOK

LEMMA MergeInvStep == MergeInv /\ [MergeNext]_mergeVars => MergeInv'
<1> SUFFICES ASSUME MergeInv, [MergeNext]_mergeVars PROVE MergeInv'
  OBVIOUS
<1>0. request \in Seq(SiteSnapshot) /\ tombstones \in BOOLEAN /\ reply.sites \in Seq(Site)
  BY DEF MergeInv, MergeTypeOK
<1>1. ASSUME NEW snapshot \in SiteSnapshot, Submit(snapshot)
      PROVE  MergeInv'
  <2>1. /\ request' = Append(request, snapshot)
        /\ tombstones' = tombstones /\ reply' = reply /\ reply = NoReply
        /\ \A i \in DOMAIN request : request[i].site # snapshot.site
    BY <1>1 DEF Submit
  <2>2. MergeTypeOK'
    BY <1>0, <2>1 DEF MergeTypeOK
  <2>3. /\ DOMAIN request' = 1 .. Len(request) + 1 /\ DOMAIN request = 1 .. Len(request)
        /\ Len(request) \in Nat
        /\ request'[Len(request) + 1] = snapshot
        /\ \A i \in 1 .. Len(request) : request'[i] = request[i]
    BY <1>0, <2>1
  <2>4. OneOfEachSite(request')
    <3> SUFFICES ASSUME NEW i \in DOMAIN request', NEW j \in DOMAIN request', i # j
                 PROVE  request'[i].site # request'[j].site
      BY DEF OneOfEachSite
    <3>1. \A l \in DOMAIN request' : l \in DOMAIN request \/ l = Len(request) + 1
      BY <2>3
    <3>2. OneOfEachSite(request)
      BY DEF MergeInv
    <3> QED BY <2>1, <2>3, <3>1, <3>2 DEF OneOfEachSite
  <2> QED
    BY <2>1, <2>2, <2>4 DEF MergeInv, OneOfEachSite
<1>2. CASE Answer
  <2>1. /\ request # <<>> /\ request' = request /\ tombstones' = tombstones
        /\ reply' = MergeSnapshots(request, tombstones)
    BY <1>2 DEF Answer
  <2> DEFINE s == BySite(request)
  <2>2. /\ reply' = MergeSorted(s, tombstones) /\ s \in Seq(SiteSnapshot)
    BY <2>1, ReplyIs DEF MergeInv
  <2> HIDE DEF s
  <2>3. reply'.sites = [i \in DOMAIN s |-> s[i].site]
    BY <2>2 DEF MergeSorted
  <2>4. [i \in DOMAIN s |-> s[i].site] \in Seq(Site)
    <3>1. \A i \in DOMAIN s : s[i] \in SiteSnapshot
      BY <2>2
    <3>2. \A i \in DOMAIN s : s[i].site \in Site
      BY <3>1, SnapshotIs
    <3>3. DOMAIN s = 1 .. Len(s) /\ Len(s) \in Nat
      BY <2>2
    <3> QED BY <3>2, <3>3
  <2>5. MergeTypeOK'
    BY <1>0, <2>1, <2>3, <2>4 DEF MergeTypeOK
  <2>6. OneOfEachSite(request')
    BY <2>1 DEF MergeInv
  <2> QED
    BY <2>1, <2>5, <2>6 DEF MergeInv, OneOfEachSite
<1>3. CASE UNCHANGED mergeVars
  BY <1>3 DEF mergeVars, MergeInv, MergeTypeOK, OneOfEachSite
<1> QED
  BY <1>1, <1>2, <1>3 DEF MergeNext

\* The invariant gives both properties of the reply.
LEMMA MergeInvImplies == MergeInv => MergeTypeOK /\ ArrivalIndependent /\ RelationsAgreeWithClock
<1> SUFFICES ASSUME MergeInv PROVE ArrivalIndependent /\ RelationsAgreeWithClock
  BY DEF MergeInv
<1>1. request \in Seq(SiteSnapshot) /\ OneOfEachSite(request) /\ MergeTypeOK
  BY DEF MergeInv, MergeTypeOK
<1>2. ArrivalIndependent
  <2> SUFFICES ASSUME reply # NoReply, NEW order \in SetToSeqs(DOMAIN request)
               PROVE  MergeSnapshots([i \in DOMAIN order |-> request[order[i]]], tombstones)
                        = reply
    BY DEF ArrivalIndependent
  <2>1. BySite([i \in DOMAIN order |-> request[order[i]]]) = BySite(request)
    BY <1>1, BySiteForgetsTheOrder
  <2> QED
    BY <2>1 DEF MergeInv, MergeSnapshots
<1>3. RelationsAgreeWithClock
  <2> SUFFICES ASSUME reply # NoReply, NEW i \in DOMAIN request
               PROVE  (\A n \in DOMAIN reply.clock :
                         Counter(request[i].clock, n) = reply.clock[n]) <=>
                      (\A p \in DOMAIN reply.relations :
                         /\ reply.relations[p].left = request[i].site =>
                              reply.relations[p].relation \in {"equal", "after"}
                         /\ reply.relations[p].right = request[i].site =>
                              reply.relations[p].relation \in {"equal", "before"})
    BY DEF RelationsAgreeWithClock
  <2> DEFINE s == BySite(request)
  <2>1. request # <<>> /\ reply = MergeSnapshots(request, tombstones)
    BY DEF MergeInv
  <2>2. /\ reply = MergeSorted(s, tombstones)
        /\ s \in Seq(SiteSnapshot) /\ s # <<>> /\ RisesBySite(s)
        /\ \E k \in DOMAIN s : s[k] = request[i]
    BY <1>1, <2>1, ReplyIs
  <2> HIDE DEF s
  <2>3. PICK k \in DOMAIN s : s[k] = request[i]
    BY <2>2
  <2> QED
    BY <2>2, <2>3, RelationsAgree
<1> QED
  BY <1>2, <1>3

----------------------------------------------------------------------------
(* Logs.                                                                   *)

Logged == [op : LabOp, track : Track] \cup Row

\* The run of MergeLogs through the log that it merges.
IsMergeRun(f, log, other) ==
  /\ f \in [0 .. Len(other) -> Seq(Logged)]
  /\ f[0] = log
  /\ \A k \in 1 .. Len(other) : f[k] = AddLogged(f[k - 1], other[k])

LEMMA LoggedStays ==
  ASSUME NEW log \in Seq(Logged), NEW e \in Logged
  PROVE  AddLogged(log, e) \in Seq(Logged)
BY DEF AddLogged

IsMergeFold(w, log, other) ==
  w = [S \in SUBSET (DOMAIN other) |->
         IF S = {} THEN log ELSE AddLogged(w[S \ {Max(S)}], other[Max(S)])]

LEMMA MergeLogsIsFold ==
  \A log, other : MergeLogs(log, other) = (CHOOSE w : IsMergeFold(w, log, other))[DOMAIN other]
BY DEF MergeLogs, FoldLeft, MapThenFoldSet, IsMergeFold

LEMMA MergeRuns ==
  ASSUME NEW log \in Seq(Logged), NEW other \in Seq(Logged)
  PROVE  \E f : IsMergeRun(f, log, other) /\ MergeLogs(log, other) = f[Len(other)]
<1> DEFINE n == Len(other)
           V == Seq(Logged)
           step == [k \in 1 .. n |-> [l \in V |-> AddLogged(l, other[k])]]
           w == CHOOSE w : IsMergeFold(w, log, other)
<1>1. n \in Nat /\ DOMAIN other = 1 .. n /\ \A k \in 1 .. n : other[k] \in Logged
  OBVIOUS
<1>2. step \in [1 .. n -> [V -> V]] /\ \A k \in 1 .. n, l \in V : step[k][l] = AddLogged(l, other[k])
  BY <1>1, LoggedStays
<1> HIDE DEF n, V, step
<1>3. log \in V
  BY DEF V
<1>f. FoldStart(n, V, log, step)
  BY <1>1, <1>2, <1>3 DEF FoldStart
<1>4. PICK g \in [SUBSET (1 .. n) -> V] : SolvesFold(g, n, V, log, step)
  BY <1>f, FoldHasSolution
<1>5. IsMergeFold(g, log, other)
  <2>1. ASSUME NEW S \in SUBSET (1 .. n), S # {}
        PROVE  g[S] = AddLogged(g[S \ {Max(S)}], other[Max(S)])
    <3>1. Max(S) \in 1 .. n /\ S \ {Max(S)} \in SUBSET (1 .. n)
      BY <1>1, <2>1, FoldPicks
    <3> QED BY <1>2, <1>4, <2>1, <3>1 DEF SolvesFold
  <2>2. g[{}] = log
    BY <1>4 DEF SolvesFold
  <2> QED BY <1>1, <2>1, <2>2 DEF IsMergeFold
<1>6. IsMergeFold(w, log, other)
  BY <1>5
<1> HIDE DEF w
<1>7. \A S \in SUBSET (1 .. n) :
        w[S] = IF S = {} THEN log ELSE AddLogged(w[S \ {Max(S)}], other[Max(S)])
  BY <1>1, <1>6 DEF IsMergeFold
<1>8. SolvesFold(w, n, V, log, step)
  <2>1. ASSUME NEW S \in SUBSET (1 .. n), S # {}, w[S \ {Max(S)}] \in V
        PROVE  w[S] = step[Max(S)][w[S \ {Max(S)}]]
    <3>1. Max(S) \in 1 .. n
      BY <1>1, <2>1, FoldPicks
    <3> QED BY <1>2, <1>7, <2>1, <3>1
  <2> QED BY <1>7, <2>1 DEF SolvesFold
<1>10. PICK f : IsRunOf(f, n, V, log, step) /\ f[n] = w[1 .. n]
  BY <1>f, <1>8, FoldRuns
<1>11. IsMergeRun(f, log, other)
  <2>1. \A k \in 1 .. n : f[k - 1] \in V
    <3>1. \A k \in 1 .. n : k - 1 \in 0 .. n
      BY <1>1
    <3> QED BY <1>10, <3>1 DEF IsRunOf
  <2> QED BY <1>2, <1>10, <2>1 DEF IsRunOf, IsMergeRun, n, V
<1> QED
  BY <1>1, <1>10, <1>11, MergeLogsIsFold DEF w, n

\* A log holds the ops of T, each once, on the track that tr has for it.
Carries(seq, T, tr) ==
  /\ seq \in Seq(Logged)
  /\ T = {seq[i].op : i \in DOMAIN seq}
  /\ \A i \in DOMAIN seq : seq[i].track = tr[seq[i].op]

Holds(log, T, tr) ==
  /\ Carries(log, T, tr)
  /\ \A i, j \in DOMAIN log : i # j => log[i].op # log[j].op

LEMMA EmptyHolds == \A tr : Holds(<<>>, {}, tr)
BY DEF Holds, Carries

LEMMA AddHolds ==
  ASSUME NEW T, NEW tr, NEW log, Holds(log, T, tr), NEW e \in Logged, e.track = tr[e.op]
  PROVE  Holds(AddLogged(log, e), T \cup {e.op}, tr)
<1>1. log \in Seq(Logged) /\ T = {log[i].op : i \in DOMAIN log}
  BY DEF Holds, Carries
<1>2. CASE e.op \in T
  <2>1. AddLogged(log, e) = log
    BY <1>1, <1>2 DEF AddLogged
  <2>2. T \cup {e.op} = T
    BY <1>2
  <2> QED BY <2>1, <2>2
<1>3. CASE e.op \notin T
  <2> DEFINE new == AddLogged(log, e)
             n == Len(log)
  <2>1. new = Append(log, e)
    BY <1>1, <1>3 DEF AddLogged
  <2> HIDE DEF new
  <2>2. /\ n \in Nat /\ new \in Seq(Logged)
        /\ DOMAIN log = 1 .. n /\ DOMAIN new = 1 .. n + 1
        /\ new[n + 1] = e /\ \A i \in 1 .. n : new[i] = log[i]
    BY <1>1, <2>1
  <2> HIDE DEF n
  <2>3. 1 .. n + 1 = (1 .. n) \cup {n + 1}
    BY <2>2
  <2>4. T \cup {e.op} = {new[i].op : i \in DOMAIN new}
    BY <1>1, <2>2, <2>3
  <2>5. \A i \in DOMAIN new : new[i].track = tr[new[i].op]
    BY <2>2, <2>3 DEF Holds, Carries
  <2>6. \A i, j \in DOMAIN new : i # j => new[i].op # new[j].op
    <3>1. \A i \in 1 .. n : new[i].op \in T
      BY <1>1, <2>2
    <3>2. \A i, j \in 1 .. n : i # j => new[i].op # new[j].op
      BY <2>2 DEF Holds
    <3> QED BY <1>3, <2>2, <2>3, <3>1, <3>2
  <2> QED BY <2>2, <2>4, <2>5, <2>6 DEF Holds, Carries, new
<1> QED
  BY <1>2, <1>3

\* A merge holds what either side held.
LEMMA MergeHolds ==
  ASSUME NEW tr, NEW T, NEW log, Holds(log, T, tr), NEW U, NEW other, Carries(other, U, tr)
  PROVE  Holds(MergeLogs(log, other), T \cup U, tr)
<1>1. /\ log \in Seq(Logged) /\ other \in Seq(Logged)
      /\ U = {other[i].op : i \in DOMAIN other}
  BY DEF Holds, Carries
<1>2. PICK f : IsMergeRun(f, log, other) /\ MergeLogs(log, other) = f[Len(other)]
  BY <1>1, MergeRuns
<1> DEFINE n == Len(other)
           Sofar(k) == T \cup {other[i].op : i \in 1 .. k}
           C == {k \in 0 .. n : Holds(f[k], Sofar(k), tr)}
<1>3. n \in Nat /\ DOMAIN other = 1 .. n /\ \A k \in 1 .. n : other[k] \in Logged
  BY <1>1
<1> HIDE DEF n
<1>4. 0 \in C
  <2>1. Sofar(0) = T
    OBVIOUS
  <2> HIDE DEF Sofar
  <2> QED BY <1>2, <1>3, <2>1 DEF IsMergeRun
<1>5. ASSUME NEW k \in 0 .. n - 1, k \in C
      PROVE  k + 1 \in C
  <2>1. k + 1 \in 1 .. n /\ k + 1 \in 0 .. n /\ (k + 1) - 1 = k
    BY <1>3
  <2>2. f[k + 1] = AddLogged(f[k], other[k + 1])
    BY <1>2, <2>1 DEF IsMergeRun, n
  <2>3. other[k + 1] \in Logged /\ other[k + 1].track = tr[other[k + 1].op]
    BY <1>3, <2>1 DEF Carries
  <2>4. Sofar(k + 1) = Sofar(k) \cup {other[k + 1].op}
    <3>1. 1 .. k + 1 = (1 .. k) \cup {k + 1}
      BY <1>3
    <3> QED BY <3>1
  <2>5. Holds(f[k], Sofar(k), tr)
    BY <1>5
  <2> HIDE DEF Sofar
  <2>6. Holds(f[k + 1], Sofar(k + 1), tr)
    BY <2>2, <2>3, <2>4, <2>5, AddHolds
  <2> QED BY <2>1, <2>6
<1>6. 0 .. n \subseteq C
  <2> HIDE DEF C
  <2> QED BY <1>3, <1>4, <1>5, UpTo
<1>7. Holds(f[n], Sofar(n), tr)
  <2>1. n \in 0 .. n
    BY <1>3
  <2> QED BY <1>6, <2>1
<1>8. Sofar(n) = T \cup U
  BY <1>1, <1>3
<1> QED
  BY <1>2, <1>7, <1>8 DEF n

LEMMA LogsMerge ==
  ASSUME NEW tr, NEW T, NEW U, NEW a, NEW b, Holds(a, T, tr), Holds(b, U, tr)
  PROVE  Holds(MergeLogs(a, b), T \cup U, tr)
<1>1. Carries(b, U, tr)
  BY DEF Holds
<1> QED
  BY <1>1, MergeHolds

\* A log is as long as the ops it holds are many.
LEMMA LogLength ==
  ASSUME NEW T, NEW tr, NEW log, Holds(log, T, tr)
  PROVE  IsFiniteSet(T) /\ Len(log) = Cardinality(T)
<1> DEFINE n == Len(log)
           f == [i \in 1 .. n |-> log[i].op]
<1>1. /\ n \in Nat /\ DOMAIN log = 1 .. n /\ T = {log[i].op : i \in DOMAIN log}
      /\ \A i, j \in 1 .. n : i # j => log[i].op # log[j].op
  BY DEF Holds, Carries
<1> HIDE DEF n
<1>2. f \in [1 .. n -> T] /\ T = {f[i] : i \in 1 .. n} /\ \A i, j \in 1 .. n : i # j => f[i] # f[j]
  BY <1>1
<1> HIDE DEF f
<1>3. IsFiniteSet(1 .. n) /\ Cardinality(1 .. n) = n
  BY <1>1, FS_Interval
<1>4. f \in Surjection(1 .. n, T)
  BY <1>2 DEF Surjection
<1>5. f \in Injection(1 .. n, T)
  BY <1>2 DEF Injection, IsInjective
<1> QED
  BY <1>3, <1>4, <1>5, FS_Surjection DEF n

----------------------------------------------------------------------------
(* The winners of a log.                                                   *)

\* w has the last of the ops in L for each of their keys.
AreWinners(w, L) ==
  /\ w = [k \in {o.key : o \in L} |-> w[k]]
  /\ \A k \in {o.key : o \in L} :
       /\ w[k] \in L /\ w[k].key = k
       /\ \A p \in L : p.key = k /\ p # w[k] => Before(p, w[k])

\* order_key puts the ops of a scenario in one order.
LEMMA BeforeOrders ==
  ASSUME NEW o \in LabOp, NEW p \in LabOp
  PROVE  /\ ~ Before(o, o)
         /\ ~ (Before(o, p) /\ Before(p, o))
         /\ o # p => Before(o, p) \/ Before(p, o)
         /\ \A q \in LabOp : Before(o, p) /\ Before(p, q) => Before(o, q)
<1>1. \A q \in LabOp : q.lamport \in Nat /\ q.node \in Nat /\ Hash(q) \in Nat
  BY LabAssumption, NodeAssumption, OrderAssumption DEF Op
<1>2. Hash(o) = Hash(p) => o = p
  BY OrderAssumption
<1>3. ~ Before(o, o) /\ ~ (Before(o, p) /\ Before(p, o))
  BY <1>1 DEF Before
<1>4. o # p => Before(o, p) \/ Before(p, o)
  BY <1>1, <1>2 DEF Before
<1>5. \A q \in LabOp : Before(o, p) /\ Before(p, q) => Before(o, q)
  BY <1>1 DEF Before
<1> QED
  BY <1>3, <1>4, <1>5

LEMMA WinnersAreUnique ==
  ASSUME NEW L \in SUBSET LabOp, NEW v, NEW w, AreWinners(v, L), AreWinners(w, L)
  PROVE  v = w
<1>1. ASSUME NEW k \in {o.key : o \in L}
      PROVE  v[k] = w[k]
  <2>1. /\ v[k] \in L /\ w[k] \in L
        /\ v[k] # w[k] => Before(v[k], w[k]) /\ Before(w[k], v[k])
    BY DEF AreWinners
  <2>2. v[k] \in LabOp /\ w[k] \in LabOp
    BY <2>1
  <2> QED BY <2>1, <2>2, BeforeOrders
<1>2. /\ v = [k \in {o.key : o \in L} |-> v[k]]
      /\ w = [k \in {o.key : o \in L} |-> w[k]]
  BY DEF AreWinners
<1>3. [k \in {o.key : o \in L} |-> v[k]] = [k \in {o.key : o \in L} |-> w[k]]
  BY <1>1
<1> QED
  BY <1>2, <1>3

\* A round of the loop keeps the winners of the entries it has gone through.
LEMMA ChallengeWins ==
  ASSUME NEW L \in SUBSET LabOp, NEW w, AreWinners(w, L), NEW e \in Logged, NEW tracks
  PROVE  AreWinners(Challenge(w, e, tracks), IF e.track \in tracks THEN L \cup {e.op} ELSE L)
<1> DEFINE o == e.op
           keys == {q.key : q \in L}
           new == Challenge(w, e, tracks)
<1>0. o \in LabOp /\ DOMAIN w = keys
  BY DEF AreWinners, Logged, Row
<1>1. CASE e.track \notin tracks
  <2>1. new = w
    BY <1>1 DEF Challenge
  <2> QED BY <1>1, <2>1
<1>2. CASE e.track \in tracks
  <2> DEFINE M == L \cup {o}
  <2>0. {q.key : q \in M} = keys \cup {o.key}
    OBVIOUS
  <2>1. CASE o.key \in keys /\ ~ Before(w[o.key], o)
    <3>1. new = w
      BY <1>0, <2>1 DEF Challenge, Supersedes
    <3>2. keys \cup {o.key} = keys
      BY <2>1
    <3>3. ASSUME NEW k \in keys, NEW p \in M, p.key = k, p # w[k]
          PROVE  Before(p, w[k])
      <4>1. w[k] \in L /\ w[k].key = k /\ \A q \in L : q.key = k /\ q # w[k] => Before(q, w[k])
        BY DEF AreWinners
      <4>2. CASE p \in L
        BY <3>3, <4>1, <4>2
      <4>3. CASE p = o
        BY <1>0, <2>1, <3>3, <4>1, <4>3, BeforeOrders
      <4> QED BY <4>2, <4>3
    <3>4. \A k \in keys : w[k] \in M /\ w[k].key = k
      BY DEF AreWinners
    <3>5. w = [k \in keys |-> w[k]]
      BY DEF AreWinners
    <3>6. AreWinners(w, M)
      <4> HIDE DEF M, keys
      <4> QED BY <2>0, <3>2, <3>3, <3>4, <3>5 DEF AreWinners
    <3> QED BY <1>2, <3>1, <3>6
  <2>2. CASE o.key \in keys => Before(w[o.key], o)
    <3>1. new = [k \in keys \cup {o.key} |-> IF k = o.key THEN o ELSE w[k]]
      BY <1>0, <1>2, <2>2 DEF Challenge, Supersedes
    <3>2. \A k \in keys \cup {o.key} : new[k] = IF k = o.key THEN o ELSE w[k]
      BY <3>1
    <3>3. new = [k \in keys \cup {o.key} |-> new[k]]
      BY <3>1
    <3> HIDE DEF new, keys
    <3>4. ASSUME NEW k \in keys \cup {o.key}
          PROVE  new[k] \in M /\ new[k].key = k
      <4>1. k # o.key => w[k] \in L /\ w[k].key = k
        BY DEF AreWinners, keys
      <4> QED BY <3>2, <4>1
    <3>5. ASSUME NEW k \in keys \cup {o.key}, NEW p \in M, p.key = k, p # new[k]
          PROVE  Before(p, new[k])
      <4>1. CASE k # o.key
        <5>1. p \in L /\ k \in keys /\ new[k] = w[k]
          BY <3>2, <3>5, <4>1
        <5> QED BY <3>5, <5>1 DEF AreWinners, keys
      <4>2. CASE k = o.key
        <5>1. p \in L /\ new[k] = o /\ k \in keys
          BY <3>2, <3>5, <4>2 DEF keys
        <5>2. w[k] \in L /\ (p # w[k] => Before(p, w[k]))
          BY <3>5, <5>1 DEF AreWinners, keys
        <5>3. Before(w[k], o)
          BY <2>2, <4>2, <5>1
        <5>4. p \in LabOp /\ w[k] \in LabOp
          BY <5>1, <5>2
        <5> QED BY <1>0, <5>1, <5>2, <5>3, <5>4, BeforeOrders
      <4> QED BY <4>1, <4>2
    <3>6. AreWinners(new, M)
      <4> HIDE DEF M
      <4> QED BY <2>0, <3>3, <3>4, <3>5 DEF AreWinners
    <3> QED BY <1>2, <3>6 DEF new
  <2> QED BY <2>1, <2>2
<1> QED
  BY <1>1, <1>2

WinnerMap == UNION {[keys -> LabOp] : keys \in SUBSET Key}

LEMMA WinnersStay ==
  ASSUME NEW w \in WinnerMap, NEW e \in Logged, NEW tracks
  PROVE  Challenge(w, e, tracks) \in WinnerMap
<1>1. e.op \in LabOp /\ e.op.key \in Key
  BY LabAssumption DEF Logged, Row, Op
<1>2. PICK keys \in SUBSET Key : w \in [keys -> LabOp]
  BY DEF WinnerMap
<1>3. [k \in DOMAIN w \cup {e.op.key} |-> IF k = e.op.key THEN e.op ELSE w[k]]
        \in [keys \cup {e.op.key} -> LabOp]
  BY <1>1, <1>2
<1>4. keys \cup {e.op.key} \in SUBSET Key
  BY <1>1
<1> QED
  BY <1>3, <1>4 DEF Challenge, WinnerMap

\* The run of FoldWinners through a log.
IsWinnerRun(f, log, tracks) ==
  /\ f \in [0 .. Len(log) -> WinnerMap]
  /\ f[0] = [k \in {} |-> k]
  /\ \A k \in 1 .. Len(log) : f[k] = Challenge(f[k - 1], log[k], tracks)

IsWinnerFold(w, log, tracks) ==
  w = [S \in SUBSET (DOMAIN log) |->
         IF S = {} THEN [k \in {} |-> k]
         ELSE Challenge(w[S \ {Max(S)}], log[Max(S)], tracks)]

LEMMA FoldWinnersIsFold ==
  \A log, tracks : FoldWinners(log, tracks) =
                     (CHOOSE w : IsWinnerFold(w, log, tracks))[DOMAIN log]
BY DEF FoldWinners, FoldLeft, MapThenFoldSet, IsWinnerFold

LEMMA WinnersRun ==
  ASSUME NEW log \in Seq(Logged), NEW tracks
  PROVE  \E f : IsWinnerRun(f, log, tracks) /\ FoldWinners(log, tracks) = f[Len(log)]
<1> DEFINE n == Len(log)
           V == WinnerMap
           none == [k \in {} |-> k]
           step == [i \in 1 .. n |-> [l \in V |-> Challenge(l, log[i], tracks)]]
           w == CHOOSE w : IsWinnerFold(w, log, tracks)
<1>1. n \in Nat /\ DOMAIN log = 1 .. n /\ \A k \in 1 .. n : log[k] \in Logged
  OBVIOUS
<1>2. step \in [1 .. n -> [V -> V]] /\ \A k \in 1 .. n, l \in V : step[k][l] = Challenge(l, log[k], tracks)
  BY <1>1, WinnersStay
<1> HIDE DEF n, V, step
<1>3. none \in V
  <2>1. none \in [{} -> LabOp]
    OBVIOUS
  <2> QED BY <2>1 DEF V, WinnerMap
<1>f. FoldStart(n, V, none, step)
  BY <1>1, <1>2, <1>3 DEF FoldStart
<1>4. PICK g \in [SUBSET (1 .. n) -> V] : SolvesFold(g, n, V, none, step)
  BY <1>f, FoldHasSolution
<1>5. IsWinnerFold(g, log, tracks)
  <2>1. ASSUME NEW S \in SUBSET (1 .. n), S # {}
        PROVE  g[S] = Challenge(g[S \ {Max(S)}], log[Max(S)], tracks)
    <3>1. Max(S) \in 1 .. n /\ S \ {Max(S)} \in SUBSET (1 .. n)
      BY <1>1, <2>1, FoldPicks
    <3> QED BY <1>2, <1>4, <2>1, <3>1 DEF SolvesFold
  <2>2. g[{}] = none
    BY <1>4 DEF SolvesFold
  <2> QED BY <1>1, <2>1, <2>2 DEF IsWinnerFold
<1>6. IsWinnerFold(w, log, tracks)
  BY <1>5
<1> HIDE DEF w
<1>7. \A S \in SUBSET (1 .. n) :
        w[S] = IF S = {} THEN none ELSE Challenge(w[S \ {Max(S)}], log[Max(S)], tracks)
  BY <1>1, <1>6 DEF IsWinnerFold
<1>8. SolvesFold(w, n, V, none, step)
  <2>1. ASSUME NEW S \in SUBSET (1 .. n), S # {}, w[S \ {Max(S)}] \in V
        PROVE  w[S] = step[Max(S)][w[S \ {Max(S)}]]
    <3>1. Max(S) \in 1 .. n
      BY <1>1, <2>1, FoldPicks
    <3> QED BY <1>2, <1>7, <2>1, <3>1
  <2> QED BY <1>7, <2>1 DEF SolvesFold
<1>10. PICK f : IsRunOf(f, n, V, none, step) /\ f[n] = w[1 .. n]
  BY <1>f, <1>8, FoldRuns
<1>11. IsWinnerRun(f, log, tracks)
  <2>1. \A k \in 1 .. n : f[k - 1] \in V
    <3>1. \A k \in 1 .. n : k - 1 \in 0 .. n
      BY <1>1
    <3> QED BY <1>10, <3>1 DEF IsRunOf
  <2> QED BY <1>2, <1>10, <2>1 DEF IsRunOf, IsWinnerRun, n, V
<1> QED
  BY <1>1, <1>10, <1>11, FoldWinnersIsFold DEF w, n

\* The loops find the winners of the ops that the log has on the tracks.
LEMMA WinnersHold ==
  ASSUME NEW T, NEW tr, NEW log, Holds(log, T, tr), NEW tracks
  PROVE  /\ {o \in T : tr[o] \in tracks} \in SUBSET LabOp
         /\ AreWinners(FoldWinners(log, tracks), {o \in T : tr[o] \in tracks})
<1>1. /\ log \in Seq(Logged) /\ T = {log[i].op : i \in DOMAIN log}
      /\ \A i \in DOMAIN log : log[i].track = tr[log[i].op]
  BY DEF Holds, Carries
<1>2. PICK f : IsWinnerRun(f, log, tracks) /\ FoldWinners(log, tracks) = f[Len(log)]
  BY <1>1, WinnersRun
<1> DEFINE n == Len(log)
           Places(k) == {i \in 1 .. k : log[i].track \in tracks}
           Sofar(k) == {log[i].op : i \in Places(k)}
           C == {k \in 0 .. n : AreWinners(f[k], Sofar(k))}
<1>3. n \in Nat /\ DOMAIN log = 1 .. n /\ \A k \in 1 .. n : log[k] \in Logged /\ log[k].op \in LabOp
  BY <1>1 DEF Logged, Row
<1> HIDE DEF n
<1>4. 0 \in C
  <2>1. Sofar(0) = {}
    OBVIOUS
  <2> HIDE DEF Sofar
  <2>2. AreWinners([k \in {} |-> k], {})
    BY DEF AreWinners
  <2>3. f[0] = [k \in {} |-> k]
    BY <1>2 DEF IsWinnerRun
  <2>4. AreWinners(f[0], Sofar(0))
    BY <2>1, <2>2, <2>3
  <2> QED BY <1>3, <2>4
<1>5. ASSUME NEW k \in 0 .. n - 1, k \in C
      PROVE  k + 1 \in C
  <2>1. k + 1 \in 1 .. n /\ k + 1 \in 0 .. n /\ (k + 1) - 1 = k
    BY <1>3
  <2> DEFINE e == log[k + 1]
  <2>2. f[k + 1] = Challenge(f[k], e, tracks)
    BY <1>2, <2>1 DEF IsWinnerRun, n
  <2>3. e \in Logged
    BY <1>3, <2>1
  <2>4. Sofar(k + 1) = IF e.track \in tracks THEN Sofar(k) \cup {e.op} ELSE Sofar(k)
    <3>1. 1 .. k + 1 = (1 .. k) \cup {k + 1}
      BY <1>3
    <3> QED BY <3>1
  <2>5. AreWinners(f[k], Sofar(k)) /\ Sofar(k) \in SUBSET LabOp
    <3>1. \A i \in 1 .. k : i \in 1 .. n
      BY <1>3
    <3> QED BY <1>3, <1>5, <3>1
  <2> HIDE DEF Sofar, e
  <2>6. AreWinners(f[k + 1], Sofar(k + 1))
    <3>1. AreWinners(Challenge(f[k], e, tracks),
                     IF e.track \in tracks THEN Sofar(k) \cup {e.op} ELSE Sofar(k))
      BY <2>3, <2>5, ChallengeWins
    <3> QED BY <2>2, <2>4, <3>1
  <2> QED BY <2>1, <2>6
<1>6. 0 .. n \subseteq C
  <2> HIDE DEF C
  <2> QED BY <1>3, <1>4, <1>5, UpTo
<1>7. AreWinners(f[n], Sofar(n))
  <2>1. n \in 0 .. n
    BY <1>3
  <2> QED BY <1>6, <2>1
<1>8. Sofar(n) = {o \in T : tr[o] \in tracks}
  BY <1>1, <1>3
<1>9. {o \in T : tr[o] \in tracks} \in SUBSET LabOp
  BY <1>1, <1>3
<1> QED
  BY <1>2, <1>7, <1>8, <1>9 DEF n

\* Logs that hold the same ops, on the same tracks, show the same.
LEMMA SameOpsSameSnapshot ==
  ASSUME NEW T, NEW tr, NEW a, NEW b, Holds(a, T, tr), Holds(b, T, tr)
  PROVE  Digests(a) = Digests(b) /\ Len(a) = Len(b) /\ Snapshot(a) = Snapshot(b)
<1>1. ASSUME NEW tracks
      PROVE  FoldWinners(a, tracks) = FoldWinners(b, tracks)
  <2> DEFINE L == {o \in T : tr[o] \in tracks}
  <2>1. /\ L \in SUBSET LabOp
        /\ AreWinners(FoldWinners(a, tracks), L) /\ AreWinners(FoldWinners(b, tracks), L)
    BY WinnersHold
  <2> HIDE DEF L
  <2> QED BY <2>1, WinnersAreUnique
<1>2. Digests(a) = Digests(b)
  BY <1>1 DEF Digests, FoldView
<1>3. Len(a) = Len(b)
  BY LogLength
<1> QED
  BY <1>2, <1>3 DEF Snapshot

\* What a log shows is what its op set shows in a node of the mesh.
LEMMA DigestsAreMaxima ==
  ASSUME NEW T, NEW tr, NEW log, Holds(log, T, tr)
  PROVE  Digests(log) = <<AuthorizedView(AsDocument(log)), ObservedView(AsDocument(log)),
                          Heads(AsDocument(log))>>
<1> DEFINE doc == AsDocument(log)
<1>1. /\ T = {log[i].op : i \in DOMAIN log}
      /\ \A i \in DOMAIN log : log[i].track = tr[log[i].op]
  BY DEF Holds, Carries
<1>2. DOMAIN doc = T /\ \A o \in T : doc[o] = tr[o]
  <2>1. ASSUME NEW o \in T
        PROVE  (CHOOSE e \in Range(log) : e.op = o).track = tr[o]
    <3>1. \E e \in Range(log) : e.op = o
      BY <1>1 DEF Range
    <3>2. \A e \in Range(log) : e.track = tr[e.op]
      BY <1>1 DEF Range
    <3> QED BY <3>1, <3>2
  <2> QED BY <1>1, <2>1 DEF AsDocument
<1> HIDE DEF doc
<1>3. ASSUME NEW tracks
      PROVE  /\ Range(FoldWinners(log, tracks)) = Winners(doc, tracks)
             /\ FoldView(log, tracks) = Materialise(doc, tracks)
  <2> DEFINE L == {o \in T : tr[o] \in tracks}
             w == FoldWinners(log, tracks)
             keys == {o.key : o \in L}
  <2>1. L \in SUBSET LabOp /\ AreWinners(w, L)
    BY WinnersHold
  <2>2. L = {o \in DOMAIN doc : doc[o] \in tracks}
    BY <1>2
  <2>3. Winners(doc, tracks) = {o \in L : \A p \in L : p.key = o.key => ~ Before(o, p)}
    BY <2>2 DEF Winners
  <2> HIDE DEF w, L
  <2>4. /\ DOMAIN w = keys
        /\ \A k \in keys : /\ w[k] \in L /\ w[k].key = k
                        /\ \A p \in L : p.key = k /\ p # w[k] => Before(p, w[k])
    BY <2>1 DEF AreWinners
  <2>5. ASSUME NEW k \in keys
        PROVE  w[k] \in Winners(doc, tracks)
    <3>1. ASSUME NEW p \in L, p.key = k
          PROVE  ~ Before(w[k], p)
      <4>1. w[k] \in LabOp /\ p \in LabOp /\ (p = w[k] \/ Before(p, w[k]))
        BY <2>1, <2>4, <3>1
      <4> QED BY <4>1, BeforeOrders
    <3> QED BY <2>3, <2>4, <3>1
  <2>6. ASSUME NEW o \in Winners(doc, tracks)
        PROVE  o.key \in keys /\ o = w[o.key]
    <3>1. o \in L /\ o.key \in keys
      BY <2>3
    <3>2. w[o.key] \in L /\ w[o.key].key = o.key /\ (o # w[o.key] => Before(o, w[o.key]))
      BY <2>4, <3>1
    <3> QED BY <2>3, <3>1, <3>2
  <2> HIDE DEF keys
  <2>7. Range(w) = Winners(doc, tracks)
    BY <2>4, <2>5, <2>6 DEF Range
  <2> DEFINE Kept == {o \in Winners(doc, tracks) : ~ o.deletion}
             shown == {k \in keys : ~ w[k].deletion}
  <2>8. {o.key : o \in Kept} = shown
    BY <2>4, <2>5, <2>6
  <2>9. ASSUME NEW k \in shown
        PROVE  (CHOOSE o \in Kept : o.key = k) = w[k]
    <3>1. w[k] \in Kept /\ w[k].key = k
      BY <2>4, <2>5
    <3>2. \A o \in Kept : o.key = k => o = w[k]
      BY <2>6
    <3> HIDE DEF Kept
    <3> QED BY <3>1, <3>2
  <2>10. Materialise(doc, tracks) =
           [k \in {o.key : o \in Kept} |-> (CHOOSE o \in Kept : o.key = k).value]
    BY DEF Materialise
  <2>11. FoldView(log, tracks) = [k \in shown |-> w[k].value]
    BY <2>4 DEF FoldView, w
  <2> HIDE DEF Kept, shown
  <2>12. FoldView(log, tracks) = Materialise(doc, tracks)
    BY <2>8, <2>9, <2>10, <2>11
  <2> QED BY <2>7, <2>12 DEF w
<1> QED
  BY <1>3 DEF Digests, AuthorizedView, ObservedView, Heads, doc

----------------------------------------------------------------------------
(* The orders of the replicas.                                             *)

\* The sequence has the ops of S and no others.
IsOrderOf(seq, S) == seq \in Seq(LabOp) /\ S = {seq[i] : i \in DOMAIN seq}

LEMMA SortedIsOrder ==
  ASSUME NEW S \in SUBSET LabOp, IsFiniteSet(S), NEW seq \in SetToSeqs(S)
  PROVE  IsOrderOf(seq, S)
<1>1. /\ Cardinality(S) \in Nat /\ seq \in [1 .. Cardinality(S) -> S]
      /\ \A x \in S : \E i \in DOMAIN seq : seq[i] = x
  BY SeqsAreOnto
<1>2. seq \in Seq(LabOp)
  BY <1>1
<1> QED
  BY <1>1, <1>2 DEF IsOrderOf

LEMMA InIdOrderIs ==
  ASSUME NEW S \in SUBSET LabOp, IsFiniteSet(S)
  PROVE  IsOrderOf(InIdOrder(S), S)
<1> DEFINE R == {p \in S \X S : Hash(p[1]) < Hash(p[2])}
           Sorted(seq) == \A i, j \in DOMAIN seq : i < j => Hash(seq[i]) < Hash(seq[j])
<1>1. \A o, p \in S : <<o, p>> \in R <=> Hash(o) < Hash(p)
  OBVIOUS
<1> HIDE DEF R
<1>2. Orders(R, S)
  BY <1>1, OrderAssumption DEF Orders
<1>3. PICK seq \in SetToSeqs(S) : InOrder(seq, R)
  BY <1>2, SortedExists
<1>4. Sorted(seq)
  BY <1>1, <1>3 DEF InOrder, SetToSeqs
<1>5. InIdOrder(S) = CHOOSE seq_1 \in SetToSeqs(S) : Sorted(seq_1)
  BY DEF InIdOrder, SortedBy
<1> HIDE DEF Sorted
<1>6. InIdOrder(S) \in SetToSeqs(S)
  BY <1>3, <1>4, <1>5
<1> QED
  BY <1>6, SortedIsOrder

LEMMA ByKeyIs ==
  ASSUME NEW S \in SUBSET LabOp, IsFiniteSet(S)
  PROVE  IsOrderOf(SortedBy(KeyBefore, S), S)
<1> DEFINE R == {p \in S \X S : KeyBefore(p[1], p[2])}
           Sorted(seq) == \A i, j \in DOMAIN seq : i < j => KeyBefore(seq[i], seq[j])
<1>1. \A o, p \in S : <<o, p>> \in R <=> KeyBefore(o, p)
  OBVIOUS
<1> HIDE DEF R
<1>2. Orders(R, S)
  <2>1. /\ \A o \in S : o.key \in Nat /\ o.lamport \in Nat /\ o.node \in Nat /\ Hash(o) \in Nat
        /\ \A o, p \in S : Hash(o) = Hash(p) => o = p
    BY LabAssumption, NodeAssumption, OrderAssumption DEF Op
  <2>2. \A o \in S : ~ KeyBefore(o, o)
    BY <2>1 DEF KeyBefore
  <2>3. \A o, p \in S : o # p => KeyBefore(o, p) \/ KeyBefore(p, o)
    BY <2>1 DEF KeyBefore
  <2>4. \A o, p, q \in S : KeyBefore(o, p) /\ KeyBefore(p, q) => KeyBefore(o, q)
    BY <2>1 DEF KeyBefore
  <2> QED BY <1>1, <2>2, <2>3, <2>4 DEF Orders
<1>3. PICK seq \in SetToSeqs(S) : InOrder(seq, R)
  BY <1>2, SortedExists
<1>4. Sorted(seq)
  BY <1>1, <1>3 DEF InOrder, SetToSeqs
<1>5. SortedBy(KeyBefore, S) = CHOOSE seq_1 \in SetToSeqs(S) : Sorted(seq_1)
  BY DEF SortedBy
<1> HIDE DEF Sorted
<1>6. SortedBy(KeyBefore, S) \in SetToSeqs(S)
  BY <1>3, <1>4, <1>5
<1> QED
  BY <1>6, SortedIsOrder

\* Every replica takes in the same ops.
LEMMA OrderForReplicaIs ==
  ASSUME NEW S \in SUBSET LabOp, IsFiniteSet(S), S # {}, NEW ops, IsOrderOf(ops, S), NEW i \in Nat
  PROVE  IsOrderOf(OrderForReplica(ops, i), S)
<1> DEFINE n == Len(ops)
           offset == i % n
           turned == SubSeq(ops, offset + 1, n) \o SubSeq(ops, 1, offset)
<1>1. /\ ops \in Seq(LabOp) /\ n \in Nat /\ DOMAIN ops = 1 .. n
      /\ \A j \in 1 .. n : ops[j] \in LabOp
      /\ S = {ops[j] : j \in 1 .. n}
  BY DEF IsOrderOf
<1>2. n > 0
  <2>1. PICK j \in 1 .. n : TRUE
    BY <1>1
  <2> QED BY <1>1, <2>1
<1> HIDE DEF n
<1>3. offset \in 0 .. n - 1
  BY <1>1, <1>2
<1>4. IsOrderOf(Reverse(ops), S)
  <2> DEFINE t == [j \in 1 .. n |-> ops[(n - j) + 1]]
  <2>1. Reverse(ops) = t
    BY DEF Reverse, n
  <2>2. \A j \in 1 .. n : (n - j) + 1 \in 1 .. n /\ (n - ((n - j) + 1)) + 1 = j
    BY <1>1
  <2>3. t \in Seq(LabOp) /\ DOMAIN t = 1 .. n
    BY <1>1, <2>2
  <2>4. \A j \in 1 .. n : t[j] = ops[(n - j) + 1] /\ ops[j] = t[(n - j) + 1]
    BY <2>2
  <2> HIDE DEF t
  <2>5. S = {t[j] : j \in DOMAIN t}
    <3>1. ASSUME NEW o \in S PROVE o \in {t[j] : j \in 1 .. n}
      <4>1. PICK j \in 1 .. n : o = ops[j] BY <1>1, Zenon
      <4> QED BY <2>2, <2>4, <4>1, Zenon
    <3>2. ASSUME NEW j \in 1 .. n PROVE t[j] \in S
      BY <1>1, <2>2, <2>4, Zenon
    <3> QED BY <2>3, <3>1, <3>2, Zenon
  <2>6. IsOrderOf(t, S)
    BY <2>3, <2>5, Zenon DEF IsOrderOf
  <2> QED BY <2>1, <2>6, Zenon
<1>5. IsOrderOf(turned, S)
  <2> HIDE DEF offset
  <2> DEFINE a == SubSeq(ops, offset + 1, n)
             b == SubSeq(ops, 1, offset)
  <2>1. /\ a \in Seq(LabOp) /\ Len(a) = n - offset
        /\ \A j \in 1 .. n - offset : a[j] = ops[offset + j]
    BY <1>1, <1>3
  <2>2. /\ b \in Seq(LabOp) /\ Len(b) = offset
        /\ \A j \in 1 .. offset : b[j] = ops[j]
    BY <1>1, <1>3
  <2> HIDE DEF a, b
  <2> DEFINE t == a \o b
  <2>3. /\ t \in Seq(LabOp) /\ Len(t) = n /\ DOMAIN t = 1 .. n
        /\ \A j \in 1 .. n : t[j] = IF j <= n - offset THEN a[j] ELSE b[j - (n - offset)]
    <3>1. /\ t \in Seq(LabOp) /\ Len(t) = Len(a) + Len(b)
          /\ \A j \in 1 .. Len(a) + Len(b) : t[j] = IF j <= Len(a) THEN a[j] ELSE b[j - Len(a)]
      BY <2>1, <2>2, ConcatProperties
    <3>2. Len(a) + Len(b) = n
      BY <1>1, <1>3, <2>1, <2>2
    <3> HIDE DEF t
    <3> QED BY <2>1, <3>1, <3>2
  <2> HIDE DEF t
  <2>4. ASSUME NEW j \in 1 .. n
        PROVE  t[j] \in S
    <3>1. CASE j <= n - offset
      <4>1. j \in 1 .. n - offset /\ offset + j \in 1 .. n
        BY <1>1, <1>3, <3>1
      <4>2. t[j] = ops[offset + j]
        BY <2>1, <2>3, <3>1, <4>1
      <4> QED BY <1>1, <4>1, <4>2
    <3>2. CASE ~ (j <= n - offset)
      <4>1. j - (n - offset) \in 1 .. offset /\ j - (n - offset) \in 1 .. n
        BY <1>1, <1>3, <3>2
      <4>2. t[j] = ops[j - (n - offset)]
        BY <2>2, <2>3, <3>2, <4>1
      <4> QED BY <1>1, <4>1, <4>2
    <3> QED BY <3>1, <3>2
  <2>5. ASSUME NEW j \in 1 .. n
        PROVE  \E k \in 1 .. n : t[k] = ops[j]
    <3>1. CASE j > offset
      <4>1. /\ j - offset \in 1 .. n - offset /\ j - offset \in 1 .. n /\ j - offset <= n - offset
            /\ offset + (j - offset) = j
        BY <1>1, <1>3, <3>1
      <4>2. t[j - offset] = ops[j]
        BY <2>1, <2>3, <4>1
      <4> QED BY <4>1, <4>2
    <3>2. CASE ~ (j > offset)
      <4>1. /\ j \in 1 .. offset /\ j + (n - offset) \in 1 .. n /\ ~ (j + (n - offset) <= n - offset)
            /\ (j + (n - offset)) - (n - offset) = j
        BY <1>1, <1>3, <3>2
      <4>2. t[j + (n - offset)] = ops[j]
        BY <2>2, <2>3, <4>1
      <4> QED BY <4>1, <4>2
    <3> QED BY <3>1, <3>2
  <2>6. S = {t[j] : j \in DOMAIN t}
    <3>1. \A x \in S : \E k \in 1 .. n : t[k] = x
      BY <1>1, <2>5
    <3> QED BY <2>3, <2>4, <3>1
  <2> QED BY <2>3, <2>6 DEF IsOrderOf, t, a, b
<1>6. IsOrderOf(SortedBy(KeyBefore, Range(ops)), S)
  <2>1. Range(ops) = S
    BY <1>1 DEF Range
  <2> QED BY <2>1, ByKeyIs
<1>7. i % 4 \in 0 .. 3
  OBVIOUS
<1>8. CASE i % 4 = 0
  <2>1. OrderForReplica(ops, i) = ops
    BY <1>8 DEF OrderForReplica
  <2> QED BY <2>1
<1>9. CASE i % 4 = 1
  <2>1. OrderForReplica(ops, i) = Reverse(ops)
    BY <1>9 DEF OrderForReplica
  <2> QED BY <1>4, <2>1
<1>10. CASE i % 4 = 2
  <2>1. OrderForReplica(ops, i) = turned
    <3>1. i % 4 # 0 /\ i % 4 # 1 /\ i % 4 # 3
      BY <1>10
    <3> QED BY <1>10, <3>1, Zenon DEF OrderForReplica, n
  <2> QED BY <1>5, <2>1
<1>11. CASE i % 4 = 3
  <2>1. OrderForReplica(ops, i) = SortedBy(KeyBefore, Range(ops))
    BY <1>11 DEF OrderForReplica
  <2> QED BY <1>6, <2>1
<1> QED
  BY <1>7, <1>8, <1>9, <1>10, <1>11

\* The document of some ops holds them.
LEMMA DocumentHolds ==
  ASSUME NEW D \in SUBSET LabOp, NEW tr \in [D -> Track], NEW S \in SUBSET D,
         NEW ops, IsOrderOf(ops, S)
  PROVE  Holds(DocumentOf(ops, tr), S, tr)
<1> DEFINE rows == [i \in DOMAIN ops |-> [op |-> ops[i], track |-> tr[ops[i]]]]
<1>1. ops \in Seq(LabOp) /\ S = {ops[i] : i \in DOMAIN ops} /\ DOMAIN ops = 1 .. Len(ops)
      /\ Len(ops) \in Nat
  BY DEF IsOrderOf
<1>2. \A i \in DOMAIN ops : ops[i] \in S /\ ops[i] \in LabOp /\ tr[ops[i]] \in Track
  BY <1>1
<1>3. /\ rows \in Seq(Logged) /\ DOMAIN rows = DOMAIN ops
      /\ \A i \in DOMAIN ops : rows[i].op = ops[i] /\ rows[i].track = tr[ops[i]]
  BY <1>1, <1>2 DEF Logged
<1> HIDE DEF rows
<1>4. Carries(rows, S, tr)
  BY <1>1, <1>3 DEF Carries
<1>5. Holds(MergeLogs(<<>>, rows), {} \cup S, tr)
  BY <1>4, EmptyHolds, MergeHolds
<1>6. {} \cup S = S
  OBVIOUS
<1> QED
  BY <1>5, <1>6 DEF DocumentOf, rows

\* The slices that the sample merges take have ops of the sequence alone.
LEMMA SliceIs ==
  ASSUME NEW S \in SUBSET LabOp, NEW ops, IsOrderOf(ops, S),
         NEW step \in {2, 3}, NEW offset \in 0 .. 2, offset < step
  PROVE  \E P \in SUBSET S : IsOrderOf(Every(ops, step, offset), P)
<1> DEFINE n == Len(ops)
           m == (n - offset + step - 1) \div step
           slice == [k \in 1 .. m |-> ops[(k - 1) * step + offset + 1]]
<1>1. /\ ops \in Seq(LabOp) /\ n \in Nat /\ DOMAIN ops = 1 .. n
      /\ \A j \in 1 .. n : ops[j] \in S
  BY DEF IsOrderOf
<1> HIDE DEF n
<1>2. m \in Int /\ \A k \in 1 .. m : (k - 1) * step + offset + 1 \in 1 .. n
  <2>1. CASE step = 2
    BY <1>1, <2>1
  <2>2. CASE step = 3
    BY <1>1, <2>2
  <2> QED BY <2>1, <2>2
<1>3. m >= 0
  <2>1. CASE step = 2
    BY <1>1, <2>1
  <2>2. CASE step = 3
    BY <1>1, <2>2
  <2> QED BY <2>1, <2>2
<1>4. Every(ops, step, offset) = slice
  BY DEF Every, n
<1> HIDE DEF m
<1>5. slice \in Seq(LabOp) /\ \A k \in DOMAIN slice : slice[k] \in S
  <2>1. \A k \in 1 .. m : slice[k] \in S
    BY <1>1, <1>2
  <2> QED BY <1>2, <1>3, <2>1
<1> DEFINE P == {slice[k] : k \in DOMAIN slice}
<1> HIDE DEF slice
<1>6. P \in SUBSET S /\ IsOrderOf(slice, P)
  BY <1>5 DEF IsOrderOf
<1> QED
  BY <1>4, <1>6

----------------------------------------------------------------------------
(* The partitions of a scenario, and what they hold together.              *)

AddOwn(log, row, i) == IF row.origin = i THEN AddLogged(log, row) ELSE log

LEMMA OwnStays ==
  ASSUME NEW log \in Seq(Logged), NEW row \in Row, NEW i
  PROVE  AddOwn(log, row, i) \in Seq(Logged)
BY LoggedStays DEF AddOwn, Logged

\* The run of Partition through the rows.
IsPartitionRun(f, rows, i) ==
  /\ f \in [0 .. Len(rows) -> Seq(Logged)]
  /\ f[0] = <<>>
  /\ \A k \in 1 .. Len(rows) : f[k] = AddOwn(f[k - 1], rows[k], i)

IsPartitionFold(w, rows, i) ==
  w = [S \in SUBSET (DOMAIN rows) |->
         IF S = {} THEN <<>> ELSE AddOwn(w[S \ {Max(S)}], rows[Max(S)], i)]

LEMMA PartitionIsFold ==
  \A rows, i : Partition(rows, i) = (CHOOSE w : IsPartitionFold(w, rows, i))[DOMAIN rows]
BY DEF Partition, FoldLeft, MapThenFoldSet, IsPartitionFold, AddOwn

LEMMA PartitionRuns ==
  ASSUME NEW rows \in Seq(Row), NEW i
  PROVE  \E f : IsPartitionRun(f, rows, i) /\ Partition(rows, i) = f[Len(rows)]
<1> DEFINE n == Len(rows)
           V == Seq(Logged)
           none == <<>>
           step == [k \in 1 .. n |-> [l \in V |-> AddOwn(l, rows[k], i)]]
           w == CHOOSE w : IsPartitionFold(w, rows, i)
<1>1. n \in Nat /\ DOMAIN rows = 1 .. n /\ \A k \in 1 .. n : rows[k] \in Row
  OBVIOUS
<1>2. step \in [1 .. n -> [V -> V]] /\ \A k \in 1 .. n, l \in V : step[k][l] = AddOwn(l, rows[k], i)
  BY <1>1, OwnStays
<1> HIDE DEF n, V, step
<1>3. none \in V
  BY DEF V
<1>f. FoldStart(n, V, none, step)
  BY <1>1, <1>2, <1>3 DEF FoldStart
<1>4. PICK g \in [SUBSET (1 .. n) -> V] : SolvesFold(g, n, V, none, step)
  BY <1>f, FoldHasSolution
<1>5. IsPartitionFold(g, rows, i)
  <2>1. ASSUME NEW S \in SUBSET (1 .. n), S # {}
        PROVE  g[S] = AddOwn(g[S \ {Max(S)}], rows[Max(S)], i)
    <3>1. Max(S) \in 1 .. n /\ S \ {Max(S)} \in SUBSET (1 .. n)
      BY <1>1, <2>1, FoldPicks
    <3> QED BY <1>2, <1>4, <2>1, <3>1 DEF SolvesFold
  <2>2. g[{}] = none
    BY <1>4 DEF SolvesFold
  <2> QED BY <1>1, <2>1, <2>2 DEF IsPartitionFold
<1>6. IsPartitionFold(w, rows, i)
  BY <1>5
<1> HIDE DEF w
<1>7. \A S \in SUBSET (1 .. n) :
        w[S] = IF S = {} THEN none ELSE AddOwn(w[S \ {Max(S)}], rows[Max(S)], i)
  BY <1>1, <1>6 DEF IsPartitionFold
<1>8. SolvesFold(w, n, V, none, step)
  <2>1. ASSUME NEW S \in SUBSET (1 .. n), S # {}, w[S \ {Max(S)}] \in V
        PROVE  w[S] = step[Max(S)][w[S \ {Max(S)}]]
    <3>1. Max(S) \in 1 .. n
      BY <1>1, <2>1, FoldPicks
    <3> QED BY <1>2, <1>7, <2>1, <3>1
  <2> QED BY <1>7, <2>1 DEF SolvesFold
<1>10. PICK f : IsRunOf(f, n, V, none, step) /\ f[n] = w[1 .. n]
  BY <1>f, <1>8, FoldRuns
<1>11. IsPartitionRun(f, rows, i)
  <2>1. \A k \in 1 .. n : f[k - 1] \in V
    <3>1. \A k \in 1 .. n : k - 1 \in 0 .. n
      BY <1>1
    <3> QED BY <1>10, <3>1 DEF IsRunOf
  <2> QED BY <1>2, <1>10, <2>1 DEF IsRunOf, IsPartitionRun, n, V
<1> QED
  BY <1>1, <1>10, <1>11, PartitionIsFold DEF w, n

\* Every row has the track of its op.
Consistent(rows, tr) == \A j \in DOMAIN rows : rows[j].track = tr[rows[j].op]

OwnRows(rows, i, k) == {j \in 1 .. k : rows[j].origin = i}
OwnOps(rows, i, k) == {rows[j].op : j \in OwnRows(rows, i, k)}

\* A replica holds the ops of its rows.
LEMMA PartitionHolds ==
  ASSUME NEW rows \in Seq(Row), NEW tr, Consistent(rows, tr), NEW i
  PROVE  Holds(Partition(rows, i), OwnOps(rows, i, Len(rows)), tr)
<1>1. PICK f : IsPartitionRun(f, rows, i) /\ Partition(rows, i) = f[Len(rows)]
  BY PartitionRuns
<1> DEFINE n == Len(rows)
           C == {k \in 0 .. n : Holds(f[k], OwnOps(rows, i, k), tr)}
<1>2. n \in Nat /\ DOMAIN rows = 1 .. n /\ \A k \in 1 .. n : rows[k] \in Row
  OBVIOUS
<1> HIDE DEF n
<1>3. 0 \in C
  <2>1. OwnOps(rows, i, 0) = {}
    BY DEF OwnOps, OwnRows
  <2>2. Holds(f[0], {}, tr)
    BY <1>1, EmptyHolds DEF IsPartitionRun
  <2>3. Holds(f[0], OwnOps(rows, i, 0), tr)
    BY <2>1, <2>2
  <2> QED BY <1>2, <2>3
<1>4. ASSUME NEW k \in 0 .. n - 1, k \in C
      PROVE  k + 1 \in C
  <2>1. k + 1 \in 1 .. n /\ k + 1 \in 0 .. n /\ (k + 1) - 1 = k
    BY <1>2
  <2> DEFINE row == rows[k + 1]
  <2>2. f[k + 1] = AddOwn(f[k], row, i)
    BY <1>1, <2>1 DEF IsPartitionRun, n
  <2>3. row \in Logged /\ row.track = tr[row.op]
    BY <1>2, <2>1 DEF Consistent, Logged
  <2>4. OwnOps(rows, i, k + 1) =
          IF row.origin = i THEN OwnOps(rows, i, k) \cup {row.op} ELSE OwnOps(rows, i, k)
    <3>1. 1 .. k + 1 = (1 .. k) \cup {k + 1}
      BY <1>2
    <3> QED BY <3>1 DEF OwnOps, OwnRows
  <2>5. Holds(f[k], OwnOps(rows, i, k), tr)
    BY <1>4
  <2> HIDE DEF row
  <2>6. Holds(f[k + 1], OwnOps(rows, i, k + 1), tr)
    BY <2>2, <2>3, <2>4, <2>5, AddHolds DEF AddOwn
  <2> QED BY <2>1, <2>6
<1>5. 0 .. n \subseteq C
  <2> HIDE DEF C
  <2> QED BY <1>2, <1>3, <1>4, UpTo
<1>6. n \in 0 .. n
  BY <1>2
<1> QED
  BY <1>1, <1>5, <1>6 DEF n

\* The partitions of the replicas in an order, merged one after another.
Reconciled(rows, order) ==
  FoldLeft(LAMBDA doc, i : MergeLogs(doc, Partition(rows, i)), <<>>, order)

LEMMA MergeStays ==
  ASSUME NEW log \in Seq(Logged), NEW rows \in Seq(Row), NEW i
  PROVE  MergeLogs(log, Partition(rows, i)) \in Seq(Logged)
<1>1. \A n \in Nat : n \in 0 .. n
  OBVIOUS
<1>2. Partition(rows, i) \in Seq(Logged)
  <2>1. Len(rows) \in Nat
    OBVIOUS
  <2> QED BY <1>1, <2>1, PartitionRuns DEF IsPartitionRun
<1> DEFINE other == Partition(rows, i)
<1> HIDE DEF other
<1>3. PICK f : IsMergeRun(f, log, other) /\ MergeLogs(log, other) = f[Len(other)]
  BY <1>2, MergeRuns DEF other
<1>4. Len(other) \in Nat
  BY <1>2 DEF other
<1> QED
  BY <1>1, <1>3, <1>4 DEF IsMergeRun, other

\* The run of this merge through the replicas.
IsReconcileRun(f, rows, order, m) ==
  /\ f \in [0 .. m -> Seq(Logged)]
  /\ f[0] = <<>>
  /\ \A k \in 1 .. m : f[k] = MergeLogs(f[k - 1], Partition(rows, order[k]))

IsReconcileFold(w, rows, order) ==
  w = [S \in SUBSET (DOMAIN order) |->
         IF S = {} THEN <<>> ELSE MergeLogs(w[S \ {Max(S)}], Partition(rows, order[Max(S)]))]

LEMMA ReconciledIsFold ==
  \A rows, order : Reconciled(rows, order) =
                     (CHOOSE w : IsReconcileFold(w, rows, order))[DOMAIN order]
BY DEF Reconciled, FoldLeft, MapThenFoldSet, IsReconcileFold

LEMMA ReconcileRuns ==
  ASSUME NEW rows \in Seq(Row), NEW order, NEW m \in Nat, DOMAIN order = 1 .. m
  PROVE  \E f : IsReconcileRun(f, rows, order, m) /\ Reconciled(rows, order) = f[m]
<1> DEFINE n == m
           V == Seq(Logged)
           none == <<>>
           step == [k \in 1 .. n |-> [l \in V |-> MergeLogs(l, Partition(rows, order[k]))]]
           w == CHOOSE w : IsReconcileFold(w, rows, order)
<1>1. n \in Nat /\ DOMAIN order = 1 .. n
  OBVIOUS
<1>2. step \in [1 .. n -> [V -> V]] /\ \A k \in 1 .. n, l \in V : step[k][l] = MergeLogs(l, Partition(rows, order[k]))
  BY <1>1, MergeStays
<1> HIDE DEF n, V, step
<1>3. none \in V
  BY DEF V
<1>f. FoldStart(n, V, none, step)
  BY <1>1, <1>2, <1>3 DEF FoldStart
<1>4. PICK g \in [SUBSET (1 .. n) -> V] : SolvesFold(g, n, V, none, step)
  BY <1>f, FoldHasSolution
<1>5. IsReconcileFold(g, rows, order)
  <2>1. ASSUME NEW S \in SUBSET (1 .. n), S # {}
        PROVE  g[S] = MergeLogs(g[S \ {Max(S)}], Partition(rows, order[Max(S)]))
    <3>1. Max(S) \in 1 .. n /\ S \ {Max(S)} \in SUBSET (1 .. n)
      BY <1>1, <2>1, FoldPicks
    <3> QED BY <1>2, <1>4, <2>1, <3>1 DEF SolvesFold
  <2>2. g[{}] = none
    BY <1>4 DEF SolvesFold
  <2> QED BY <1>1, <2>1, <2>2 DEF IsReconcileFold
<1>6. IsReconcileFold(w, rows, order)
  BY <1>5
<1> HIDE DEF w
<1>7. \A S \in SUBSET (1 .. n) :
        w[S] = IF S = {} THEN none ELSE MergeLogs(w[S \ {Max(S)}], Partition(rows, order[Max(S)]))
  BY <1>1, <1>6 DEF IsReconcileFold
<1>8. SolvesFold(w, n, V, none, step)
  <2>1. ASSUME NEW S \in SUBSET (1 .. n), S # {}, w[S \ {Max(S)}] \in V
        PROVE  w[S] = step[Max(S)][w[S \ {Max(S)}]]
    <3>1. Max(S) \in 1 .. n
      BY <1>1, <2>1, FoldPicks
    <3> QED BY <1>2, <1>7, <2>1, <3>1
  <2> QED BY <1>7, <2>1 DEF SolvesFold
<1>10. PICK f : IsRunOf(f, n, V, none, step) /\ f[n] = w[1 .. n]
  BY <1>f, <1>8, FoldRuns
<1>11. IsReconcileRun(f, rows, order, m)
  <2>1. \A k \in 1 .. n : f[k - 1] \in V
    <3>1. \A k \in 1 .. n : k - 1 \in 0 .. n
      BY <1>1
    <3> QED BY <1>10, <3>1 DEF IsRunOf
  <2> QED BY <1>2, <1>10, <2>1 DEF IsRunOf, IsReconcileRun, n, V
<1> QED
  BY <1>1, <1>10, <1>11, ReconciledIsFold DEF w, n

\* They hold every op that a row of theirs brought.
LEMMA ReconciledHolds ==
  ASSUME NEW rows \in Seq(Row), NEW tr, Consistent(rows, tr),
         NEW order, NEW m \in Nat, DOMAIN order = 1 .. m
  PROVE  Holds(Reconciled(rows, order),
               UNION {OwnOps(rows, order[j], Len(rows)) : j \in 1 .. m}, tr)
<1>1. PICK f : IsReconcileRun(f, rows, order, m) /\ Reconciled(rows, order) = f[m]
  BY ReconcileRuns
<1> DEFINE Own(j) == OwnOps(rows, order[j], Len(rows))
           Sofar(k) == UNION {Own(j) : j \in 1 .. k}
           C == {k \in 0 .. m : Holds(f[k], Sofar(k), tr)}
<1>2. \A j \in 1 .. m : Holds(Partition(rows, order[j]), Own(j), tr)
  BY PartitionHolds
<1> HIDE DEF Own
<1>3. 0 \in C
  <2>1. Sofar(0) = {}
    OBVIOUS
  <2>2. Holds(f[0], {}, tr)
    BY <1>1, EmptyHolds DEF IsReconcileRun
  <2> HIDE DEF Sofar
  <2>3. Holds(f[0], Sofar(0), tr)
    BY <2>1, <2>2
  <2> QED BY <2>3
<1>4. ASSUME NEW k \in 0 .. m - 1, k \in C
      PROVE  k + 1 \in C
  <2>1. k + 1 \in 1 .. m /\ k + 1 \in 0 .. m /\ (k + 1) - 1 = k
    OBVIOUS
  <2>2. f[k + 1] = MergeLogs(f[k], Partition(rows, order[k + 1]))
    BY <1>1, <2>1 DEF IsReconcileRun
  <2>3. Sofar(k + 1) = Sofar(k) \cup Own(k + 1)
    <3>1. 1 .. k + 1 = (1 .. k) \cup {k + 1}
      OBVIOUS
    <3> QED BY <3>1
  <2>4. Holds(f[k], Sofar(k), tr)
    BY <1>4
  <2>5. Carries(Partition(rows, order[k + 1]), Own(k + 1), tr)
    BY <1>2, <2>1 DEF Holds
  <2> HIDE DEF Sofar
  <2>6. Holds(f[k + 1], Sofar(k + 1), tr)
    BY <2>2, <2>3, <2>4, <2>5, MergeHolds
  <2> QED BY <2>1, <2>6
<1>5. 0 .. m \subseteq C
  <2> HIDE DEF C
  <2> QED BY <1>3, <1>4, UpTo
<1>6. m \in 0 .. m
  OBVIOUS
<1> QED
  BY <1>1, <1>5, <1>6 DEF Own

----------------------------------------------------------------------------
(* The verdict on a scenario.                                              *)

Ops == InIdOrder(DOMAIN unique)
Indices == 0 .. replicas - 1
Doc(i) == DocumentOf(OrderForReplica(Ops, i), unique)

\* What holds of every scenario: the ops read are those of the rows, on their tracks, and a
\* report says CONVERGED and shows what every replica holds.
LabInv ==
  /\ LabTypeOK
  /\ DOMAIN unique = {delivered[j].op : j \in DOMAIN delivered}
  /\ Consistent(delivered, unique)
  /\ \A j \in DOMAIN delivered : delivered[j].origin \in Indices
  /\ Reported => /\ delivered # <<>>
                 /\ report.status = "CONVERGED"
                 /\ report.final = [i \in Indices |-> Snapshot(Doc(i))]

\* The ops of a scenario that has rows.
LEMMA ScenarioOps ==
  ASSUME LabInv, delivered # <<>>
  PROVE  /\ DOMAIN unique \in SUBSET LabOp /\ DOMAIN unique # {} /\ IsFiniteSet(DOMAIN unique)
         /\ unique \in [DOMAIN unique -> Track]
         /\ IsOrderOf(Ops, DOMAIN unique)
         /\ replicas \in Nat /\ replicas >= 2
<1>1. /\ unique \in [DOMAIN unique -> Track] /\ DOMAIN unique \in SUBSET LabOp
      /\ delivered \in Seq(Row)
      /\ DOMAIN unique = {delivered[j].op : j \in DOMAIN delivered}
  BY DEF LabInv, LabTypeOK
<1>2. IsFiniteSet(DOMAIN unique)
  BY <1>1, LabAssumption, FS_Subset
<1>3. DOMAIN unique # {}
  <2>1. Len(delivered) \in Nat \ {0} /\ DOMAIN delivered = 1 .. Len(delivered)
    BY <1>1, EmptySeq
  <2>2. 1 \in DOMAIN delivered
    BY <2>1
  <2> QED BY <1>1, <2>2
<1>4. IsOrderOf(Ops, DOMAIN unique)
  BY <1>1, <1>2, InIdOrderIs DEF Ops
<1>5. replicas \in Nat /\ replicas >= 2
  <2>1. replicas \in Nat \ {0, 1}
    BY LabAssumption DEF LabInv, LabTypeOK
  <2> QED BY <2>1
<1> QED
  BY <1>1, <1>2, <1>3, <1>4, <1>5

\* Every replica ends with all the ops.
LEMMA ReplicasHold ==
  ASSUME LabInv, delivered # <<>>, NEW i \in Indices
  PROVE  Holds(Doc(i), DOMAIN unique, unique)
<1>1. i \in Nat
  BY ScenarioOps DEF Indices
<1>2. IsOrderOf(OrderForReplica(Ops, i), DOMAIN unique)
  BY <1>1, ScenarioOps, OrderForReplicaIs
<1> QED
  BY <1>2, ScenarioOps, DocumentHolds DEF Doc

\* Adding the ops again changes no replica.
LEMMA ReplaysChangeNothing ==
  ASSUME LabInv, delivered # <<>>, NEW i \in Indices
  PROVE  ReplayChangesNothing(Doc(i), Ops, unique)
<1> DEFINE D == DOMAIN unique
           again == MergeLogs(Doc(i), DocumentOf(Ops, unique))
<1>1. Holds(Doc(i), D, unique)
  BY ReplicasHold
<1>2. Holds(DocumentOf(Ops, unique), D, unique)
  BY ScenarioOps, DocumentHolds
<1>3. Holds(again, D \cup D, unique)
  BY <1>1, <1>2, LogsMerge
<1>4. D \cup D = D
  OBVIOUS
<1> HIDE DEF D, again
<1>5. Digests(again) = Digests(Doc(i)) /\ Len(again) = Len(Doc(i))
  BY <1>1, <1>3, <1>4, SameOpsSameSnapshot
<1> QED
  BY <1>5 DEF ReplayChangesNothing, again

\* crdt.py, of merge: "Commutative, associative, idempotent - order of merges does not affect
\* the final state".  So it is, whatever logs are merged and in whatever order each log took
\* in its ops, as long as the documents have the same op on the same track.
THEOREM MergeIsAJoin ==
  ASSUME NEW tr, NEW P, NEW Q, NEW R, NEW a, NEW b, NEW c,
         Holds(a, P, tr), Holds(b, Q, tr), Holds(c, R, tr)
  PROVE  /\ Snapshot(MergeLogs(a, b)) = Snapshot(MergeLogs(b, a))
         /\ Snapshot(MergeLogs(MergeLogs(a, b), c)) = Snapshot(MergeLogs(a, MergeLogs(b, c)))
         /\ Snapshot(MergeLogs(a, a)) = Snapshot(a) /\ Len(MergeLogs(a, a)) = Len(a)
<1>1. Holds(MergeLogs(a, b), P \cup Q, tr) /\ Holds(MergeLogs(b, a), Q \cup P, tr)
  BY LogsMerge
<1>2. Holds(MergeLogs(b, c), Q \cup R, tr) /\ Holds(MergeLogs(a, a), P \cup P, tr)
  BY LogsMerge
<1>3. /\ Holds(MergeLogs(MergeLogs(a, b), c), (P \cup Q) \cup R, tr)
      /\ Holds(MergeLogs(a, MergeLogs(b, c)), P \cup (Q \cup R), tr)
  BY <1>1, <1>2, LogsMerge
<1>4. P \cup Q = Q \cup P /\ (P \cup Q) \cup R = P \cup (Q \cup R) /\ P \cup P = P
  OBVIOUS
<1>5. /\ Holds(MergeLogs(b, a), P \cup Q, tr)
      /\ Holds(MergeLogs(a, MergeLogs(b, c)), (P \cup Q) \cup R, tr)
      /\ Holds(MergeLogs(a, a), P, tr)
  BY <1>1, <1>2, <1>3, <1>4, Zenon
<1>6. ASSUME NEW T, NEW x, NEW y, Holds(x, T, tr), Holds(y, T, tr)
      PROVE  Snapshot(x) = Snapshot(y) /\ Len(x) = Len(y)
  BY <1>6, SameOpsSameSnapshot
<1>7. Snapshot(MergeLogs(a, b)) = Snapshot(MergeLogs(b, a))
  BY <1>1, <1>5, <1>6
<1>8. Snapshot(MergeLogs(MergeLogs(a, b), c)) = Snapshot(MergeLogs(a, MergeLogs(b, c)))
  BY <1>3, <1>5, <1>6
<1>9. Snapshot(MergeLogs(a, a)) = Snapshot(a) /\ Len(MergeLogs(a, a)) = Len(a)
  BY <1>5, <1>6
<1> QED
  BY <1>7, <1>8, <1>9

\* The merges that the lab samples do not depend on their order or grouping.
LEMMA SamplesAgree ==
  ASSUME LabInv, delivered # <<>>
  PROVE  Commutes(Ops, unique) /\ Associates(Ops, unique)
<1> DEFINE D == DOMAIN unique
           Slice(step, offset) == DocumentOf(Every(Ops, step, offset), unique)
<1>0. D \in SUBSET LabOp /\ unique \in [D -> Track] /\ IsOrderOf(Ops, D)
  BY ScenarioOps
<1> HIDE DEF D
<1>1. ASSUME NEW step \in {2, 3}, NEW offset \in 0 .. 2, offset < step
      PROVE  \E P : Holds(Slice(step, offset), P, unique)
  <2>1. PICK P \in SUBSET D : IsOrderOf(Every(Ops, step, offset), P)
    BY <1>0, <1>1, SliceIs
  <2> QED BY <1>0, <2>1, DocumentHolds
<1>2. Commutes(Ops, unique)
  <2> DEFINE a == Slice(2, 0)
             b == Slice(2, 1)
  <2>1. PICK P : Holds(a, P, unique)
    BY <1>1
  <2>2. PICK Q : Holds(b, Q, unique)
    BY <1>1
  <2> HIDE DEF a, b
  <2>3. Snapshot(MergeLogs(a, b)) = Snapshot(MergeLogs(b, a))
    <3>1. ASSUME NEW x, NEW y, Holds(x, P, unique), Holds(y, Q, unique)
          PROVE  Snapshot(MergeLogs(x, y)) = Snapshot(MergeLogs(y, x))
      BY <3>1, MergeIsAJoin
    <3> QED BY <2>1, <2>2, <3>1
  <2> QED BY <2>3, Zenon DEF Commutes, a, b
<1>3. Associates(Ops, unique)
  <2> DEFINE a == Slice(3, 0)
             b == Slice(3, 1)
             c == Slice(3, 2)
  <2>1. PICK P : Holds(a, P, unique)
    BY <1>1
  <2>2. PICK Q : Holds(b, Q, unique)
    BY <1>1
  <2>3. PICK R : Holds(c, R, unique)
    BY <1>1
  <2> HIDE DEF a, b, c
  <2>4. Snapshot(MergeLogs(MergeLogs(a, b), c)) = Snapshot(MergeLogs(a, MergeLogs(b, c)))
    BY <2>1, <2>2, <2>3, MergeIsAJoin
  <2> QED BY <2>4, Zenon DEF Associates, a, b, c
<1> QED
  BY <1>2, <1>3

LEMMA LabInvInit == LabInit => LabInv
<1> SUFFICES ASSUME LabInit PROVE LabInv
  OBVIOUS
<1>1. replicas \in Replicas /\ delivered = <<>> /\ unique = EmptyDoc /\ report = NoReport
  BY DEF LabInit
<1>2. DOMAIN unique = {} /\ unique \in [DOMAIN unique -> Track]
  BY <1>1 DEF EmptyDoc
<1>3. delivered \in Seq(Row) /\ DOMAIN delivered = {}
  BY <1>1, EmptySeq
<1>4. report.status = "READING" /\ ~ Reported
  BY <1>1 DEF NoReport, Reported
<1> QED
  BY <1>1, <1>2, <1>3, <1>4 DEF LabInv, LabTypeOK, Consistent

LEMMA ReadingKeepsInv ==
  ASSUME LabInv, NEW row \in Row, row.origin \in Indices, ReadRow(row)
  PROVE  LabInv'
<1>0. /\ replicas \in Replicas /\ delivered \in Seq(Row)
      /\ unique \in [DOMAIN unique -> Track] /\ DOMAIN unique \subseteq LabOp
      /\ DOMAIN unique = {delivered[j].op : j \in DOMAIN delivered}
      /\ Consistent(delivered, unique)
      /\ \A j \in DOMAIN delivered : delivered[j].origin \in Indices
  BY DEF LabInv, LabTypeOK
<1>1. report = NoReport /\ replicas' = replicas
  BY DEF ReadRow
<1>2. Indices' = Indices
  BY <1>1 DEF Indices
<1>3. CASE Conflicts(row.op, row.track)
  <2>1. report' = Refused /\ delivered' = delivered /\ unique' = unique
    BY <1>3 DEF ReadRow
  <2>2. report'.status = "REFUSED" /\ ~ Reported'
    BY <2>1 DEF Refused, Reported
  <2> QED BY <1>0, <1>1, <1>2, <2>1, <2>2 DEF LabInv, LabTypeOK, Consistent
<1>4. CASE ~ Conflicts(row.op, row.track)
  <2> DEFINE n == Len(delivered)
  <2>1. /\ delivered' = Append(delivered, row) /\ report' = report
        /\ unique' = [o \in DOMAIN unique \cup {row.op} |->
                        IF o \in DOMAIN unique THEN unique[o] ELSE row.track]
    BY <1>4 DEF ReadRow
  <2>2. report'.status = "READING" /\ ~ Reported'
    BY <1>1, <2>1 DEF NoReport, Reported
  <2>3. /\ n \in Nat /\ delivered' \in Seq(Row)
        /\ DOMAIN delivered = 1 .. n /\ DOMAIN delivered' = 1 .. n + 1
        /\ delivered'[n + 1] = row /\ \A j \in 1 .. n : delivered'[j] = delivered[j]
    BY <1>0, <2>1
  <2> HIDE DEF n
  <2>4. 1 .. n + 1 = (1 .. n) \cup {n + 1}
    BY <2>3
  <2>5. row.op \in LabOp /\ row.track \in Track
    BY DEF Row
  <2>6. /\ DOMAIN unique' = DOMAIN unique \cup {row.op}
        /\ unique' \in [DOMAIN unique' -> Track] /\ DOMAIN unique' \subseteq LabOp
        /\ unique'[row.op] = row.track
        /\ \A o \in DOMAIN unique : unique'[o] = unique[o]
    BY <1>0, <1>4, <2>1, <2>5 DEF Conflicts
  <2>7. DOMAIN unique' = {delivered'[j].op : j \in DOMAIN delivered'}
    BY <1>0, <2>3, <2>4, <2>6
  <2>8. Consistent(delivered', unique')
    <3>1. \A j \in 1 .. n : delivered[j].op \in DOMAIN unique
      BY <1>0, <2>3
    <3>2. \A j \in 1 .. n : delivered'[j].track = unique'[delivered'[j].op]
      <4> TAKE j \in 1 .. n
      <4>1. delivered[j].track = unique[delivered[j].op]
        BY <1>0, <2>3 DEF Consistent
      <4> QED BY <2>3, <2>6, <3>1, <4>1
    <3>3. delivered'[n + 1].track = unique'[delivered'[n + 1].op]
      BY <2>3, <2>6
    <3> QED BY <2>3, <2>4, <3>2, <3>3 DEF Consistent
  <2>9. \A j \in DOMAIN delivered' : delivered'[j].origin \in Indices
    BY <1>0, <2>3, <2>4
  <2> QED BY <1>0, <1>1, <1>2, <2>2, <2>3, <2>6, <2>7, <2>8, <2>9 DEF LabInv, LabTypeOK, Consistent
<1> QED
  BY <1>3, <1>4

LEMMA SimulatingKeepsInv ==
  ASSUME LabInv, Simulate
  PROVE  LabInv'
<1>0. /\ delivered # <<>>
      /\ UNCHANGED <<replicas, delivered, unique>>
  BY DEF Simulate
<1> DEFINE doc == [i \in Indices |-> Doc(i)]
           converged == Cardinality({Digests(doc[i]) : i \in Indices}) = 1
           idempotent == \A i \in Indices : ReplayChangesNothing(doc[i], Ops, unique)
           verdict == IF converged /\ idempotent /\ Commutes(Ops, unique) /\ Associates(Ops, unique)
                      THEN "CONVERGED" ELSE "DIVERGED"
<1>1. report' = [status |-> verdict, final |-> [i \in Indices |-> Snapshot(doc[i])]]
  BY DEF Simulate, Ops, Indices, Doc
<1>2. \A i \in Indices : doc[i] = Doc(i)
  OBVIOUS
<1> HIDE DEF doc
<1>3. converged
  <2>1. 0 \in Indices
    BY <1>0, ScenarioOps DEF Indices
  <2>2. \A i \in Indices : Digests(doc[i]) = Digests(doc[0])
    BY <1>0, <1>2, <2>1, ReplicasHold, SameOpsSameSnapshot
  <2>3. {Digests(doc[i]) : i \in Indices} = {Digests(doc[0])}
    BY <2>1, <2>2
  <2> QED BY <2>3, FS_Singleton
<1>4. idempotent
  BY <1>0, <1>2, ReplaysChangeNothing
<1>5. Commutes(Ops, unique) /\ Associates(Ops, unique)
  BY <1>0, SamplesAgree
<1> HIDE DEF converged, idempotent
<1>6. /\ report'.status = "CONVERGED"
      /\ report'.final = [i \in Indices |-> Snapshot(Doc(i))]
  BY <1>1, <1>2, <1>3, <1>4, <1>5
<1>7. Indices' = Indices /\ \A i : Doc(i)' = Doc(i)
  BY <1>0 DEF Indices, Doc, Ops
<1> QED
  BY <1>0, <1>6, <1>7 DEF LabInv, LabTypeOK, Consistent

LEMMA LabInvStep == LabInv /\ [LabNext]_labVars => LabInv'
<1> SUFFICES ASSUME LabInv, [LabNext]_labVars PROVE LabInv'
  OBVIOUS
<1>1. ASSUME NEW o \in LabOp, NEW track \in Track, NEW i \in 0 .. replicas - 1,
             ReadRow([op |-> o, track |-> track, origin |-> i])
      PROVE  LabInv'
  <2> DEFINE row == [op |-> o, track |-> track, origin |-> i]
  <2>1. i \in Nat
    OBVIOUS
  <2>2. row \in Row /\ row.origin \in Indices
    BY <2>1 DEF Row, Indices
  <2> HIDE DEF row
  <2> QED BY <1>1, <2>2, ReadingKeepsInv DEF row
<1>2. CASE Simulate
  BY <1>2, SimulatingKeepsInv
<1>3. CASE UNCHANGED labVars
  BY <1>3 DEF labVars, LabInv, LabTypeOK, Consistent, Reported, Indices, Doc, Ops
<1> QED
  BY <1>1, <1>2, <1>3 DEF LabNext

\* The invariant gives the three properties of a report.
LEMMA LabInvImplies ==
  LabInv => LabTypeOK /\ ScenariosConverge /\ FoldsAreMaxima /\ PartitionsReconcile
<1> SUFFICES ASSUME LabInv
             PROVE  ScenariosConverge /\ FoldsAreMaxima /\ PartitionsReconcile
  BY DEF LabInv
<1>0. delivered \in Seq(Row) /\ Consistent(delivered, unique)
  BY DEF LabInv, LabTypeOK
<1>1. ScenariosConverge
  BY DEF LabInv, ScenariosConverge
<1>2. FoldsAreMaxima
  <2> SUFFICES ASSUME Reported, NEW i \in DOMAIN report.final
               PROVE  LET log == Partition(delivered, i)
                          doc == AsDocument(log)
                      IN  Digests(log) = <<AuthorizedView(doc), ObservedView(doc), Heads(doc)>>
    BY DEF FoldsAreMaxima
  <2>1. Holds(Partition(delivered, i), OwnOps(delivered, i, Len(delivered)), unique)
    BY <1>0, PartitionHolds
  <2> QED BY <2>1, DigestsAreMaxima
<1>3. PartitionsReconcile
  <2> SUFFICES ASSUME Reported, NEW order \in SetToSeqs(DOMAIN report.final),
                      NEW i \in DOMAIN report.final
               PROVE  Snapshot(Reconciled(delivered, order)) = report.final[i]
    BY DEF PartitionsReconcile, Reconciled
  <2>1. /\ delivered # <<>>
        /\ report.final = [j \in Indices |-> Snapshot(Doc(j))]
        /\ DOMAIN unique = {delivered[j].op : j \in DOMAIN delivered}
        /\ \A j \in DOMAIN delivered : delivered[j].origin \in Indices
    BY DEF LabInv
  <2>2. DOMAIN report.final = Indices
    BY <2>1
  <2>3. /\ Cardinality(Indices) \in Nat /\ DOMAIN order = 1 .. Cardinality(Indices)
        /\ \A r \in Indices : \E j \in DOMAIN order : order[j] = r
    <3>0. replicas \in Replicas
      BY DEF LabInv, LabTypeOK
    <3>1. replicas - 1 \in Int
      BY <3>0, LabAssumption
    <3>2. IsFiniteSet(Indices)
      BY <3>1, FS_Interval DEF Indices
    <3> QED BY <2>2, <3>2, SeqsAreOnto
  <2> DEFINE m == Cardinality(Indices)
             n == Len(delivered)
             Own(j) == OwnOps(delivered, order[j], n)
  <2>4. Holds(Reconciled(delivered, order), UNION {Own(j) : j \in 1 .. m}, unique)
    <3> HIDE DEF m
    <3> QED BY <1>0, <2>3, ReconciledHolds DEF m
  <2>5. DOMAIN delivered = 1 .. n
    BY <1>0
  <2> HIDE DEF m, n
  <2>6. UNION {Own(j) : j \in 1 .. m} = DOMAIN unique
    <3>1. ASSUME NEW o \in DOMAIN unique
          PROVE  \E j \in 1 .. m : o \in Own(j)
      <4>1. PICK k \in 1 .. n : delivered[k].op = o /\ delivered[k].origin \in Indices
        BY <2>1, <2>5
      <4>2. PICK j \in 1 .. m : order[j] = delivered[k].origin
        BY <2>3, <4>1 DEF m
      <4> QED BY <4>1, <4>2 DEF OwnOps, OwnRows
    <3>2. ASSUME NEW j \in 1 .. m, NEW o \in Own(j)
          PROVE  o \in DOMAIN unique
      BY <2>1, <2>5 DEF OwnOps, OwnRows
    <3> HIDE DEF Own
    <3> QED BY <3>1, <3>2
  <2>7. Holds(Reconciled(delivered, order), DOMAIN unique, unique)
    <3> HIDE DEF Own
    <3> QED BY <2>4, <2>6
  <2>8. Holds(Doc(i), DOMAIN unique, unique) /\ report.final[i] = Snapshot(Doc(i))
    BY <2>1, <2>2, ReplicasHold
  <2> QED BY <2>7, <2>8, SameOpsSameSnapshot
<1> QED
  BY <1>1, <1>2, <1>3

----------------------------------------------------------------------------
(* The three together.                                                     *)

LEMMA PartsInit == Init => LedgerInit /\ LabInit /\ MergeInit
BY DEF Init

\* A step of the composition is one of its parts, or leaves them alone.
LEMMA PartsStep ==
  [Next]_vars => [LedgerNext]_ledgerVars /\ [LabNext]_labVars /\ [MergeNext]_mergeVars
BY DEF Next, vars

\* A behaviour of the three is one of the ledger, whose theorems therefore hold of it.
THEOREM LedgerIsAPart == Spec => LedgerSpec
BY PartsInit, PartsStep, PTL DEF Spec, LedgerSpec

LEMMA LabInvHolds == Spec => []LabInv
BY PartsInit, PartsStep, LabInvInit, LabInvStep, PTL DEF Spec

LEMMA MergeInvHolds == Spec => []MergeInv
BY PartsInit, PartsStep, MergeInvInit, MergeInvStep, PTL DEF Spec

\* The state of the ledger (quorum.py), of the lab (lab/simulator.py) and of the merge
\* (mesh_command/app.py) has its type.
THEOREM TypeCorrect == Spec => []TypeOK
<1>1. LedgerTypeOK /\ LabTypeOK /\ MergeTypeOK <=> TypeOK
  BY DEF TypeOK
<1> QED
  BY <1>1, LedgerIsAPart, LedgerTypeCorrect, LabInvHolds, LabInvImplies, MergeInvHolds,
     MergeInvImplies, PTL

\* Every scenario that the lab accepts converges, however many rows and replicas it has: no
\* order of _order_for_replica, no replay and neither sampled merge makes a difference
\* (simulate_scenario).
THEOREM AcceptedScenariosConverge == Spec => []ScenariosConverge
BY LabInvHolds, LabInvImplies, PTL

\* Folding a log in its order of arrival, as _materialise and heads do, yields what the set
\* of its ops determines: the views and heads that the nodes of the mesh are modelled by.
THEOREM LogsShowTheirOpSets == Spec => []FoldsAreMaxima
BY LabInvHolds, LabInvImplies, PTL

\* The partitions of an accepted scenario, merged in any order, show what its report says.
THEOREM PartitionsMergeToTheReport == Spec => []PartitionsReconcile
BY LabInvHolds, LabInvImplies, PTL

\* The reply to a merge request does not depend on the order of its snapshots
\* (merge_snapshots).
THEOREM MergesForgetArrival == Spec => []ArrivalIndependent
BY MergeInvHolds, MergeInvImplies, PTL

\* A snapshot counts all that the merged clock counts just when no relation of the reply puts
\* it before, or beside, another (compare_clocks).
THEOREM MergedRelationsAgree == Spec => []RelationsAgreeWithClock
BY MergeInvHolds, MergeInvImplies, PTL
=============================================================================
