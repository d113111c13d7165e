--------------------------- MODULE SnapshotMerge ---------------------------
(***************************************************************************)
(* The snapshot merge of the mesh command service, mesh_command/app.py:    *)
(* an operator submits the snapshots of some sites, each with a vector     *)
(* clock and a register per name, and gets the registers that win, the     *)
(* conflicts, the joined clock and how the clocks relate.                  *)
(***************************************************************************)
EXTENDS Integers, Sequences, FiniteSets, SequencesExt

CONSTANTS
  Site,         \* node ids and writers: of the strings only the order matters
  Name,         \* the keys of registers
  Register,     \* the registers that snapshots carry
  Clock,        \* the clocks they carry: functions from some sites to counters
  MaxSnapshots  \* MAX_NODES

ASSUME SiteAssumption == IsFiniteSet(Site) /\ Site \subseteq Nat
ASSUME RegisterAssumption ==
  Register \subseteq [value : Nat, time : Nat, writer : Site, tombstone : BOOLEAN]
ASSUME ClockAssumption == \A c \in Clock : DOMAIN c \subseteq Site /\ c \in [DOMAIN c -> Nat]

VARIABLES
  request,     \* the snapshots as the operator lists them
  tombstones,  \* include_tombstones
  reply        \* what merge_snapshots returned, NoReply before

mergeVars == <<request, tombstones, reply>>

SiteSnapshot ==
  [site : Site, clock : Clock, registers : UNION {[N -> Register] : N \in SUBSET Name}]

NoReply == [sites |-> <<>>]

----------------------------------------------------------------------------

Counter(clock, s) == IF s \in DOMAIN clock THEN clock[s] ELSE 0

\* Faulty variant: only the sites that the left clock names are compared.
CompareLeft(left, right) ==
  LET le == \A s \in DOMAIN left : Counter(left, s) <= Counter(right, s)
      ge == \A s \in DOMAIN left : Counter(left, s) >= Counter(right, s)
  IN  CASE le /\ ge -> "equal" [] le /\ ~ ge -> "before"
        [] ge /\ ~ le -> "after" [] OTHER -> "concurrent"

\* compare_clocks: a site that a clock does not name counts as zero.
CompareClocks(left, right) ==
  LET names == DOMAIN left \cup DOMAIN right
      le == \A s \in names : Counter(left, s) <= Counter(right, s)
      ge == \A s \in names : Counter(left, s) >= Counter(right, s)
  IN  CASE le /\ ge -> "equal" [] le /\ ~ ge -> "before"
        [] ge /\ ~ le -> "after" [] OTHER -> "concurrent"

\* merge_clock.
MergeClock(snapshots) ==
  LET clocks == {snapshots[i].clock : i \in DOMAIN snapshots}
      names == UNION {DOMAIN c : c \in clocks}
  IN  [s \in names |-> Max({Counter(c, s) : c \in clocks})]

\* winner_key, compared left to right; the digest of a value is a number of the model.
Loses(r, q) ==
  \/ r.time < q.time
  \/ r.time = q.time /\ r.writer < q.writer
  \/ r.time = q.time /\ r.writer = q.writer /\ r.value < q.value
  \/ r.time = q.time /\ r.writer = q.writer /\ r.value = q.value /\ ~ r.tombstone /\ q.tombstone

\* Faulty variant: the snapshots stay as the operator listed them.
AsListed(snapshots) == snapshots

\* sorted by node id: stable, so two of one site would stay as they were listed.
BySite(snapshots) ==
  LET Ahead(i, j) == \/ snapshots[i].site < snapshots[j].site
                     \/ snapshots[i].site = snapshots[j].site /\ i < j
      order == CHOOSE order \in SetToSeqs(DOMAIN snapshots) :
                 \A i, j \in DOMAIN order : i < j => Ahead(order[i], order[j])
  IN  [i \in DOMAIN snapshots |-> snapshots[order[i]]]

\* The snapshots that have a register of a name, and the one max picks: the first of those
\* that no other beats.
Candidates(snapshots, n) == {i \in DOMAIN snapshots : n \in DOMAIN snapshots[i].registers}

Winner(snapshots, n) ==
  LET candidates == Candidates(snapshots, n)
  IN  Min({i \in candidates : \A j \in candidates :
             ~ Loses(snapshots[i].registers[n], snapshots[j].registers[n])})

\* merge_snapshots, of sorted snapshots: the registers that won, unless they are tombstones
\* and these were not asked for, and for the names whose registers differ who had one and
\* who won.
MergeSorted(snapshots, include) ==
  LET names == UNION {DOMAIN snapshots[i].registers : i \in DOMAIN snapshots}
      winner == [n \in names |-> snapshots[Winner(snapshots, n)]]
      disputed == {n \in names : \E i, j \in Candidates(snapshots, n) :
                     snapshots[i].registers[n] # snapshots[j].registers[n]}
      pairs == {p \in (DOMAIN snapshots) \X (DOMAIN snapshots) : p[1] < p[2]}
  IN  [sites |-> [i \in DOMAIN snapshots |-> snapshots[i].site],
       clock |-> MergeClock(snapshots),
       registers |-> [n \in {n \in names : include \/ ~ winner[n].registers[n].tombstone} |->
                        <<winner[n].registers[n], winner[n].site>>],
       conflicts |-> [n \in disputed |->
                        <<{snapshots[i].site : i \in Candidates(snapshots, n)}, winner[n].site>>],
       relations |-> [p \in pairs |->
                        [left |-> snapshots[p[1]].site, right |-> snapshots[p[2]].site,
                         relation |-> CompareClocks(snapshots[p[1]].clock,
                                                    snapshots[p[2]].clock)]]]

MergeSnapshots(listed, include) == MergeSorted(BySite(listed), include)

----------------------------------------------------------------------------

MergeTypeOK ==
  /\ request \in Seq(SiteSnapshot) /\ tombstones \in BOOLEAN
  /\ reply.sites \in Seq(Site)

MergeInit == request = <<>> /\ tombstones \in BOOLEAN /\ reply = NoReply

\* The operator lists one more snapshot; MergeRequest refuses two of one site.
Submit(snapshot) ==
  /\ reply = NoReply
  /\ Len(request) < MaxSnapshots
  /\ \A i \in DOMAIN request : request[i].site # snapshot.site
  /\ request' = Append(request, snapshot)
  /\ UNCHANGED <<tombstones, reply>>

Answer ==
  /\ reply = NoReply
  /\ request # <<>>
  /\ reply' = MergeSnapshots(request, tombstones)
  /\ UNCHANGED <<request, tombstones>>

MergeNext ==
  \/ /\ reply = NoReply
     /\ \E snapshot \in SiteSnapshot : Submit(snapshot)
  \/ Answer

----------------------------------------------------------------------------

\* The reply does not depend on the order in which the operator lists the snapshots.
ArrivalIndependent ==
  reply # NoReply =>
    \A order \in SetToSeqs(DOMAIN request) :
      MergeSnapshots([i \in DOMAIN order |-> request[order[i]]], tombstones) = reply

\* The relations, read as an order, agree with the joined clock: the joined clock is no
\* greater than a snapshot's exactly if that snapshot is after or equal to all others.
RelationsAgreeWithClock ==
  reply # NoReply =>
    \A i \in DOMAIN request :
      LET Latest(s) ==
            \A p \in DOMAIN reply.relations :
              LET r == reply.relations[p]
              IN  /\ r.left = s => r.relation \in {"equal", "after"}
                  /\ r.right = s => r.relation \in {"equal", "before"}
          Joined == \A s \in DOMAIN reply.clock :
                      Counter(request[i].clock, s) = reply.clock[s]
      IN  Joined <=> Latest(request[i].site)
=============================================================================
