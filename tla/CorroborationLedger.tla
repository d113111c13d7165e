------------------------ MODULE CorroborationLedger ------------------------
(***************************************************************************)
(* The corroboration ledger of src/szl_mesh/quorum.py: a collector notes   *)
(* which nodes say they observed a change, and calls the change            *)
(* CORROBORATED once enough of them do.  Collectors hear of observations   *)
(* in any order and any number of times; an honest node reports what it    *)
(* has sighted, a Byzantine one reports what it likes.                     *)
(***************************************************************************)
EXTENDS Integers, FiniteSets, Sequences, SequencesExt

CONSTANTS
  Collector, Reporter, Change, Class,
  Window,      \* the ends of windows that callers of observe name
  Byzantine,   \* the reporters that need not have sighted what they report
  K            \* the policies: a threshold for some of the classes

ASSUME ReporterAssumption == IsFiniteSet(Reporter) /\ Byzantine \subseteq Reporter
ASSUME ThresholdAssumption == K \in [DOMAIN K -> Nat]

VARIABLES
  sighted,   \* what the honest reporters have really observed
  entries,   \* per collector, its annotation of each change
  heard      \* history: per collector, the calls of observe it has received

ledgerVars == <<sighted, entries, heard>>

Honest == Reporter \ Byzantine
Status == {"PENDING", "CORROBORATED", "FAILED"}

\* corroborating_nodes is a list, in order of arrival.
Entry == [status : Status, nodes : Seq(Reporter), k : Nat, class : Class, window : Window]

\* A change nobody has reported has no annotation; mark_failed creates none.
NoEntry == [status |-> "PENDING", nodes |-> <<>>]

Report == [node : Reporter, change : Change, class : Class]

LedgerTypeOK ==
  /\ sighted \subseteq Honest \X Change
  /\ entries \in [Collector -> [Change -> Entry \cup {NoEntry}]]
  /\ heard \in [Collector -> SUBSET Report]

\* policy_for: the threshold of a class, two for a class without a policy.
KFor(class) == IF class \in DOMAIN K THEN K[class] ELSE 2

LedgerInit ==
  /\ sighted = {}
  /\ entries = [c \in Collector |-> [ch \in Change |-> NoEntry]]
  /\ heard = [c \in Collector |-> {}]

\* Outside the program: an honest reporter sees a change.
Sight(r, ch) ==
  /\ r \in Honest
  /\ sighted' = sighted \cup {<<r, ch>>}
  /\ UNCHANGED <<entries, heard>>

\* Faulty variant: one observation fewer than the threshold is enough.
CorroboratedEarly(nodes, class) == Cardinality(ToSet(nodes)) + 1 >= KFor(class)

\* The status is decided by the threshold of the class that this call names.
Corroborated(nodes, class) == Cardinality(ToSet(nodes)) >= KFor(class)

\* The first report of a change makes its entry, with its class, threshold and window.
Opened(e, class, window) ==
  IF e = NoEntry
  THEN [status |-> "PENDING", nodes |-> <<>>, k |-> KFor(class), class |-> class,
        window |-> window]
  ELSE e

\* A node that is not on the list is appended to it.
Entered(nodes, r) == IF r \in ToSet(nodes) THEN nodes ELSE Append(nodes, r)

\* Faulty variant: the observations are counted before the new one is entered.
NotedBefore(e, r, class) ==
  [e EXCEPT !.nodes = Entered(@, r),
            !.status = IF @ # "FAILED" /\ Corroborated(e.nodes, class)
                       THEN "CORROBORATED" ELSE @]

\* observe, on an entry that exists: the node is entered once, and its report may
\* corroborate the entry unless that was marked failed.
Noted(e, r, class) ==
  [e EXCEPT !.nodes = Entered(@, r),
            !.status = IF @ # "FAILED" /\ Corroborated(Entered(e.nodes, r), class)
                       THEN "CORROBORATED" ELSE @]

Observe(c, r, ch, class, window) ==
  /\ r \in Byzantine \/ <<r, ch>> \in sighted
  /\ entries' = [entries EXCEPT ![c][ch] = Noted(Opened(@, class, window), r, class)]
  /\ heard' = [heard EXCEPT ![c] = @ \cup {[node |-> r, change |-> ch, class |-> class]}]
  /\ UNCHANGED sighted

\* Faulty variant: an annotation is marked failed where there is none.
FailedEntry(e) == [status |-> "FAILED", nodes |-> e.nodes]

\* mark_failed, whatever the status of the entry.
Failed(e) == IF e = NoEntry THEN e ELSE [e EXCEPT !.status = "FAILED"]

MarkFailed(c, ch) ==
  /\ entries' = [entries EXCEPT ![c][ch] = Failed(@)]
  /\ UNCHANGED <<sighted, heard>>

LedgerNext ==
  \/ \E r \in Reporter, ch \in Change : Sight(r, ch)
  \/ \E c \in Collector, r \in Reporter, ch \in Change, class \in Class, window \in Window :
       Observe(c, r, ch, class, window)
  \/ \E c \in Collector, ch \in Change : MarkFailed(c, ch)

LedgerSpec == LedgerInit /\ [][LedgerNext]_ledgerVars

----------------------------------------------------------------------------
(* What a reader makes of the annotations.                                 *)

\* combined_classification: the confidence that a receipt and an annotation give together.
Confidence(receipt, status) ==
  CASE receipt = "AUTHORIZED" /\ status = "CORROBORATED" -> "highest"
    [] receipt = "AUTHORIZED" /\ status = "PENDING" -> "high"
    [] receipt = "AUTHORIZED" /\ status = "FAILED" -> "alert"
    [] receipt = "OBSERVED" /\ status = "CORROBORATED" -> "medium"
    [] receipt = "OBSERVED" /\ status = "PENDING" -> "low"
    [] OTHER -> "unknown"

Heard(c, ch) == {h \in heard[c] : h.change = ch}

\* Soft safety, as far as the code goes: when a collector gives a value the confidence of
\* corroboration, and every report of it named a class whose threshold exceeds the number
\* of Byzantine reporters, then an honest reporter has observed the value.
SoftSafety ==
  \A c \in Collector, ch \in Change :
    (/\ Confidence("OBSERVED", entries[c][ch].status) = "medium"
     /\ \A h \in Heard(c, ch) : KFor(h.class) > Cardinality(Byzantine))
      => \E r \in Honest : <<r, ch>> \in sighted

\* What two annotations have in common that differ only in the order of their nodes and in
\* the window that the first caller named.
SameAnnotation(e, f) ==
  /\ e.status = f.status
  /\ ToSet(e.nodes) = ToSet(f.nodes)
  /\ e # NoEntry /\ f # NoEntry => e.k = f.k /\ e.class = f.class

\* "Concurrent observations from multiple collectors converge": two collectors that heard
\* the same reports of a value, all of one class and in whatever order and number, hold the
\* same nodes, each listed once, the same status, class and threshold, unless one of them
\* marked the value failed.  (Neither the order of the list nor the window need agree.)
CollectorsAgree ==
  \A c, d \in Collector, ch \in Change :
    (/\ Heard(c, ch) = Heard(d, ch)
     /\ \A g, h \in Heard(c, ch) : g.class = h.class
     /\ "FAILED" \notin {entries[c][ch].status, entries[d][ch].status})
      => /\ SameAnnotation(entries[c][ch], entries[d][ch])
         /\ IsInjective(entries[c][ch].nodes)
=============================================================================
