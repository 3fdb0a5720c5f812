--------------------------------- MODULE Feed ---------------------------------
(***************************************************************************)
(* How other systems follow the published records of MasterData.           *)
(*                                                                         *)
(* A subscriber is sent the events that it wants, projected to what it may *)
(* see (Transform); Dispatch shows that they reach it in order.            *)
(*                                                                         *)
(* A consumer pulls: it loads a snapshot of the records, page by page, and *)
(* goes on with the events whose number is above the one it has reached,   *)
(* which it acknowledges now and then.  The server answers a snapshot      *)
(* request with several statements, outside of any transaction: the page   *)
(* is read before the largest event number is.  Consumers are external:    *)
(* they go on from the number in the last page's answer, drop events that  *)
(* are not newer than the copy they hold, and go back to what they         *)
(* acknowledged when they restart.                                         *)
(***************************************************************************)
EXTENDS MasterData

CONSTANTS
  Subs,        (* subscriptions: event types, filter, field map            *)
  Consumers,
  PageSize,    (* records of a snapshot's page                             *)
  EventLimit,  (* events of a pull                                         *)
  MaxAcks,     (* bound: acknowledgements on their way                     *)
  MaxCrashes   (* bound: restarts of consumers                             *)

ASSUME FeedAssumption ==
  /\ PageSize \in Nat \ {0} /\ EventLimit \in Nat \ {0}
  /\ MaxAcks \in Nat /\ MaxCrashes \in Nat

VARIABLES
  con,     (* the consumers                                                *)
  offset,  (* md_consumer_offset: what each has acknowledged, or NoRow     *)
  acks,    (* the acknowledgements on their way                            *)
  crashes  (* restarts so far                                              *)

feedVars == <<con, offset, acks, crashes>>
allVars  == <<vars, feedVars>>

NoRow == -1

(* from is history: the number of events when the first page was read, and *)
(* then the number above which the consumer is sent all events, or         *)
(* Everything if none was written while it loaded its snapshot.            *)
NewConsumer == [at |-> "list", copy |-> <<>>, page |-> 1, since |-> 0, from |-> 0]

Everything == -1

Newest == Len(log)       \* SELECT MAX(seq)

FeedInit ==
  /\ Init
  /\ con = [p \in Consumers |-> NewConsumer]
  /\ offset = [p \in Consumers |-> NoRow]
  /\ acks = {}
  /\ crashes = 0

Set(p, v) == con' = [con EXCEPT ![p] = v]

-----------------------------------------------------------------------------
(* The snapshot: published records, the newest update_time first.          *)

Before(q, r) ==
  \/ rec[q].time > rec[r].time
  \/ rec[q].time = rec[r].time /\ q > r

Page(n) ==
  {r \in Published :
     LET rank == Cardinality({q \in Published : Before(q, r)}) IN
     (n - 1) * PageSize <= rank /\ rank < n * PageSize}

Copy(r) == [ver |-> rec[r].ver, row |-> rec[r].row]

Loaded(copy, S) == [r \in DOMAIN copy \cup S |-> IF r \in S THEN Copy(r) ELSE copy[r]]

SnapshotList(p) ==
  LET rows == Page(con[p].page)
      full == Cardinality(rows) = PageSize IN
  /\ con[p].at = "list"
  /\ Set(p, [con[p] EXCEPT !.copy = Loaded(@, rows),
                           !.from = IF con[p].page = 1 THEN Newest ELSE @,
                           !.page = IF full THEN @ + 1 ELSE 1,
                           !.at = IF full THEN "list" ELSE "seq"])
  /\ UNCHANGED <<vars, offset, acks, crashes>>

(* The largest number is read by a later statement of the same request; if *)
(* that statement fails, the answer is 0, and the whole log is sent again. *)
SnapshotSeq(p) ==
  /\ con[p].at = "seq"
  /\ \E seq \in {Newest, 0} :
       Set(p, [con[p] EXCEPT !.at = "follow", !.since = seq,
                             !.from = IF @ = Newest THEN Everything ELSE seq])
  /\ UNCHANGED <<vars, offset, acks, crashes>>

-----------------------------------------------------------------------------
(* Events.                                                                 *)

(* A copy after an event: a merge takes the victims away.                  *)
Apply(copy, e) ==
  LET kept == [r \in DOMAIN copy \ e.gone |-> copy[r]]
      new  == [ver |-> e.ver, row |-> e.row] IN
  IF e.rec \in DOMAIN kept /\ kept[e.rec].ver >= e.ver THEN kept
  ELSE [r \in DOMAIN kept \cup {e.rec} |-> IF r = e.rec THEN new ELSE kept[r]]

(* nextSince: the largest number of the page.                              *)
NextSince(since) == IF since + EventLimit < Newest THEN since + EventLimit ELSE Newest

(* Mutant: the newest events first.                                        *)
BatchNewest(since) == SubSeq(log, Max({since + 1, Newest - EventLimit + 1}), Newest)

(* list_events: the events above since, the lowest numbers first.          *)
Batch(since) == SubSeq(log, since + 1, NextSince(since))

PullEvents(p) ==
  LET since == con[p].since IN
  /\ con[p].at = "follow"
  /\ since < Newest
  /\ Set(p, [con[p] EXCEPT !.copy = FoldLeft(Apply, @, Batch(since)),
                           !.since = NextSince(since)])
  /\ UNCHANGED <<vars, offset, acks, crashes>>

(* The consumer restarts: it goes on from what it has acknowledged, with   *)
(* the copy it has; if it has acknowledged nothing, from a new snapshot.   *)
(* One that restarts before it follows is one that starts later.           *)
Restart(p) ==
  /\ crashes < MaxCrashes
  /\ con[p].at = "follow"
  /\ Set(p, IF offset[p] = NoRow THEN NewConsumer
            ELSE [con[p] EXCEPT !.since = offset[p],
                                !.from = IF offset[p] > con[p].since THEN offset[p] ELSE @])
  /\ crashes' = crashes + 1
  /\ UNCHANGED <<vars, offset, acks>>

-----------------------------------------------------------------------------
(* Acknowledgements.  They may overtake each other, and one that is not    *)
(* taken any further is lost.                                              *)

Ack(p) ==
  /\ con[p].at = "follow"
  /\ Cardinality(acks) < MaxAcks
  /\ offset[p] < con[p].since
  /\ acks' = acks \cup {[p |-> p, seq |-> con[p].since, at |-> "update"]}
  /\ UNCHANGED <<vars, con, offset, crashes>>

(* UPDATE ... WHERE acked_seq < seq.                                       *)
(* Mutant: whatever the number there is.                                   *)
AckableAny(p, seq) == offset[p] # NoRow
Ackable(p, seq) == offset[p] # NoRow /\ offset[p] < seq

AckUpdate(a) ==
  /\ a.at = "update"
  /\ IF Ackable(a.p, a.seq)
       THEN offset' = [offset EXCEPT ![a.p] = a.seq] /\ acks' = acks \ {a}
       ELSE UNCHANGED offset /\ acks' = (acks \ {a}) \cup {[a EXCEPT !.at = "insert"]}
  /\ UNCHANGED <<vars, con, crashes>>

(* INSERT ... ON CONFLICT DO NOTHING.                                      *)
AckInsert(a) ==
  /\ a.at = "insert"
  /\ offset' = [offset EXCEPT ![a.p] = IF @ = NoRow THEN a.seq ELSE @]
  /\ acks' = acks \ {a}
  /\ UNCHANGED <<vars, con, crashes>>

-----------------------------------------------------------------------------
Follow ==
  \/ \E p \in Consumers :
       SnapshotList(p) \/ SnapshotSeq(p) \/ PullEvents(p) \/ Ack(p) \/ Restart(p)
  \/ \E a \in acks : AckUpdate(a) \/ AckInsert(a)

FeedNext ==
  \/ Next /\ UNCHANGED feedVars
  \/ Follow

FeedSpec == FeedInit /\ [][FeedNext]_allVars

-----------------------------------------------------------------------------
(* Every variable stays in its type; the row lock of a merge is on a       *)
(* published record, and events are about records that exist.              *)
TypeOK ==
  /\ rec \in [Records -> [life : Lives, ver : Nat, time : 0 .. clock, row : Row]]
  /\ \A c \in Crs :
       /\ cr[c].st \in {"none", "approved", "activating", "activated"}
       /\ cr[c].target \in Records \cup {0}
       /\ cr[c].target # 0 => rec[cr[c].target].life # "absent"
  /\ merge # NoMerge => rec[merge.master].life = "published" /\ rec[merge.master].ver = merge.ver
  /\ \A i \in 1 .. Newest : log[i].row \in Row /\ rec[log[i].rec].life # "absent"
  /\ \A p \in Consumers :
       /\ con[p].at \in {"list", "seq", "follow"}
       /\ DOMAIN con[p].copy \subseteq Records
       /\ \A r \in DOMAIN con[p].copy : con[p].copy[r] \in [ver : Nat, row : Row]
       /\ offset[p] <= Newest /\ con[p].since <= Newest

(* The events of a record carry rising versions, so that a receiver may    *)
(* drop what is not newer; and the newest one carries the record as it is, *)
(* unless an undo has changed it since.  However updates, creations and    *)
(* merges interleave: the row is read in the transaction that wrote it.    *)
EventsTellTheRecord ==
  /\ \A i, j \in 1 .. Newest : i < j /\ log[i].rec = log[j].rec => log[i].ver < log[j].ver
  /\ \A i \in 1 .. Newest :
       LET r == log[i].rec IN
       /\ told[r] /\ rec[r].life = "published"
       /\ \A j \in i + 1 .. Newest : log[j].rec # r
       => log[i].ver = rec[r].ver /\ log[i].row = rec[r].row

(* The step activates an update CR of the record, whose user set the column *)
(* to what it is now.                                                      *)
SetByUser(r, f) ==
  \E c \in Crs :
    /\ cr[c].st = "activating" /\ cr'[c].st = "activated" /\ cr[c].target = r
    /\ \E pair \in ToSet(Pairs) :
         /\ pair[2] = f /\ pair[1] \in DOMAIN cr[c].deltas
         /\ rec'[r].row[f] = cr[c].deltas[pair[1]]

(* The step merges into the record, and the column is now what a steward   *)
(* decided, or what its rule takes from a victim.                          *)
SetByMerge(r, f) ==
  /\ merge.master = r /\ merge' = NoMerge /\ f \in DOMAIN Rules
  /\ \/ \E o \in Overrides : f \in DOMAIN o /\ rec'[r].row[f] = o[f]
     \/ \E v \in merge.victims :
          /\ rec'[r].row[f] = merge.seen[v].row[f]
          /\ IF Rules[f] = "latest" THEN merge.seen[v].time > merge.seen[r].time
             ELSE ~Filled(rec[r].row[f])

(* A published record changes only in ways somebody approved: an update    *)
(* CR changes the columns its user changed and no other one, however old   *)
(* the form is that it carries; a merge takes over a victim's value only   *)
(* by the column's rule, or what its steward decided.                      *)
ChangesAreApproved ==
  [][\A r \in Published, f \in Columns :
       rec'[r].row[f] # rec[r].row[f] => SetByUser(r, f) \/ SetByMerge(r, f)]_allVars

About(r, i) == r \in {log[i].rec} \cup log[i].gone

(* The events that a subscriber is sent about a record.                    *)
Sent(s, r) ==
  {i \in 1 .. Newest : About(r, i) /\ EventMatchesSub(log[i], s)}

(* What it should see of a row: each column that is included, by its new   *)
(* name, masked if that is.                                                *)
Shown(row, map) ==
  LET new == [c \in DOMAIN Include(row, map.include) |->
                IF \E i \in DOMAIN map.rename : map.rename[i][1] = c
                  THEN (CHOOSE pair \in ToSet(map.rename) : pair[1] = c)[2] ELSE c] IN
  [n \in {new[c] : c \in DOMAIN new} |->
     IF n \in map.mask THEN Masked ELSE row[CHOOSE c \in DOMAIN new : new[c] = n]]

(* What a subscriber was last sent about a record is what its map shows of *)
(* the record as it is, if that passes its filter; and if it has no        *)
(* filter, it was last told of a merged record that it is gone.            *)
SubscribersAreCurrent ==
  \A s \in Subs, r \in Records :
    LET sent == Sent(s, r)  e == log[Max(sent)] IN
    told[r] /\ (\E i \in 1 .. Newest : log[i].rec = r) =>
      /\ r \in Published /\ EvalFilter(s.filter, rec[r].row) =>
           /\ sent # {} /\ e.rec = r /\ e.ver = rec[r].ver
           /\ ApplyFieldMap(e.row, s.map) = Shown(rec[r].row, s.map)
      /\ rec[r].life = "merged" /\ s.filter = <<>> => sent # {} /\ r \in e.gone

(* The copy has the record as it is.                                       *)
Current(copy, r) ==
  /\ r \in DOMAIN copy <=> rec[r].life = "published"
  /\ r \in DOMAIN copy => copy[r] = Copy(r)

(* A consumer that has caught up holds the records as they are: all of     *)
(* them if no event was written while it loaded its snapshot, however many *)
(* pages that took, and otherwise those of which an event told it since;   *)
(* whatever it was sent twice, and however often it restarted.  Of a       *)
(* record that an undo restored, no event tells.                           *)
FollowerCatchesUp ==
  \A p \in Consumers :
    con[p].at = "follow" /\ con[p].since = Newest =>
      \A r \in Records :
        /\ told[r]
        /\ con[p].from = Everything \/ \E i \in con[p].from + 1 .. Newest : About(r, i)
        => Current(con[p].copy, r)

(* An acknowledgement that arrives late does not take a newer one back, so *)
(* a consumer that restarts does not go back further than it must.         *)
OffsetNeverFalls == [][\A p \in Consumers : offset'[p] >= offset[p]]_allVars
=============================================================================
