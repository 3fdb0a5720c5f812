--------------------------- MODULE MatchScanProofs ---------------------------
(***************************************************************************)
(* Theorems about the scan for duplicates, for all records, contents and   *)
(* numbers of scanners, changes and scans.                                 *)
(***************************************************************************)
EXTENDS MatchAlgoProofs

-----------------------------------------------------------------------------
(* Findings.                                                               *)

(* What is stored, up to its score.                                        *)
FindingsOf(S) == [members : SUBSET Records, score : S, status : States, by : Scanners]

IsFindings(fs) == \E S : fs \in Seq(FindingsOf(S))

(* A finding is appended as pending, or changes its status if it is        *)
(* pending.                                                                *)
FindingsGrow ==
  /\ DOMAIN findings \subseteq DOMAIN findings'
  /\ \A f \in DOMAIN findings :
       /\ findings'[f].members = findings[f].members /\ findings'[f].by = findings[f].by
       /\ findings'[f].status = "pending" => findings[f].status = "pending"
       /\ findings[f].status # "pending" => findings'[f] = findings[f]

LEMMA SettleGrows ==
  ASSUME NEW S, findings \in Seq(FindingsOf(S)), NEW f \in DOMAIN findings,
         NEW to \in {"ignored", "resolved"}, findings' = Settled(f, to)
  PROVE  FindingsGrow /\ findings' \in Seq(FindingsOf(S)) /\ DOMAIN findings' = DOMAIN findings
<1>1. CASE findings[f].status = "pending"
  <2>1. findings' = [findings EXCEPT ![f] = [@ EXCEPT !.status = to]]
    BY <1>1 DEF Settled
  <2>2. findings[f] \in FindingsOf(S)
    OBVIOUS
  <2>3. [findings[f] EXCEPT !.status = to] \in FindingsOf(S)
    BY <2>2 DEF States, FindingsOf
  <2>4. findings' \in Seq(FindingsOf(S))
    BY <2>1, <2>3
  <2>5. /\ DOMAIN findings' = DOMAIN findings
        /\ findings'[f].members = findings[f].members /\ findings'[f].by = findings[f].by
        /\ findings'[f].status = to
        /\ \A g \in DOMAIN findings : g # f => findings'[g] = findings[g]
    BY <2>1, <2>2 DEF FindingsOf
  <2> QED
    BY <1>1, <2>4, <2>5 DEF FindingsGrow
<1>2. CASE findings[f].status # "pending"
  BY <1>2 DEF Settled, FindingsGrow
<1> QED
  BY <1>1, <1>2

LEMMA AppendGrows ==
  ASSUME NEW S, findings \in Seq(FindingsOf(S)), NEW m \in SUBSET Records, NEW score, NEW s \in Scanners,
         findings' = Append(findings, [members |-> m, score |-> score, status |-> "pending", by |-> s])
  PROVE  /\ FindingsGrow /\ findings' \in Seq(FindingsOf(S \cup {score}))
         /\ Len(findings) \in Nat /\ DOMAIN findings' = DOMAIN findings \cup {Len(findings) + 1}
         /\ Len(findings) + 1 \notin DOMAIN findings
         /\ findings'[Len(findings) + 1].members = m /\ findings'[Len(findings) + 1].by = s
<1> DEFINE F == FindingsOf(S \cup {score})
           x == [members |-> m, score |-> score, status |-> "pending", by |-> s]
<1>1. x \in F
  BY DEF States, FindingsOf
<1>2. findings \in Seq(F)
  <2>1. FindingsOf(S) \subseteq F
    BY DEF FindingsOf
  <2> HIDE DEF F
  <2> QED
    BY <2>1
<1>3. findings' = Append(findings, x) /\ x.members = m /\ x.by = s
  OBVIOUS
<1> HIDE DEF F, x
<1>4. /\ findings' \in Seq(F)
      /\ Len(findings) \in Nat /\ DOMAIN findings' = DOMAIN findings \cup {Len(findings) + 1}
      /\ Len(findings) + 1 \notin DOMAIN findings
      /\ findings'[Len(findings) + 1] = x
      /\ \A f \in DOMAIN findings : findings'[f] = findings[f]
  BY <1>1, <1>2, <1>3
<1> QED
  BY <1>3, <1>4 DEF FindingsGrow, F

LEMMA SameGrows ==
  ASSUME IsFindings(findings), UNCHANGED findings
  PROVE  FindingsGrow /\ IsFindings(findings)' /\ DOMAIN findings' = DOMAIN findings
BY DEF FindingsGrow, IsFindings

-----------------------------------------------------------------------------
(* Scanners know findings that exist, and look for members that are        *)
(* records.                                                                *)

Stages == {"idle", "hashes", "insert", "done"}
Tables == [Records -> [life : Lives, row : Rows]]

ScansOf(T) == [at : Stages, read : Tables, todo : SUBSET T, known : SUBSET Nat]

IsScan(sc) == \E T : sc \in [Scanners -> ScansOf(T)]

ScanOK(s) ==
  /\ scan[s].known \subseteq DOMAIN findings
  /\ \A cluster \in scan[s].todo : cluster.members \in SUBSET Records
  /\ scan[s].at = "hashes" => scan[s].known = {}
  /\ scan[s].at \in {"idle", "done"} => scan[s].todo = {}

(* The shape of the variables as far as it does not depend on scores.      *)
Inv ==
  /\ table \in Tables
  /\ IsFindings(findings)
  /\ IsScan(scan)
  /\ \A s \in Scanners : ScanOK(s)

(* One scanner takes a step.                                               *)
LEMMA ScanSteps ==
  ASSUME IsScan(scan), NEW s \in Scanners, NEW T, NEW x \in ScansOf(T), scan' = [scan EXCEPT ![s] = x]
  PROVE  IsScan(scan)' /\ scan'[s] = x /\ \A t \in Scanners \ {s} : scan'[t] = scan[t]
<1>1. PICK V : scan \in [Scanners -> ScansOf(V)]
  BY DEF IsScan
<1>2. ScansOf(V) \subseteq ScansOf(T \cup V) /\ ScansOf(T) \subseteq ScansOf(T \cup V)
  BY DEF ScansOf
<1>3. scan' \in [Scanners -> ScansOf(T \cup V)]
  BY <1>1, <1>2
<1> QED
  BY <1>1, <1>3 DEF IsScan

(* The clusters of a table, up to their scores.                            *)
Blocks(loaded) == {{r \in DOMAIN loaded : SameBlock(loaded[r], loaded[q])} : q \in DOMAIN loaded}
Members(block, loaded) == {r \in block : Partners(r, block, loaded) # {}}

LEMMA ClustersAre ==
  ASSUME NEW loaded
  PROVE  \E f : ScanClusters(loaded) =
                  {[members |-> Members(b, loaded), score |-> f[b]] : b \in {c \in Blocks(loaded) : Members(c, loaded) # {}}}
<1> DEFINE blocks == {{r \in DOMAIN loaded : SameBlock(loaded[r], loaded[q])} : q \in DOMAIN loaded}
           members(block) == {r \in block : Partners(r, block, loaded) # {}}
           score(r, block) == Max({Compare(loaded[r], loaded[q]) : q \in block \ {r}})
           most(block) == Max({score(r, block) : r \in members(block)})
           f == [b \in {c \in blocks : members(c) # {}} |-> most(b)]
<1>1. ScanClusters(loaded) = {[members |-> members(b), score |-> most(b)] : b \in {c \in blocks : members(c) # {}}}
  BY Zenon DEF ScanClusters
<1>2. blocks = Blocks(loaded) /\ \A b : members(b) = Members(b, loaded)
  BY DEF Blocks, Members
<1> HIDE DEF most, blocks, members
<1>3. ScanClusters(loaded) = {[members |-> Members(b, loaded), score |-> f[b]] : b \in {c \in Blocks(loaded) : Members(c, loaded) # {}}}
  BY <1>1, <1>2
<1> QED
  BY <1>3

LEMMA ClusterMembers ==
  ASSUME NEW loaded
  PROVE  /\ \A cluster \in ScanClusters(loaded) : cluster.members \subseteq DOMAIN loaded
         /\ \A b \in Blocks(loaded) : Members(b, loaded) # {} =>
              \E cluster \in ScanClusters(loaded) : cluster.members = Members(b, loaded)
<1>1. PICK f : ScanClusters(loaded) =
                 {[members |-> Members(b, loaded), score |-> f[b]] : b \in {c \in Blocks(loaded) : Members(c, loaded) # {}}}
  BY ClustersAre
<1>2. \A b \in Blocks(loaded) : Members(b, loaded) \subseteq DOMAIN loaded
  BY DEF Blocks, Members
<1>3. ASSUME NEW cluster \in ScanClusters(loaded)
      PROVE  cluster.members \subseteq DOMAIN loaded
  <2>1. PICK b \in Blocks(loaded) : cluster = [members |-> Members(b, loaded), score |-> f[b]]
    BY <1>1
  <2> QED
    BY <1>2, <2>1
<1>4. ASSUME NEW b \in Blocks(loaded), Members(b, loaded) # {}
      PROVE  \E cluster \in ScanClusters(loaded) : cluster.members = Members(b, loaded)
  <2>1. [members |-> Members(b, loaded), score |-> f[b]] \in ScanClusters(loaded)
    BY <1>1, <1>4
  <2> QED
    BY <2>1
<1> QED
  BY <1>3, <1>4

(* What the scans cluster.                                                 *)
Found == Suspects(ScanColumns)

LEMMA SuspectsAreRecords == Suspicious \subseteq Published /\ Published \subseteq Records /\ DOMAIN Found = Suspicious
BY DEF Found, Suspects, Suspicious, Published

(* A scanner that does not move stays in order as findings grow.           *)
LEMMA ScanStays ==
  ASSUME Inv, FindingsGrow, NEW s \in Scanners, scan'[s] = scan[s]
  PROVE  ScanOK(s)'
BY DEF Inv, ScanOK, FindingsGrow

(* The steps of a scanner, by what they do.                                *)
LEMMA LoadStep ==
  ASSUME Inv, NEW s \in Scanners, ScanLoad(s)
  PROVE  /\ IsScan(scan)' /\ FindingsGrow /\ UNCHANGED <<table, findings>>
         /\ \A t \in Scanners \ {s} : scan'[t] = scan[t]
         /\ scan'[s].read = table /\ scan'[s].todo = ScanClusters(Found) /\ scan'[s].known = {}
         /\ scan'[s].at \in {"hashes", "done"} /\ (scan'[s].at = "done" => ScanClusters(Found) = {})
<1> DEFINE clusters == ScanClusters(Found)
           x == [at |-> IF clusters = {} THEN "done" ELSE "hashes", read |-> table, todo |-> clusters, known |-> {}]
<1>1. scan' = [scan EXCEPT ![s] = x]
  BY DEF ScanLoad, Found
<1>2. UNCHANGED <<table, findings>> /\ FindingsGrow
  BY SameGrows DEF ScanLoad, Inv
<1> HIDE DEF clusters
<1>3. /\ x \in ScansOf(clusters)
      /\ x.read = table /\ x.todo = clusters /\ x.known = {}
      /\ x.at \in {"hashes", "done"} /\ (x.at = "done" => clusters = {})
  BY DEF Inv, Stages, ScansOf
<1> HIDE DEF x
<1>4. IsScan(scan)' /\ scan'[s] = x /\ \A t \in Scanners \ {s} : scan'[t] = scan[t]
  BY <1>1, <1>3, ScanSteps DEF Inv
<1> QED
  BY <1>2, <1>3, <1>4 DEF clusters

LEMMA HashesStep ==
  ASSUME Inv, NEW s \in Scanners, ScanHashes(s)
  PROVE  /\ IsScan(scan)' /\ FindingsGrow /\ UNCHANGED <<table, findings>>
         /\ \A t \in Scanners \ {s} : scan'[t] = scan[t]
         /\ scan[s].at = "hashes" /\ scan'[s].at = "insert"
         /\ scan'[s].read = scan[s].read /\ scan'[s].todo = scan[s].todo /\ scan'[s].known = Pending
<1> DEFINE y == [scan[s] EXCEPT !.at = "insert", !.known = Pending]
<1>1. Pending \in SUBSET Nat /\ "insert" \in Stages
  BY DEF Inv, IsFindings, Pending, Stages
<1>2. UNCHANGED <<table, findings>> /\ FindingsGrow /\ scan[s].at = "hashes"
  BY SameGrows DEF ScanHashes, Inv
<1>3. scan' = [scan EXCEPT ![s] = y]
  BY DEF ScanHashes
<1>4. PICK T : scan[s] \in ScansOf(T)
  BY DEF Inv, IsScan
<1>5. y \in ScansOf(T) /\ y.at = "insert" /\ y.read = scan[s].read /\ y.todo = scan[s].todo /\ y.known = Pending
  BY <1>1, <1>4 DEF ScansOf
<1> HIDE DEF y
<1>6. IsScan(scan)' /\ scan'[s] = y /\ \A t \in Scanners \ {s} : scan'[t] = scan[t]
  BY <1>3, <1>5, ScanSteps DEF Inv
<1> QED
  BY <1>2, <1>5, <1>6

(* Storing a cluster leaves one finding with its members known.            *)
LEMMA InsertStep ==
  ASSUME Inv, NEW s \in Scanners, NEW cluster \in scan[s].todo, ScanInsert(s, cluster)
  PROVE  /\ IsScan(scan)' /\ IsFindings(findings)' /\ FindingsGrow /\ UNCHANGED table
         /\ \A t \in Scanners \ {s} : scan'[t] = scan[t]
         /\ scan[s].at = "insert" /\ scan'[s].at \in {"insert", "done"}
         /\ scan'[s].at = "done" => scan[s].todo = {cluster}
         /\ scan'[s].read = scan[s].read /\ scan'[s].todo = scan[s].todo \ {cluster}
         /\ scan[s].known \subseteq scan'[s].known
         /\ \/ UNCHANGED findings /\ Known(s, cluster) /\ scan'[s].known = scan[s].known
            \/ \E new \in Nat :
                 /\ ~Known(s, cluster) /\ scan'[s].known = scan[s].known \cup {new}
                 /\ new \notin DOMAIN findings /\ DOMAIN findings' = DOMAIN findings \cup {new}
                 /\ findings'[new].members = cluster.members /\ findings'[new].by = s
<1> DEFINE at == IF scan[s].todo = {cluster} THEN "done" ELSE "insert"
           todo == scan[s].todo \ {cluster}
           new == Len(findings) + 1
           known == IF Known(s, cluster) THEN scan[s].known ELSE scan[s].known \cup {new}
           y == [scan[s] EXCEPT !.at = IF scan[s].todo = {cluster} THEN "done" ELSE "insert",
                                !.todo = @ \ {cluster},
                                !.known = IF Known(s, cluster) THEN @ ELSE @ \cup {Len(findings) + 1}]
<1>1. UNCHANGED table /\ scan[s].at = "insert"
  BY DEF ScanInsert
<1>2. cluster.members \in SUBSET Records
  BY DEF Inv, ScanOK
<1>3. PICK T : scan[s] \in ScansOf(T)
  BY DEF Inv, IsScan
<1>4. new \in Nat
  BY DEF Inv, IsFindings
<1>5. at \in Stages /\ todo \in SUBSET T /\ known \in SUBSET Nat
  BY <1>3, <1>4 DEF Stages, ScansOf
<1>6. scan' = [scan EXCEPT ![s] = y]
  BY DEF ScanInsert
<1>7. y \in ScansOf(T) /\ y.at = at /\ y.read = scan[s].read /\ y.todo = todo /\ y.known = known
  BY <1>3, <1>5 DEF ScansOf
<1>8. IsScan(scan)' /\ scan'[s] = y /\ \A t \in Scanners \ {s} : scan'[t] = scan[t]
  <2> HIDE DEF y
  <2> QED
    BY <1>6, <1>7, ScanSteps DEF Inv
<1> HIDE DEF y
<1>9. CASE Known(s, cluster)
  <2>1. UNCHANGED findings /\ FindingsGrow /\ IsFindings(findings)'
    BY <1>9, SameGrows DEF ScanInsert, Inv
  <2> QED
    BY <1>1, <1>7, <1>8, <1>9, <2>1
<1>10. CASE ~Known(s, cluster)
  <2>1. findings' = Append(findings, [members |-> cluster.members, score |-> cluster.score, status |-> "pending", by |-> s])
    BY <1>10 DEF ScanInsert
  <2>2. /\ FindingsGrow /\ IsFindings(findings)'
        /\ DOMAIN findings' = DOMAIN findings \cup {new} /\ new \notin DOMAIN findings
        /\ findings'[new].members = cluster.members /\ findings'[new].by = s
    <3>1. PICK S : findings \in Seq(FindingsOf(S))
      BY DEF Inv, IsFindings
    <3> QED
      BY <1>2, <2>1, <3>1, AppendGrows DEF IsFindings
  <2>3. known = scan[s].known \cup {new}
    BY <1>10
  <2> HIDE DEF new, known
  <2> QED
    BY <1>1, <1>4, <1>7, <1>8, <1>10, <2>2, <2>3
<1> QED
  BY <1>9, <1>10

LEMMA FailsStep ==
  ASSUME Inv, NEW s \in Scanners, ScanFails(s)
  PROVE  /\ IsScan(scan)' /\ FindingsGrow /\ UNCHANGED <<table, findings>>
         /\ \A t \in Scanners \ {s} : scan'[t] = scan[t]
         /\ scan'[s] = Idle
<1>1. Idle \in ScansOf({})
  BY DEF Inv, Idle, ScansOf, Stages
<1>2. scan' = [scan EXCEPT ![s] = Idle] /\ UNCHANGED <<table, findings>> /\ FindingsGrow
  BY SameGrows DEF ScanFails, Inv
<1> QED
  BY <1>1, <1>2, ScanSteps DEF Inv

(* The records keep their shape.                                           *)
LEMMA TableSteps ==
  ASSUME table \in Tables,
         \/ \E r \in Records, row \in Rows : Create(r, row) \/ Update(r, row)
         \/ \E f \in DOMAIN findings : \E master \in findings[f].members, victims \in SUBSET findings[f].members :
              Merge(f, master, victims)
  PROVE  table' \in Tables /\ UNCHANGED <<scan, findings>>
<1>1. ASSUME NEW r \in Records, NEW row \in Rows, Create(r, row)
      PROVE  table' \in Tables /\ UNCHANGED <<scan, findings>>
  <2>1. [life |-> "published", row |-> row] \in [life : Lives, row : Rows]
    BY DEF Lives
  <2> QED
    BY <1>1, <2>1 DEF Create, Tables
<1>2. ASSUME NEW r \in Records, NEW row \in Rows, Update(r, row)
      PROVE  table' \in Tables /\ UNCHANGED <<scan, findings>>
  <2>1. [table[r] EXCEPT !.row = row] \in [life : Lives, row : Rows]
    BY DEF Tables
  <2>2. table' = [table EXCEPT ![r] = [@ EXCEPT !.row = row]] /\ UNCHANGED <<scan, findings>>
    BY <1>2 DEF Update
  <2> QED
    BY <2>1, <2>2 DEF Tables
<1>3. ASSUME NEW f, NEW master, NEW victims, Merge(f, master, victims)
      PROVE  table' \in Tables /\ UNCHANGED <<scan, findings>>
  <2>1. \A r \in Records : [table[r] EXCEPT !.life = "merged"] \in [life : Lives, row : Rows]
    BY DEF Tables, Lives
  <2> QED
    BY <1>3, <2>1 DEF Merge, Tables
<1> QED
  BY <1>1, <1>2, <1>3

LEMMA InvInit == Init => Inv
<1> SUFFICES ASSUME Init PROVE Inv
  OBVIOUS
<1>1. table \in Tables
  <2>1. Unborn \in [life : Lives, row : Rows]
    BY MatchScanAssumption DEF Unborn, Lives
  <2>2. [life : {"published"}, row : Rows] \subseteq [life : Lives, row : Rows]
    BY DEF Lives
  <2> QED
    BY <2>1, <2>2 DEF Init, Tables
<1>2. IsFindings(findings)
  <2>1. findings \in Seq(FindingsOf({}))
    BY DEF Init
  <2> QED
    BY <2>1 DEF IsFindings
<1>3. IsScan(scan)
  <2>1. Idle \in ScansOf({})
    BY <1>1 DEF Idle, ScansOf, Stages
  <2>2. scan \in [Scanners -> ScansOf({})]
    BY <2>1 DEF Init
  <2> QED
    BY <2>2 DEF IsScan
<1>4. \A s \in Scanners : ScanOK(s)
  BY DEF Init, Idle, ScanOK
<1> QED
  BY <1>1, <1>2, <1>3, <1>4 DEF Inv

(* Every step keeps the shape and makes findings grow.                     *)
LEMMA InvNext == Inv /\ [Next]_vars => Inv' /\ FindingsGrow
<1> SUFFICES ASSUME Inv, [Next]_vars PROVE Inv' /\ FindingsGrow
  OBVIOUS
<1>1. ASSUME table' \in Tables, UNCHANGED scan, FindingsGrow, IsFindings(findings)'
      PROVE  Inv'
  <2>1. IsScan(scan)'
    BY <1>1 DEF Inv, IsScan
  <2>2. \A s \in Scanners : ScanOK(s)'
    BY <1>1, ScanStays
  <2> QED
    BY <1>1, <2>1, <2>2 DEF Inv
<1>2. CASE \/ \E r \in Records, row \in Rows : Create(r, row) \/ Update(r, row)
           \/ \E f \in DOMAIN findings : \E master \in findings[f].members, victims \in SUBSET findings[f].members :
                Merge(f, master, victims)
  <2>1. table' \in Tables /\ UNCHANGED <<scan, findings>>
    BY <1>2, TableSteps DEF Inv
  <2> QED
    BY <1>1, <2>1, SameGrows DEF Inv
<1>3. ASSUME NEW f \in DOMAIN findings, Resolve(f) \/ Ignore(f)
      PROVE  Inv' /\ FindingsGrow
  <2>1. UNCHANGED <<table, scan>>
    BY <1>3 DEF Resolve, Ignore
  <2>2. \/ UNCHANGED findings
        \/ findings' = Settled(f, "resolved")
        \/ findings' = Settled(f, "ignored")
    BY <1>3 DEF Resolve, Ignore
  <2>3. FindingsGrow /\ IsFindings(findings)'
    <3>1. PICK S : findings \in Seq(FindingsOf(S))
      BY DEF Inv, IsFindings
    <3> QED
      BY <2>2, <3>1, SameGrows, SettleGrows DEF Inv, IsFindings
  <2> QED
    BY <1>1, <2>1, <2>3 DEF Inv
<1>4. ASSUME NEW s \in Scanners, UNCHANGED table, IsScan(scan)', IsFindings(findings)', FindingsGrow,
             \A t \in Scanners \ {s} : scan'[t] = scan[t], ScanOK(s)'
      PROVE  Inv'
  <2>1. \A t \in Scanners \ {s} : ScanOK(t)'
    BY <1>4, ScanStays
  <2> QED
    BY <1>4, <2>1 DEF Inv
<1>5. ASSUME NEW s \in Scanners, ScanLoad(s)
      PROVE  Inv' /\ FindingsGrow
  <2>1. IsFindings(findings)'
    BY <1>5, LoadStep DEF Inv, IsFindings
  <2>2. ScanOK(s)'
    <3>1. \A cluster \in ScanClusters(Found) : cluster.members \in SUBSET Records
      BY ClusterMembers, SuspectsAreRecords
    <3> QED
      BY <1>5, <3>1, LoadStep DEF ScanOK
  <2> QED
    BY <1>4, <1>5, <2>1, <2>2, LoadStep
<1>6. ASSUME NEW s \in Scanners, ScanHashes(s)
      PROVE  Inv' /\ FindingsGrow
  <2>1. IsFindings(findings)'
    BY <1>6, HashesStep DEF Inv, IsFindings
  <2>2. ScanOK(s)'
    BY <1>6, HashesStep DEF Inv, ScanOK, Pending
  <2> QED
    BY <1>4, <1>6, <2>1, <2>2, HashesStep
<1>7. ASSUME NEW s \in Scanners, ScanFails(s)
      PROVE  Inv' /\ FindingsGrow
  <2>1. IsFindings(findings)'
    BY <1>7, FailsStep DEF Inv, IsFindings
  <2>2. ScanOK(s)'
    BY <1>7, FailsStep DEF ScanOK, Idle
  <2> QED
    BY <1>4, <1>7, <2>1, <2>2, FailsStep
<1>8. ASSUME NEW s \in Scanners, NEW cluster \in scan[s].todo, ScanInsert(s, cluster)
      PROVE  Inv' /\ FindingsGrow
  <2>1. ScanOK(s)'
    <3>1. scan'[s].known \subseteq DOMAIN findings'
      <4>1. scan[s].known \subseteq DOMAIN findings
        BY DEF Inv, ScanOK
      <4>2. CASE UNCHANGED findings /\ scan'[s].known = scan[s].known
        BY <4>1, <4>2
      <4>3. CASE \E new \in Nat : /\ scan'[s].known = scan[s].known \cup {new}
                                 /\ DOMAIN findings' = DOMAIN findings \cup {new}
        BY <4>1, <4>3
      <4> QED
        BY <1>8, <4>2, <4>3, InsertStep
    <3>2. scan'[s].todo = scan[s].todo \ {cluster} /\ scan'[s].at \in {"insert", "done"}
          /\ (scan'[s].at = "done" => scan[s].todo = {cluster})
      BY <1>8, InsertStep
    <3> QED
      BY <3>1, <3>2 DEF Inv, ScanOK
  <2> QED
    BY <1>4, <1>8, <2>1, InsertStep
<1>9. CASE UNCHANGED vars
  BY <1>1, <1>9, SameGrows DEF Inv, vars
<1> QED
  BY <1>2, <1>3, <1>5, <1>6, <1>7, <1>8, <1>9 DEF Next

LEMMA InvHolds == Spec => []Inv
<1>1. Inv /\ [Next]_vars => Inv'
  BY InvNext
<1> QED
  BY <1>1, InvInit, PTL DEF Spec

(* Ignored and resolved do not replace each other, however the link of a   *)
(* merge to its finding races with a steward who ignores it.               *)
THEOREM SettledOnce == Spec => SettledIsFinal
<1>1. Inv /\ [Next]_vars => [\A f \in DOMAIN findings : findings[f].status # "pending" => findings'[f] = findings[f]]_vars
  BY InvNext DEF FindingsGrow
<1> QED
  BY <1>1, InvHolds, PTL DEF Spec, SettledIsFinal


-----------------------------------------------------------------------------
(* Types.                                                                  *)

Percent == 0 .. 100
Cluster == [members : SUBSET Records, score : Percent]

MoreTypes ==
  /\ findings \in Seq(Finding)
  /\ \A s \in Scanners : scan[s].todo \subseteq Cluster
  /\ merged \subseteq DOMAIN findings
  /\ changes \in 0 .. MaxChanges /\ scans \in 0 .. MaxScans

(* The score of a cluster is the score of two of its rows.                 *)
LEMMA ClustersAreScored ==
  ASSUME NEW loaded, \A r, q \in DOMAIN loaded : Compare(loaded[r], loaded[q]) \in Percent
  PROVE  \A cluster \in ScanClusters(loaded) : cluster.score \in Percent
<1> DEFINE blocks == {{r \in DOMAIN loaded : SameBlock(loaded[r], loaded[q])} : q \in DOMAIN loaded}
           members(block) == {r \in block : Partners(r, block, loaded) # {}}
           score(r, block) == Max({Compare(loaded[r], loaded[q]) : q \in block \ {r}})
           most(block) == Max({score(r, block) : r \in members(block)})
<1>1. ScanClusters(loaded) = {[members |-> members(b), score |-> most(b)] : b \in {c \in blocks : members(c) # {}}}
  BY Zenon DEF ScanClusters
<1>2. ASSUME NEW T \in SUBSET Percent, T # {}
      PROVE  Max(T) \in Percent
  <2>1. \E x \in T : \A y \in T : x >= y
    BY <1>2, GreatestElement DEF Percent
  <2>2. Max(T) \in T
    BY <2>1 DEF Max
  <2> QED
    BY <2>2
<1>3. ASSUME NEW b \in blocks, members(b) # {}
      PROVE  most(b) \in Percent
  <2>1. ASSUME NEW r \in members(b)
        PROVE  score(r, b) \in Percent
    <3> DEFINE T == {Compare(loaded[r], loaded[q]) : q \in b \ {r}}
    <3>1. T \in SUBSET Percent
      OBVIOUS
    <3>2. T # {}
      BY DEF Partners
    <3> HIDE DEF T
    <3>3. Max(T) \in Percent
      BY <1>2, <3>1, <3>2
    <3> QED
      BY <3>3 DEF T
  <2> DEFINE U == {score(r, b) : r \in members(b)}
  <2> HIDE DEF members, score
  <2>2. U \in SUBSET Percent /\ U # {}
    BY <1>3, <2>1
  <2> HIDE DEF U
  <2>3. Max(U) \in Percent
    BY <1>2, <2>2
  <2> QED
    BY <2>3 DEF U
<1> HIDE DEF members, most, blocks
<1> QED
  BY <1>1, <1>3

(* The suspects are rows as far as they are read.                          *)
LEMMA SuspectsAreRows ==
  ASSUME table \in Tables, NEW columns, Compared \subseteq columns, NEW r \in Suspicious
  PROVE  /\ r \in Records /\ table[r].row \in Rows
         /\ Suspects(columns)[r] = Seen(columns, table[r].row) /\ Comparable(Suspects(columns)[r])
<1>1. r \in Records /\ Suspects(columns)[r] = Seen(columns, table[r].row)
  BY SuspectsAreRecords DEF Suspects
<1>2. table[r].row \in Rows
  BY <1>1 DEF Tables
<1> QED
  BY <1>1, <1>2, RowsAreComparable

(* Their scores are those of the rows, whatever else is read.              *)
LEMMA SuspectsCompareFairly ==
  ASSUME table \in Tables, NEW columns, Compared \subseteq columns,
         NEW r \in Suspicious, NEW q \in Suspicious
  PROVE  LET seen == Suspects(columns) IN
         /\ Compare(seen[r], seen[q]) \in Percent
         /\ Compare(seen[r], seen[q]) = Compare(seen[q], seen[r])
         /\ Compare(seen[r], seen[q]) = Compare(table[r].row, table[q].row)
BY SuspectsAreRows, CompareIsFair, RowsAreComparable, ScoresAreOfFields DEF Percent

LEMMA ColumnsAreCompared == Compared \subseteq ScanColumns /\ ScanColumns \subseteq SearchColumns
BY DEF ScanColumns, SearchColumns

LEMMA TypesInit == Init => MoreTypes
<1> SUFFICES ASSUME Init PROVE MoreTypes
  OBVIOUS
<1>1. findings \in Seq(Finding) /\ merged \subseteq DOMAIN findings
  BY DEF Init
<1>2. \A s \in Scanners : scan[s].todo \subseteq Cluster
  BY DEF Init, Idle
<1>3. changes \in 0 .. MaxChanges /\ scans \in 0 .. MaxScans
  BY MatchScanAssumption DEF Init
<1> QED
  BY <1>1, <1>2, <1>3 DEF MoreTypes

LEMMA TypesNext == Inv /\ MoreTypes /\ [Next]_vars => MoreTypes'
<1> SUFFICES ASSUME Inv, MoreTypes, [Next]_vars PROVE MoreTypes'
  OBVIOUS
<1>1. Inv' /\ DOMAIN findings \subseteq DOMAIN findings' /\ Finding = FindingsOf(Percent)
  BY InvNext DEF FindingsGrow, Finding, FindingsOf, Percent
<1>2. CASE \/ \E r \in Records, row \in Rows : Create(r, row) \/ Update(r, row)
           \/ \E f \in DOMAIN findings : \E master \in findings[f].members, victims \in SUBSET findings[f].members :
                Merge(f, master, victims)
  <2>1. UNCHANGED <<scan, findings, scans>> /\ Change
    BY <1>2 DEF Create, Update, Merge
  <2>2. merged' \subseteq DOMAIN findings
    BY <1>2 DEF Create, Update, Merge, MoreTypes
  <2>3. changes' \in 0 .. MaxChanges
    BY <2>1, MatchScanAssumption DEF Change, MoreTypes
  <2> QED
    BY <2>1, <2>2, <2>3 DEF MoreTypes
<1>3. ASSUME NEW f \in DOMAIN findings, Resolve(f) \/ Ignore(f)
      PROVE  MoreTypes'
  <2>1. \/ UNCHANGED findings
        \/ findings' = Settled(f, "resolved")
        \/ findings' = Settled(f, "ignored")
    BY <1>3 DEF Resolve, Ignore
  <2>2. findings' \in Seq(Finding) /\ DOMAIN findings' = DOMAIN findings
    BY <1>1, <2>1, SettleGrows DEF MoreTypes
  <2>3. merged' \subseteq merged /\ UNCHANGED <<scan, changes, scans>>
    BY <1>3 DEF Resolve, Ignore
  <2> QED
    BY <2>2, <2>3 DEF MoreTypes
<1>4. ASSUME NEW s \in Scanners, \A t \in Scanners \ {s} : scan'[t] = scan[t], scan'[s].todo \subseteq Cluster,
             findings' \in Seq(Finding), scans' \in 0 .. MaxScans, UNCHANGED <<merged, changes>>
      PROVE  MoreTypes'
  BY <1>1, <1>4 DEF MoreTypes
<1>5. ASSUME NEW s \in Scanners, ScanLoad(s)
      PROVE  MoreTypes'
  <2>1. \A cluster \in ScanClusters(Found) : cluster.score \in Percent /\ cluster.members \subseteq Records
    BY ClustersAreScored, ClusterMembers, SuspectsCompareFairly, SuspectsAreRecords, ColumnsAreCompared DEF Inv, Found
  <2>2. ScanClusters(Found) \subseteq Cluster
    <3>1. PICK f : ScanClusters(Found) =
            {[members |-> Members(b, Found), score |-> f[b]] : b \in {c \in Blocks(Found) : Members(c, Found) # {}}}
      BY ClustersAre
    <3>2. \A cluster \in ScanClusters(Found) : \E m, v : cluster = [members |-> m, score |-> v]
      BY <3>1
    <3> QED
      BY <2>1, <3>2 DEF Cluster
  <2>3. scans' \in 0 .. MaxScans /\ UNCHANGED <<merged, changes>>
    BY <1>5, MatchScanAssumption DEF ScanLoad, MoreTypes
  <2> QED
    BY <1>4, <1>5, <2>2, <2>3, LoadStep DEF MoreTypes
<1>6. ASSUME NEW s \in Scanners, ScanHashes(s)
      PROVE  MoreTypes'
  <2>1. UNCHANGED <<findings, scans, merged, changes>>
    BY <1>6 DEF ScanHashes
  <2> QED
    BY <1>4, <1>6, <2>1, HashesStep DEF MoreTypes
<1>7. ASSUME NEW s \in Scanners, ScanFails(s)
      PROVE  MoreTypes'
  <2>1. UNCHANGED <<findings, scans, merged, changes>>
    BY <1>7 DEF ScanFails
  <2>2. scan'[s] = Idle /\ \A t \in Scanners \ {s} : scan'[t] = scan[t]
    BY <1>7, FailsStep
  <2>3. scan'[s].todo = {}
    BY <2>2 DEF Idle
  <2> QED
    BY <1>4, <2>1, <2>2, <2>3 DEF MoreTypes
<1>8. ASSUME NEW s \in Scanners, NEW cluster \in scan[s].todo, ScanInsert(s, cluster)
      PROVE  MoreTypes'
  <2>1. UNCHANGED <<scans, merged, changes>>
    BY <1>8 DEF ScanInsert
  <2>2. findings' \in Seq(Finding)
    <3>1. cluster.members \in SUBSET Records /\ cluster.score \in Percent
      BY DEF MoreTypes, Cluster
    <3>2. CASE UNCHANGED findings
      BY <3>2 DEF MoreTypes
    <3>3. CASE findings' = Append(findings, [members |-> cluster.members, score |-> cluster.score, status |-> "pending", by |-> s])
      <4>1. findings' \in Seq(FindingsOf(Percent \cup {cluster.score}))
        BY <1>1, <3>1, <3>3, AppendGrows DEF MoreTypes
      <4>2. Percent \cup {cluster.score} = Percent
        BY <3>1
      <4> QED
        BY <1>1, <4>1, <4>2
    <3> QED
      BY <1>8, <3>2, <3>3 DEF ScanInsert
  <2> QED
    BY <1>4, <1>8, <2>1, <2>2, InsertStep DEF MoreTypes
<1>9. CASE UNCHANGED vars
  BY <1>9 DEF MoreTypes, vars
<1> QED
  BY <1>2, <1>3, <1>5, <1>6, <1>7, <1>8, <1>9 DEF Next

(* Every variable stays in its type: what a scan stores are records, and   *)
(* their scores percentages (scan_clusters, compare).                      *)
THEOREM ScansAreTyped == Spec => []TypeOK
<1>1. Init => MoreTypes
  BY TypesInit
<1>2. Inv /\ MoreTypes /\ [Next]_vars => MoreTypes'
  BY TypesNext
<1>3. Inv /\ MoreTypes => TypeOK
  <2> SUFFICES ASSUME Inv, MoreTypes PROVE TypeOK
    OBVIOUS
  <2>1. \A s \in Scanners : scan[s].at \in Stages
    BY DEF Inv, IsScan, ScansOf
  <2> QED
    BY <2>1 DEF Inv, ScanOK, MoreTypes, TypeOK, Tables, Stages, Cluster, Percent
<1> QED
  BY <1>1, <1>2, <1>3, InvHolds, PTL DEF Spec

(* levenshtein computes edit distances, and it does not matter which of    *)
(* two records is compared with the other (levenshtein, compare).          *)
THEOREM DistancesAreMinimal == Spec => []DistanceIsMinimal
<1>1. DistanceIsEditDistance
  BY MatchScanAssumption, LevenshteinIsEditDistance DEF DistanceIsEditDistance, IsText
<1>2. Inv => \A r, q \in Published : Compare(table[r].row, table[q].row) = Compare(table[q].row, table[r].row)
  <2> SUFFICES ASSUME table \in Tables, NEW r \in Records, NEW q \in Records
               PROVE  Compare(table[r].row, table[q].row) = Compare(table[q].row, table[r].row)
    BY DEF Inv, Published
  <2>1. table[r].row \in Rows /\ table[q].row \in Rows
    BY DEF Tables
  <2> QED
    BY <2>1, RowsAreComparable, CompareIsFair
<1> QED
  BY <1>1, <1>2, InvHolds, PTL DEF DistanceIsMinimal

-----------------------------------------------------------------------------
(* Nothing is missed.                                                      *)

(* Two rows of a block that score enough come into one cluster.            *)
LEMMA PairsAreClustered ==
  ASSUME table \in Tables, NEW r \in Suspicious, NEW q \in Suspicious, r # q,
         SameBlock(Found[r], Found[q]), Compare(table[r].row, table[q].row) >= MinScore
  PROVE  \E cluster \in ScanClusters(Found) : {r, q} \subseteq cluster.members
<1> DEFINE b == {p \in DOMAIN Found : SameBlock(Found[p], Found[q])}
<1>1. b \in Blocks(Found)
  BY SuspectsAreRecords DEF Blocks
<1>2. r \in b /\ q \in b
  BY SuspectsAreRecords DEF SameBlock
<1> HIDE DEF b
<1>3. Compare(Found[r], Found[q]) >= MinScore /\ Compare(Found[q], Found[r]) >= MinScore
  BY SuspectsCompareFairly, ColumnsAreCompared DEF Found
<1>4. q \in Partners(r, b, Found) /\ r \in Partners(q, b, Found)
  BY <1>2, <1>3 DEF Partners
<1>5. r \in Members(b, Found) /\ q \in Members(b, Found)
  BY <1>2, <1>4 DEF Members
<1> QED
  BY <1>1, <1>5, ClusterMembers

(* A row has the block of its first filled cluster key.                    *)
LEMMA FirstFilled ==
  ASSUME NEW row, NEW i \in DOMAIN ClusterKeys, row[ClusterKeys[i]] # Empty,
         \A j \in 1 .. i - 1 : row[ClusterKeys[j]] = Empty
  PROVE  BlockKey(row) = {<<ClusterKeys[i], row[ClusterKeys[i]]>>}
<1> DEFINE first == {n \in DOMAIN ClusterKeys : row[ClusterKeys[n]] # Empty
                       /\ \A j \in 1 .. n - 1 : ~(row[ClusterKeys[j]] # Empty)}
<1>1. \A n \in DOMAIN ClusterKeys : n \in Nat \ {0}
  BY MatchScanAssumption
<1>2. first = {i}
  BY <1>1
<1>3. BlockKey(row) = {<<ClusterKeys[n], row[ClusterKeys[n]]>> : n \in first}
  BY DEF BlockKey
<1> HIDE DEF first
<1> QED
  BY <1>2, <1>3

(* One who has read less of a row sees it in the same block, if he has     *)
(* read the cluster key of the block.                                      *)
LEMMA BlockKeySeen ==
  ASSUME NEW columns, NEW row, NEW seen, JoinedBy(row, columns),
         \A k \in Range(ClusterKeys) :
           IF k \in columns THEN seen[k] = row[k] ELSE seen[k] = Empty
  PROVE  BlockKey(seen) = BlockKey(row)
<1>1. PICK key \in BlockKey(row) : key[1] \in columns
  BY DEF JoinedBy
<1>2. PICK i \in DOMAIN ClusterKeys :
        /\ key = <<ClusterKeys[i], row[ClusterKeys[i]]>> /\ row[ClusterKeys[i]] # Empty
        /\ \A j \in 1 .. i - 1 : row[ClusterKeys[j]] = Empty
  BY <1>1 DEF BlockKey
<1>3. \A n \in DOMAIN ClusterKeys : ClusterKeys[n] \in Range(ClusterKeys)
  BY DEF Range
<1>4. \A j \in 1 .. i - 1 : j \in DOMAIN ClusterKeys
  BY MatchScanAssumption
<1>5. seen[ClusterKeys[i]] = row[ClusterKeys[i]] /\ seen[ClusterKeys[i]] # Empty
  BY <1>1, <1>2, <1>3
<1>6. \A j \in 1 .. i - 1 : seen[ClusterKeys[j]] = Empty
  BY <1>2, <1>3, <1>4
<1>7. BlockKey(seen) = {<<ClusterKeys[i], seen[ClusterKeys[i]]>>}
  BY <1>5, <1>6, FirstFilled
<1>8. BlockKey(row) = {<<ClusterKeys[i], row[ClusterKeys[i]]>>}
  BY <1>2, FirstFilled
<1> QED
  BY <1>5, <1>7, <1>8

(* The search for the duplicates of one record uses the threshold 80; if   *)
(* the scan is not stricter, whatever the search finds is in a cluster of  *)
(* the scan, as long as the scan has read the key of their block, too      *)
(* (mdm_find_duplicates, mdm_match_scan_run).                              *)
THEOREM SearchAndScanAgree ==
  ASSUME MinScore <= 80
  PROVE  Spec => []SearchAgreesWithScan
<1>1. \A c \in Percent : Decide(c) # "NoMatch" => c >= MinScore
  <2>1. \A c \in Percent : Decide(c) # "NoMatch" => c >= 80
    BY DEF Decide, Percent
  <2>2. MinScore \in 1 .. 100
    BY MatchScanAssumption
  <2> QED
    BY <2>1, <2>2 DEF Percent
<1>2. Inv => SearchAgreesWithScan
  <2> DEFINE found == Suspects(SearchColumns)
  <2> SUFFICES ASSUME Inv, NEW r \in Suspicious, NEW q \in FindDuplicates(r),
                      JoinedBy(Seen(SearchColumns, table[r].row), ScanColumns)
               PROVE  \E cluster \in ScanClusters(Found) : {r, q} \subseteq cluster.members
    BY DEF SearchAgreesWithScan, Found
  <2>1. DOMAIN found = Suspicious
    BY DEF Suspects
  <2>2. /\ q \in Suspicious /\ q # r /\ SameBlock(found[r], found[q])
        /\ Decide(Compare(found[r], found[q])) # "NoMatch"
    BY <2>1 DEF FindDuplicates, Candidates
  <2>3. table \in Tables /\ Compared \subseteq SearchColumns
    BY ColumnsAreCompared DEF Inv
  <2>4. /\ Compare(table[r].row, table[q].row) \in Percent
        /\ Decide(Compare(table[r].row, table[q].row)) # "NoMatch"
    BY <2>2, <2>3, SuspectsCompareFairly
  <2>5. \A c \in Percent : Decide(c) # "NoMatch" => c >= MinScore
    BY <1>1
  <2>6. Compare(table[r].row, table[q].row) >= MinScore
    BY <2>4, <2>5
  <2>7. ASSUME NEW p \in {r, q}
        PROVE  BlockKey(Found[p]) = BlockKey(found[p])
    <3>1. /\ p \in Suspicious /\ table[p].row \in Rows
          /\ found[p] = Seen(SearchColumns, table[p].row) /\ Found[p] = Seen(ScanColumns, table[p].row)
      BY <2>2, <2>3, SuspectsAreRows, ColumnsAreCompared DEF Found
    <3>2. JoinedBy(found[p], ScanColumns)
      <4>1. JoinedBy(found[r], ScanColumns)
        BY <2>3, SuspectsAreRows
      <4> QED
        BY <2>2, <4>1 DEF SameBlock, JoinedBy
    <3>3. \A k \in Range(ClusterKeys) :
            IF k \in ScanColumns THEN Found[p][k] = found[p][k] ELSE Found[p][k] = Empty
      BY <3>1, ColumnsAreCompared, MatchScanAssumption DEF Seen
    <3> HIDE DEF found
    <3> QED
      BY <3>2, <3>3, BlockKeySeen
  <2>8. SameBlock(Found[r], Found[q])
    BY <2>2, <2>7 DEF SameBlock
  <2> QED
    BY <2>2, <2>3, <2>6, <2>8, PairsAreClustered
<1> QED
  BY <1>2, InvHolds, PTL

(* Rows of one block agree in a cluster key, so that the database selects  *)
(* both.                                                                   *)
LEMMA BlocksShareKeys ==
  ASSUME NEW row, NEW other, SameBlock(row, other)
  PROVE  \E k \in Range(ClusterKeys) : row[k] # Empty /\ row[k] = other[k]
<1>1. PICK key : key \in BlockKey(row) /\ key \in BlockKey(other)
  BY DEF SameBlock
<1>2. PICK i \in DOMAIN ClusterKeys : key = <<ClusterKeys[i], row[ClusterKeys[i]]>> /\ row[ClusterKeys[i]] # Empty
  BY <1>1 DEF BlockKey
<1>3. PICK j \in DOMAIN ClusterKeys : key = <<ClusterKeys[j], other[ClusterKeys[j]]>>
  BY <1>1 DEF BlockKey
<1>4. ClusterKeys[i] = ClusterKeys[j] /\ row[ClusterKeys[i]] = other[ClusterKeys[j]]
  BY <1>2, <1>3
<1>5. ClusterKeys[i] \in Range(ClusterKeys)
  BY DEF Range
<1> QED
  BY <1>2, <1>4, <1>5

LEMMA DuplicatesAreClustered ==
  ASSUME table \in Tables, NEW r \in Records, NEW q \in Records, Sought(table, r, q)
  PROVE  \E cluster \in ScanClusters(Found) : {r, q} \subseteq cluster.members
<1>1. r # q /\ r \in Published /\ q \in Published /\ SameBlock(table[r].row, table[q].row)
      /\ Compare(table[r].row, table[q].row) >= MinScore /\ JoinedBy(table[r].row, ScanColumns)
  BY DEF Sought, Duplicates, Published
<1>2. Shares(r, q) /\ Shares(q, r)
  BY <1>1, BlocksShareKeys DEF Shares
<1>3. r \in Suspicious /\ q \in Suspicious
  BY <1>1, <1>2 DEF Suspicious
<1>4. ASSUME NEW p \in {r, q}
      PROVE  BlockKey(Found[p]) = BlockKey(table[p].row)
  <2>1. table[p].row \in Rows /\ Found[p] = Seen(ScanColumns, table[p].row)
    BY <1>3, SuspectsAreRows, ColumnsAreCompared DEF Found
  <2>2. JoinedBy(table[p].row, ScanColumns)
    BY <1>1 DEF SameBlock, JoinedBy
  <2>3. \A k \in Range(ClusterKeys) :
          IF k \in ScanColumns THEN Found[p][k] = table[p].row[k] ELSE Found[p][k] = Empty
    BY <2>1, MatchScanAssumption DEF Seen
  <2> QED
    BY <2>2, <2>3, BlockKeySeen
<1>5. SameBlock(Found[r], Found[q])
  BY <1>1, <1>4 DEF SameBlock
<1> QED
  BY <1>1, <1>3, <1>5, PairsAreClustered

(* What a scan has read and not stored yet is still to be stored.          *)
Seeks(s) ==
  scan[s].at # "idle" =>
    \A r, q \in Records : Sought(scan[s].read, r, q) =>
      \/ \E cluster \in scan[s].todo : {r, q} \subseteq cluster.members
      \/ \E f \in scan[s].known : {r, q} \subseteq findings[f].members

LEMMA SeeksOn ==
  ASSUME Inv, FindingsGrow, NEW s \in Scanners, Seeks(s), scan'[s] = scan[s]
  PROVE  Seeks(s)'
<1> SUFFICES ASSUME scan[s].at # "idle", NEW r \in Records, NEW q \in Records, Sought(scan[s].read, r, q)
             PROVE  \/ \E cluster \in scan[s].todo : {r, q} \subseteq cluster.members
                    \/ \E f \in scan[s].known : {r, q} \subseteq findings'[f].members
  BY DEF Seeks, Sought, Duplicates
<1>1. CASE \E cluster \in scan[s].todo : {r, q} \subseteq cluster.members
  BY <1>1
<1>2. CASE \E f \in scan[s].known : {r, q} \subseteq findings[f].members
  <2>1. PICK f \in scan[s].known : {r, q} \subseteq findings[f].members
    BY <1>2
  <2>2. findings'[f].members = findings[f].members
    BY DEF Inv, ScanOK, FindingsGrow
  <2> QED
    BY <2>1, <2>2
<1> QED
  BY <1>1, <1>2 DEF Seeks

LEMMA SeeksNext ==
  Inv /\ (\A s \in Scanners : Seeks(s)) /\ [Next]_vars => (\A s \in Scanners : Seeks(s)')
<1> SUFFICES ASSUME Inv, \A s \in Scanners : Seeks(s), [Next]_vars, NEW t \in Scanners
             PROVE  Seeks(t)'
  OBVIOUS
<1>1. FindingsGrow
  BY InvNext
<1>2. ASSUME UNCHANGED scan
      PROVE  Seeks(t)'
  BY <1>1, <1>2, SeeksOn
<1>3. CASE \/ \E r \in Records, row \in Rows : Create(r, row) \/ Update(r, row)
           \/ \E f \in DOMAIN findings :
                \/ Resolve(f) \/ Ignore(f)
                \/ \E master \in findings[f].members, victims \in SUBSET findings[f].members :
                     Merge(f, master, victims)
           \/ UNCHANGED vars
  <2>1. UNCHANGED scan
    BY <1>3 DEF Create, Update, Resolve, Ignore, Merge, vars
  <2> QED
    BY <1>2, <2>1
<1>4. ASSUME NEW s \in Scanners, \A u \in Scanners \ {s} : scan'[u] = scan[u], Seeks(s)'
      PROVE  Seeks(t)'
  <2>1. CASE t = s
    BY <1>4, <2>1
  <2>2. CASE t # s
    BY <1>1, <1>4, <2>2, SeeksOn
  <2> QED
    BY <2>1, <2>2
<1>5. ASSUME NEW s \in Scanners, ScanLoad(s)
      PROVE  Seeks(t)'
  <2>1. scan'[s].read = table /\ scan'[s].todo = ScanClusters(Found)
        /\ \A u \in Scanners \ {s} : scan'[u] = scan[u]
    BY <1>5, LoadStep
  <2>2. ASSUME NEW r \in Records, NEW q \in Records, Sought(scan'[s].read, r, q)
        PROVE  \E cluster \in scan'[s].todo : {r, q} \subseteq cluster.members
    BY <2>1, <2>2, DuplicatesAreClustered DEF Inv
  <2>3. Seeks(s)'
    BY <2>2 DEF Seeks, Sought, Duplicates
  <2> QED
    BY <1>4, <2>1, <2>3
<1>6. ASSUME NEW s \in Scanners, ScanHashes(s)
      PROVE  Seeks(t)'
  <2>1. /\ \A u \in Scanners \ {s} : scan'[u] = scan[u]
        /\ scan[s].at = "hashes"
        /\ scan'[s].read = scan[s].read /\ scan'[s].todo = scan[s].todo
    BY <1>6, HashesStep
  <2>2. scan[s].known = {}
    BY <2>1 DEF Inv, ScanOK
  <2>3. ASSUME NEW r \in Records, NEW q \in Records, Sought(scan'[s].read, r, q)
        PROVE  \E cluster \in scan'[s].todo : {r, q} \subseteq cluster.members
    BY <2>1, <2>2, <2>3 DEF Seeks
  <2>4. Seeks(s)'
    BY <2>3 DEF Seeks, Sought, Duplicates
  <2> QED
    BY <1>4, <2>1, <2>4
<1>7. ASSUME NEW s \in Scanners, ScanFails(s)
      PROVE  Seeks(t)'
  <2>1. scan'[s] = Idle /\ \A u \in Scanners \ {s} : scan'[u] = scan[u]
    BY <1>7, FailsStep
  <2>2. Seeks(s)'
    BY <2>1 DEF Seeks, Idle
  <2> QED
    BY <1>4, <2>1, <2>2
<1>8. ASSUME NEW s \in Scanners, NEW cluster \in scan[s].todo, ScanInsert(s, cluster)
      PROVE  Seeks(t)'
  <2>1. /\ \A u \in Scanners \ {s} : scan'[u] = scan[u]
        /\ scan[s].at = "insert"
        /\ scan'[s].read = scan[s].read /\ scan'[s].todo = scan[s].todo \ {cluster}
        /\ scan[s].known \subseteq scan'[s].known
    BY <1>8, InsertStep
  <2>2. \E f \in scan'[s].known : cluster.members \subseteq findings'[f].members
    <3>1. CASE Known(s, cluster)
      <4>1. UNCHANGED findings /\ scan'[s].known = scan[s].known
        BY <1>8, <3>1, InsertStep
      <4> QED
        BY <3>1, <4>1 DEF Known
    <3>2. CASE ~Known(s, cluster)
      <4>1. PICK new \in Nat : /\ ~Known(s, cluster) /\ scan'[s].known = scan[s].known \cup {new}
                               /\ new \notin DOMAIN findings /\ DOMAIN findings' = DOMAIN findings \cup {new}
                               /\ findings'[new].members = cluster.members /\ findings'[new].by = s
        BY <1>8, <3>2, InsertStep
      <4> QED
        BY <4>1
    <3> QED
      BY <3>1, <3>2
  <2>3. ASSUME NEW r \in Records, NEW q \in Records, Sought(scan'[s].read, r, q)
        PROVE  \/ \E other \in scan'[s].todo : {r, q} \subseteq other.members
               \/ \E f \in scan'[s].known : {r, q} \subseteq findings'[f].members
    <3>1. CASE \E other \in scan[s].todo : {r, q} \subseteq other.members
      <4>1. PICK other \in scan[s].todo : {r, q} \subseteq other.members
        BY <3>1
      <4>2. CASE other = cluster
        BY <2>2, <4>1, <4>2
      <4>3. CASE other # cluster
        BY <2>1, <4>1, <4>3
      <4> QED
        BY <4>2, <4>3
    <3>2. CASE \E f \in scan[s].known : {r, q} \subseteq findings[f].members
      <4>1. PICK f \in scan[s].known : {r, q} \subseteq findings[f].members
        BY <3>2
      <4>2. findings'[f].members = findings[f].members
        BY <1>1 DEF Inv, ScanOK, FindingsGrow
      <4> QED
        BY <2>1, <4>1, <4>2
    <3> QED
      BY <2>1, <2>3, <3>1, <3>2 DEF Seeks
  <2>4. Seeks(s)'
    BY <2>3 DEF Seeks, Sought, Duplicates
  <2> QED
    BY <1>4, <2>1, <2>4
<1> QED
  BY <1>3, <1>5, <1>6, <1>7, <1>8 DEF Next

(* A scan that is done has left every pair of duplicates it read in a      *)
(* finding, if it has read the key of their block, whatever scans and      *)
(* stewards do beside it (scan_clusters, insert_findings).                 *)
THEOREM ScanLosesNothing == Spec => []ScanFindsAll
<1>1. Init => \A s \in Scanners : Seeks(s)
  BY DEF Init, Idle, Seeks
<1>2. Inv /\ (\A s \in Scanners : Seeks(s)) /\ [Next]_vars => (\A s \in Scanners : Seeks(s))'
  BY SeeksNext
<1>3. Inv /\ (\A s \in Scanners : Seeks(s)) => ScanFindsAll
  BY DEF Inv, ScanOK, Seeks, ScanFindsAll
<1> QED
  BY <1>1, <1>2, <1>3, InvHolds, PTL DEF Spec

-----------------------------------------------------------------------------
(* What is pending twice.                                                  *)

(* From when it has read the pending findings, a scan that is alive knows  *)
(* those of them that it has stored itself.                                *)
KnowsItsOwn ==
  /\ ScannerRepeatsNothing
  /\ \A s \in Scanners : scan[s].at = "insert" =>
       \A f \in Pending : findings[f].by = s => f \in scan[s].known

LEMMA FewerPending ==
  ASSUME FindingsGrow, DOMAIN findings' = DOMAIN findings, ScannerRepeatsNothing
  PROVE  /\ ScannerRepeatsNothing'
         /\ \A f \in Pending' : f \in Pending /\ findings'[f].by = findings[f].by
<1>1. \A f \in Pending' : f \in Pending
  BY DEF FindingsGrow, Pending
<1>2. \A f \in Pending : findings'[f].members = findings[f].members /\ findings'[f].by = findings[f].by
  BY DEF FindingsGrow, Pending
<1> QED
  BY <1>1, <1>2 DEF ScannerRepeatsNothing

LEMMA KnowsNext == Inv /\ KnowsItsOwn /\ [Next]_vars => KnowsItsOwn'
<1> SUFFICES ASSUME Inv, KnowsItsOwn, [Next]_vars PROVE KnowsItsOwn'
  OBVIOUS
<1>1. FindingsGrow
  BY InvNext
<1>2. ASSUME DOMAIN findings' = DOMAIN findings,
             \A s \in Scanners : scan'[s].at = "insert" =>
               \A f \in Pending : findings[f].by = s => f \in scan'[s].known
      PROVE  KnowsItsOwn'
  BY <1>1, <1>2, FewerPending DEF KnowsItsOwn
<1>3. CASE \/ \E r \in Records, row \in Rows : Create(r, row) \/ Update(r, row)
           \/ \E f \in DOMAIN findings : \E master \in findings[f].members, victims \in SUBSET findings[f].members :
                Merge(f, master, victims)
           \/ UNCHANGED vars
  <2>1. UNCHANGED <<scan, findings>>
    BY <1>3 DEF Create, Update, Merge, vars
  <2> QED
    BY <1>2, <2>1 DEF KnowsItsOwn
<1>4. ASSUME NEW f \in DOMAIN findings, Resolve(f) \/ Ignore(f)
      PROVE  KnowsItsOwn'
  <2>1. UNCHANGED scan
    BY <1>4 DEF Resolve, Ignore
  <2>2. DOMAIN findings' = DOMAIN findings
    BY <1>4 DEF Resolve, Ignore, Settled
  <2> QED
    BY <1>2, <2>1, <2>2 DEF KnowsItsOwn
<1>5. ASSUME NEW s \in Scanners, ScanLoad(s) \/ ScanFails(s)
      PROVE  KnowsItsOwn'
  <2>1. /\ UNCHANGED findings /\ scan'[s].at # "insert"
        /\ \A t \in Scanners \ {s} : scan'[t] = scan[t]
    <3>1. CASE ScanLoad(s)
      BY <3>1, LoadStep
    <3>2. CASE ScanFails(s)
      <4>1. /\ UNCHANGED findings /\ scan'[s] = Idle
            /\ \A t \in Scanners \ {s} : scan'[t] = scan[t]
        BY <3>2, FailsStep
      <4> QED
        BY <4>1 DEF Idle
    <3> QED
      BY <1>5, <3>1, <3>2
  <2>2. \A t \in Scanners : scan'[t].at = "insert" => t # s /\ scan'[t] = scan[t]
    BY <2>1
  <2> QED
    BY <1>2, <2>1, <2>2 DEF KnowsItsOwn
<1>6. ASSUME NEW s \in Scanners, ScanHashes(s)
      PROVE  KnowsItsOwn'
  <2>1. /\ UNCHANGED findings /\ scan'[s].known = Pending
        /\ \A t \in Scanners \ {s} : scan'[t] = scan[t]
    BY <1>6, HashesStep
  <2> QED
    BY <1>2, <2>1 DEF KnowsItsOwn
<1>7. ASSUME NEW s \in Scanners, NEW cluster \in scan[s].todo, ScanInsert(s, cluster)
      PROVE  KnowsItsOwn'
  <2>1. /\ scan[s].at = "insert" /\ \A t \in Scanners \ {s} : scan'[t] = scan[t]
        /\ \A f \in Pending : findings[f].by = s => f \in scan[s].known
    BY <1>7, InsertStep DEF KnowsItsOwn
  <2>2. CASE UNCHANGED findings /\ scan'[s].known = scan[s].known
    BY <1>2, <2>1, <2>2 DEF KnowsItsOwn
  <2>3. CASE ~(UNCHANGED findings /\ scan'[s].known = scan[s].known)
    <3>1. PICK new \in Nat : /\ ~Known(s, cluster) /\ scan'[s].known = scan[s].known \cup {new}
                             /\ new \notin DOMAIN findings /\ DOMAIN findings' = DOMAIN findings \cup {new}
                             /\ findings'[new].members = cluster.members /\ findings'[new].by = s
      BY <1>7, <2>3, InsertStep
    <3>2. \A f \in Pending' : f # new => f \in Pending
      BY <1>1, <3>1 DEF FindingsGrow, Pending
    <3>3. \A f \in Pending : findings'[f].members = findings[f].members /\ findings'[f].by = findings[f].by
      BY <1>1 DEF FindingsGrow, Pending
    <3>4. \A f \in Pending : findings[f].by = s => findings[f].members # cluster.members
      BY <2>1, <3>1 DEF Known
    <3>5. ScannerRepeatsNothing'
      BY <3>1, <3>2, <3>3, <3>4 DEF KnowsItsOwn, ScannerRepeatsNothing
    <3>6. ASSUME NEW t \in Scanners, scan'[t].at = "insert", NEW f \in Pending', findings'[f].by = t
          PROVE  f \in scan'[t].known
      <4>1. CASE t = s
        BY <2>1, <3>1, <3>2, <3>3, <3>6, <4>1
      <4>2. CASE t # s
        BY <2>1, <3>1, <3>2, <3>3, <3>6, <4>2 DEF KnowsItsOwn
      <4> QED
        BY <4>1, <4>2
    <3> QED
      BY <3>5, <3>6 DEF KnowsItsOwn
  <2> QED
    BY <2>2, <2>3
<1> QED
  BY <1>3, <1>4, <1>5, <1>6, <1>7 DEF Next

(* A scanner stores no finding that it has stored and that is pending, for *)
(* any number of scanners: with one scan at a time "findings with the same *)
(* members that are pending are not stored twice", otherwise at most once  *)
(* by each (scan_store).                                                   *)
THEOREM NobodyRepeatsPending == Spec => []ScannerRepeatsNothing
<1>1. Init => KnowsItsOwn
  BY DEF Init, Idle, Pending, KnowsItsOwn, ScannerRepeatsNothing
<1>2. Inv /\ KnowsItsOwn /\ [Next]_vars => KnowsItsOwn'
  BY KnowsNext
<1>3. KnowsItsOwn => ScannerRepeatsNothing
  BY DEF KnowsItsOwn
<1> QED
  BY <1>1, <1>2, <1>3, InvHolds, PTL DEF Spec
=============================================================================
