--------------------------- MODULE Monitor_proofs ---------------------------
(***************************************************************************)
(* Proofs about Monitor, for any ids, any things a snapshot shows, any     *)
(* room in the channel and any number of batches in flight: types, that    *)
(* the monitor's set of ids is exact, that a change on its way is not      *)
(* lost, and that the daemon's graph is a reading of the server.           *)
(*                                                                         *)
(* What carries the two in the middle is Told: the last batch in the pipe  *)
(* that names an id says what that id holds now, and an id no batch names  *)
(* is judged rightly already.                                              *)
(***************************************************************************)
EXTENDS Monitor, TLAPS

Things == Kinds \cup {None}

\* Batch n is the last one in the pipe that names i.
LastWord(n, i) ==
    /\ n \in 1..Len(pipe)
    /\ i \in DOMAIN pipe[n]
    /\ \A k \in 1..Len(pipe) : k > n => i \notin DOMAIN pipe[k]

Told ==
    monitor = "running" => \A i \in Ids :
        /\ ~Announced(i) => (i \in relevant <=> objects[i] \in Looks)
        /\ \A n \in 1..Len(pipe) : LastWord(n, i) => pipe[n][i] = objects[i]

\* pw-dump's own connection is the object it is taken for.
DumperIsClient == dumper # None => dumper \in Ids /\ objects[dumper] = Client

\* Nobody is connected to a server that is down.
Outage == ~up => monitor # "running" /\ dumper = None

Types == TypeOK /\ pipe \in Seq(Batch)

----------------------------------------------------------------------------
(* Batches and the pipe. *)

\* A function from ids to what they hold is a batch.
LEMMA BatchOf ==
    ASSUME NEW ids \in SUBSET Ids, NEW b \in [ids -> Things]
    PROVE  b \in Batch
BY DEF Batch, Things

\* A batch is a function from ids to what they hold.
LEMMA OfBatch ==
    ASSUME NEW b \in Batch
    PROVE  DOMAIN b \subseteq Ids /\ \A i \in DOMAIN b : b[i] \in Things
BY DEF Batch, Things

\* What Append does to the pipe.
LEMMA Appended ==
    ASSUME NEW p \in Seq(Batch), NEW b \in Batch
    PROVE  /\ Append(p, b) \in Seq(Batch)
           /\ Len(Append(p, b)) = Len(p) + 1
           /\ \A n \in 1..Len(p) : Append(p, b)[n] = p[n]
           /\ Append(p, b)[Len(p) + 1] = b
OBVIOUS

\* What Tail does to it.
LEMMA Tailed ==
    ASSUME NEW p \in Seq(Batch), p # <<>>
    PROVE  /\ Tail(p) \in Seq(Batch)
           /\ Len(p) \in Nat \ {0}
           /\ Len(Tail(p)) = Len(p) - 1
           /\ \A n \in 1..Len(p) - 1 : Tail(p)[n] = p[n + 1]
           /\ Head(p) = p[1] /\ Head(p) \in Batch
OBVIOUS

\* The types of what an object's change leaves behind.
LEMMA BecomesTypes ==
    ASSUME Types, NEW i \in Ids, NEW kind \in Things, Becomes(i, kind)
    PROVE  /\ objects' \in [Ids -> Things]
           /\ objects' = [objects EXCEPT ![i] = kind]
           /\ pipe' \in Seq(Batch) /\ Len(pipe') <= MaxBatches
           /\ \A n \in 1..Len(pipe') : pipe'[n] \in Batch
           /\ UNCHANGED <<monitor, relevant>>
<1> DEFINE b == [x \in {i} |-> kind]
<1>1. b \in Batch
  BY BatchOf, {i} \in SUBSET Ids, b \in [{i} -> Things]
<1>2. objects' \in [Ids -> Things] /\ objects' = [objects EXCEPT ![i] = kind]
  BY DEF Types, TypeOK, Becomes, Things
<1>3. pipe' = IF monitor = "running" THEN Append(pipe, b) ELSE pipe
  BY DEF Becomes, Reports
<1>4. pipe' \in Seq(Batch) /\ Len(pipe') <= MaxBatches
  <2>1. CASE monitor = "running"
    <3>1. Len(pipe) < MaxBatches
      BY <2>1 DEF Becomes, Reports
    <3>2. pipe' = Append(pipe, b)
      BY <1>3, <2>1
    <3> QED  BY <1>1, <3>1, <3>2, Appended, MonitorAssumption DEF Types
  <2>2. CASE monitor # "running"
    BY <1>3, <2>2 DEF Types, TypeOK
  <2> QED  BY <2>1, <2>2
<1>5. \A n \in 1..Len(pipe') : pipe'[n] \in Batch
  BY <1>4
<1> QED  BY <1>2, <1>4, <1>5 DEF Becomes, Reports

----------------------------------------------------------------------------
(* Types. *)

LEMMA InitTypes == Init => Types
<1> SUFFICES ASSUME Init PROVE Types
  OBVIOUS
<1>1. Shown \in Pictures
  BY DEF Shown, Pictures
<1>2. pipe \in Seq(Batch) /\ Len(pipe) = 0
  BY DEF Init
<1>3. \A n \in 1..Len(pipe) : pipe[n] \in Batch
  BY <1>2
<1>4. 0 \in 0..Capacity /\ 0 <= MaxBatches
  BY MonitorAssumption
<1> QED  BY <1>1, <1>2, <1>3, <1>4 DEF Init, Types, TypeOK

\* A full channel stays within its room.
LEMMA WokenInRoom ==
    ASSUME TypeOK
    PROVE  Woken \in 0..Capacity /\ Woken # 0
BY MonitorAssumption DEF TypeOK, Woken, Least

\* The World's steps keep the types.
LEMMA WorldTypes ==
    ASSUME Types, World
    PROVE  Types'
<1>1. ASSUME NEW i \in Ids, NEW kind \in Looks \cup {Client}, Appear(i, kind)
      PROVE  Types'
  <2>1. kind \in Things
    BY DEF Things, Kinds, Visible
  <2> QED  BY <1>1, <2>1, BecomesTypes DEF Appear, Types, TypeOK, refreshing, Things
<1>2. ASSUME NEW i \in Ids, NEW kind \in Visible, Change(i, kind)
      PROVE  Types'
  <2>1. kind \in Things
    BY DEF Things, Kinds
  <2> QED  BY <1>2, <2>1, BecomesTypes DEF Change, Types, TypeOK, refreshing, Things
<1>3. ASSUME NEW i \in Ids, Vanish(i)
      PROVE  Types'
  BY <1>3, BecomesTypes, None \in Things DEF Vanish, Types, TypeOK, refreshing, Things
<1>4. CASE ServerStops
  BY <1>4 DEF ServerStops, Types, TypeOK
<1>5. CASE ServerStarts
  <2>1. objects' \in [Ids -> Things]
    BY <1>5 DEF ServerStarts, Things, Kinds, Visible
  <2> QED  BY <1>5, <2>1 DEF ServerStarts, Types, TypeOK, watch, refreshing, Things
<1>6. CASE MonitorDies
  BY <1>6 DEF MonitorDies, Types, TypeOK, server, refreshing
<1>7. CASE Calm
  BY <1>7 DEF Calm, Types, TypeOK, server, watch, refreshing
<1> QED  BY <1>1, <1>2, <1>3, <1>4, <1>5, <1>6, <1>7 DEF World

\* So do watch_pipewire's.
LEMMA WatchingTypes ==
    ASSUME Types, Watching
    PROVE  Types'
<1>1. CASE MonitorStarts
  <2>1. FullDump \in Batch
    BY BatchOf, Present \in SUBSET Ids, FullDump \in [Present -> Things]
       DEF FullDump, Present, Types, TypeOK, Things
  <2>2. pipe' \in Seq(Batch) /\ Len(pipe') = 1 /\ relevant' = {}
    BY <1>1, <2>1 DEF MonitorStarts
  <2>3. \A n \in 1..Len(pipe') : pipe'[n] \in Batch
    BY <2>2
  <2> QED  BY <1>1, <2>2, <2>3, MonitorAssumption
           DEF MonitorStarts, Types, TypeOK, server, refreshing
<1>2. CASE MonitorReads
  <2>1. /\ pipe' \in Seq(Batch) /\ Len(pipe') <= MaxBatches
        /\ Head(pipe) \in Batch
    BY <1>2, Tailed, MonitorAssumption DEF MonitorReads, Types, TypeOK
  <2>2. \A n \in 1..Len(pipe') : pipe'[n] \in Batch
    BY <2>1
  <2>3. relevant' \subseteq Ids
    BY <1>2, <2>1, OfBatch DEF MonitorReads, RelevantAfter, Types, TypeOK
  <2>4. wakeups' \in 0..Capacity
    BY <1>2, WokenInRoom DEF MonitorReads, Types, TypeOK
  <2> QED  BY <1>2, <2>1, <2>2, <2>3, <2>4
           DEF MonitorReads, Types, TypeOK, server, refreshing
<1>3. CASE MonitorEnds
  BY <1>3 DEF MonitorEnds, Types, TypeOK, server, refreshing
<1> QED  BY <1>1, <1>2, <1>3 DEF Watching

\* So do the main loop's.
LEMMA FollowingTypes ==
    ASSUME Types, Following
    PROVE  Types'
<1>1. CASE Wake
  <2>1. wakeups' \in 0..Capacity
    BY <1>1, MonitorAssumption DEF Wake, Types, TypeOK
  <2> QED  BY <1>1, <2>1 DEF Wake, Types, TypeOK, server, watch
<1>2. CASE Drain
  <2>1. 0 \in 0..Capacity
    BY MonitorAssumption
  <2>2. CASE ~up
    BY <1>2, <2>1, <2>2 DEF Drain, Types, TypeOK, watch
  <2>3. CASE up
    <3>1. PICK i \in Ids : dumper' = i /\ Becomes(i, Client)
      BY <1>2, <2>3 DEF Drain, Free
    <3>2. Client \in Things
      BY DEF Things, Kinds, Visible
    <3> QED  BY <1>2, <2>1, <3>1, <3>2, BecomesTypes DEF Drain, Types, TypeOK, Things
  <2> QED  BY <2>2, <2>3 DEF Types, TypeOK
<1>3. CASE PwDump
  <2>1. Shown \in Pictures
    BY DEF Shown, Pictures
  <2>2. reading' \in Pictures /\ failed' \in BOOLEAN
    BY <1>3, <2>1 DEF PwDump, Types, TypeOK
  <2>3. CASE dumper = None
    BY <1>3, <2>2, <2>3 DEF PwDump, Types, TypeOK, watch
  <2>4. CASE dumper # None
    <3>1. dumper \in Ids /\ Becomes(dumper, None) /\ None \in Things
      BY <1>3, <2>4 DEF PwDump, Types, TypeOK, Things
    <3> QED  BY <1>3, <2>2, <3>1, BecomesTypes DEF PwDump, Types, TypeOK, Things
  <2> QED  BY <2>3, <2>4
<1>4. CASE Decide
  BY <1>4 DEF Decide, Types, TypeOK, server, watch
<1> QED  BY <1>1, <1>2, <1>3, <1>4 DEF Following

\* Every step keeps the types.
LEMMA NextTypes == Types /\ [Next]_vars => Types'
<1> SUFFICES ASSUME Types, [Next]_vars PROVE Types'
  OBVIOUS
<1>1. CASE World
  BY <1>1, WorldTypes
<1>2. CASE Watching
  BY <1>2, WatchingTypes
<1>3. CASE Tick
  BY <1>3, WokenInRoom DEF Tick, Types, TypeOK, server, watch, refreshing
<1>4. CASE Request
  BY <1>4, WokenInRoom DEF Request, Types, TypeOK, server, watch, refreshing
<1>5. CASE Following
  BY <1>5, FollowingTypes
<1>6. CASE UNCHANGED vars
  BY <1>6 DEF vars, Types, TypeOK, server, watch, refreshing
<1> QED  BY <1>1, <1>2, <1>3, <1>4, <1>5, <1>6 DEF Next

\* Whatever PipeWire, pw-dump and the requests do, every variable keeps its type: the
\* channel of wake-ups stays within its room, and pictures stay pictures.
THEOREM TypeCorrect == Spec => []TypeOK
<1>1. Types => TypeOK
  BY DEF Types
<1> QED  BY <1>1, InitTypes, NextTypes, PTL DEF Spec

----------------------------------------------------------------------------
(* The graph is a reading of the server. *)

LEMMA InitReading == Init => Abstract!Init
<1> SUFFICES ASSUME Init PROVE Abstract!Init
  OBVIOUS
<1>1. Shown \in Pictures
  BY DEF Shown, Pictures
<1> QED  BY <1>1 DEF Init, Abstract!Init

\* A step either reads, or takes the reading over, or leaves both alone.
LEMMA NextReading == [Next]_vars => [Abstract!Next]_(Abstract!vars)
<1> SUFFICES ASSUME [Next]_vars PROVE Abstract!Next \/ UNCHANGED Abstract!vars
  OBVIOUS
<1>1. Shown' \in Pictures
  BY DEF Shown, Pictures
<1>2. ASSUME UNCHANGED <<reading, graph>>
      PROVE  Abstract!Next
  BY <1>1, <1>2 DEF Abstract!Next, Abstract!Change
<1>3. CASE World
  BY <1>2, <1>3 DEF World, Appear, Change, Vanish, ServerStops, ServerStarts, MonitorDies,
                    Calm, refreshing
<1>4. CASE Watching
  BY <1>2, <1>4 DEF Watching, MonitorStarts, MonitorReads, MonitorEnds, refreshing
<1>5. CASE Tick \/ Request
  BY <1>2, <1>5 DEF Tick, Request, refreshing
<1>6. CASE Wake \/ Drain
  BY <1>2, <1>6 DEF Wake, Drain
<1>7. CASE PwDump
  <2>1. CASE reading' = Shown
    BY <1>1, <1>7, <2>1 DEF PwDump, Abstract!Next, Abstract!Read
  <2>2. CASE UNCHANGED reading
    BY <1>2, <1>7, <2>2 DEF PwDump
  <2> QED  BY <1>7, <2>1, <2>2 DEF PwDump
<1>8. CASE Decide
  <2>1. UNCHANGED Shown
    BY <1>8 DEF Decide, server, Shown
  <2>2. CASE failed
    BY <1>2, <1>8, <2>2 DEF Decide
  <2>3. CASE ~failed
    BY <1>8, <2>1, <2>3 DEF Decide, Abstract!Next, Abstract!TakeOver
  <2> QED  BY <2>2, <2>3
<1>9. CASE UNCHANGED vars
  BY <1>2, <1>9 DEF vars, refreshing
<1> QED  BY <1>3, <1>4, <1>5, <1>6, <1>7, <1>8, <1>9 DEF Next, Following

\* The daemon's graph is what the server showed at one moment: no refresh that fails,
\* no outage and no wake-up that is dropped puts anything else in its place.
THEOREM GraphIsAReading == Spec => ServesReadings
BY InitReading, NextReading, PTL DEF Spec, ServesReadings, Abstract!Spec

----------------------------------------------------------------------------
(* What the monitor has been told. *)

IInv == Types /\ Told /\ DumperIsClient /\ Outage

LEMMA InitIInv == Init => IInv
BY InitTypes DEF Init, IInv, Told, DumperIsClient, Outage

\* The batch for an object's change is its last word, and the others keep theirs.
LEMMA BecomesTold ==
    ASSUME Types, Told, NEW i \in Ids, NEW kind \in Things, Becomes(i, kind)
    PROVE  Told'
<1> SUFFICES ASSUME monitor = "running", NEW j \in Ids
             PROVE  /\ ~Announced(j)' => (j \in relevant <=> objects'[j] \in Looks)
                    /\ \A n \in 1..Len(pipe') : LastWord(n, j)' => pipe'[n][j] = objects'[j]
  BY BecomesTypes DEF Told
<1> DEFINE b == [x \in {i} |-> kind]
<1>1. b \in Batch /\ DOMAIN b = {i} /\ b[i] = kind
  BY BatchOf, {i} \in SUBSET Ids, b \in [{i} -> Things]
<1>2. pipe' = Append(pipe, b)
  BY DEF Becomes, Reports
<1> HIDE DEF b
<1>3. /\ Len(pipe') = Len(pipe) + 1
      /\ \A n \in 1..Len(pipe) : pipe'[n] = pipe[n]
      /\ pipe'[Len(pipe) + 1] = b
      /\ Len(pipe) \in Nat
  BY <1>1, <1>2, Appended DEF Types
<1>4. objects'[j] = IF j = i THEN kind ELSE objects[j]
  BY BecomesTypes DEF Types, TypeOK, Things
<1>5. CASE j = i
  <2>1. Announced(j)'
    BY <1>1, <1>3, <1>5, Len(pipe) + 1 \in 1..Len(pipe') DEF Announced
  <2>2. ASSUME NEW n \in 1..Len(pipe'), LastWord(n, j)'
        PROVE  pipe'[n][j] = objects'[j]
    <3>1. ~(Len(pipe) + 1 > n)
      BY <1>1, <1>3, <1>5, <2>2, Len(pipe) + 1 \in 1..Len(pipe') DEF LastWord
    <3>2. n = Len(pipe) + 1
      BY <1>3, <3>1
    <3> QED  BY <1>1, <1>3, <1>4, <1>5, <3>2
  <2> QED  BY <2>1, <2>2
<1>6. CASE j # i
  <2>1. Announced(j) => Announced(j)'
    BY <1>3 DEF Announced
  <2>2. j \notin DOMAIN b
    BY <1>1, <1>6
  <2>3. ASSUME NEW n \in 1..Len(pipe'), LastWord(n, j)'
        PROVE  pipe'[n][j] = objects'[j]
    <3>1. n \in 1..Len(pipe)
      BY <1>3, <2>2, <2>3 DEF LastWord
    <3>2. LastWord(n, j)
      BY <1>3, <2>3, <3>1 DEF LastWord
    <3> QED  BY <1>3, <1>4, <1>6, <3>1, <3>2 DEF Told
  <2> QED  BY <1>4, <1>6, <2>1, <2>3 DEF Told
<1> QED  BY <1>5, <1>6

\* Where the monitor and its pipe are left alone, and so are the objects.
LEMMA StillTold ==
    ASSUME Told, UNCHANGED <<objects, monitor, pipe, relevant>>
    PROVE  Told'
BY DEF Told, Announced, LastWord

\* A full dump is the last word on all that is there.
LEMMA StartTold ==
    ASSUME Types, MonitorStarts
    PROVE  Told'
<1> DEFINE b == FullDump
<1>1. pipe' = <<b>> /\ relevant' = {} /\ objects' = objects
  BY DEF MonitorStarts, server
<1>2. DOMAIN b = Present /\ \A i \in Present : b[i] = objects[i]
  BY DEF FullDump
<1> HIDE DEF b
<1>3. Len(pipe') = 1 /\ pipe'[1] = b /\ \A n \in 1..Len(pipe') : n = 1
  BY <1>1
<1>4. ASSUME NEW i \in Ids
      PROVE  ~Announced(i)' => (i \in relevant' <=> objects'[i] \in Looks)
  <2>1. CASE i \in Present
    BY <1>2, <1>3, <2>1 DEF Announced
  <2>2. CASE i \notin Present
    BY <1>1, <2>2, MonitorAssumption DEF Present
  <2> QED  BY <2>1, <2>2
<1>5. ASSUME NEW i \in Ids, NEW n \in 1..Len(pipe'), LastWord(n, i)'
      PROVE  pipe'[n][i] = objects'[i]
  BY <1>1, <1>2, <1>3, <1>5 DEF LastWord
<1> QED  BY <1>4, <1>5 DEF Told

\* What the first batch says is taken over, unless a later one says more.
LEMMA ReadTold ==
    ASSUME Types, Told, MonitorReads
    PROVE  Told'
<1> SUFFICES ASSUME monitor = "running", NEW i \in Ids
             PROVE  /\ ~Announced(i)' => (i \in relevant' <=> objects[i] \in Looks)
                    /\ \A n \in 1..Len(pipe') : LastWord(n, i)' => pipe'[n][i] = objects[i]
  BY DEF Told, MonitorReads, server
<1>1. /\ pipe' = Tail(pipe) /\ relevant' = RelevantAfter(pipe[1])
      /\ Len(pipe) \in Nat \ {0} /\ Len(pipe') = Len(pipe) - 1
      /\ \A n \in 1..Len(pipe) - 1 : pipe'[n] = pipe[n + 1]
  BY Tailed DEF MonitorReads, Types
<1>2. ASSUME ~Announced(i)'
      PROVE  i \in relevant' <=> objects[i] \in Looks
  <2>1. \A n \in 2..Len(pipe) : i \notin DOMAIN pipe[n]
    <3> SUFFICES ASSUME NEW n \in 2..Len(pipe) PROVE i \notin DOMAIN pipe[n]
      OBVIOUS
    <3>1. n - 1 \in 1..Len(pipe') /\ pipe'[n - 1] = pipe[n]
      BY <1>1
    <3> QED  BY <1>2, <3>1 DEF Announced
  <2>2. CASE i \in DOMAIN pipe[1]
    <3>1. LastWord(1, i)
      BY <1>1, <2>1, <2>2 DEF LastWord
    <3>2. pipe[1][i] = objects[i]
      BY <1>1, <3>1 DEF Told
    <3> QED  BY <1>1, <2>2, <3>2 DEF RelevantAfter
  <2>3. CASE i \notin DOMAIN pipe[1]
    <3>1. ~Announced(i)
      BY <1>1, <2>1, <2>3 DEF Announced
    <3> QED  BY <1>1, <2>3, <3>1 DEF RelevantAfter, Told
  <2> QED  BY <2>2, <2>3
<1>3. ASSUME NEW n \in 1..Len(pipe'), LastWord(n, i)'
      PROVE  pipe'[n][i] = objects[i]
  <2>1. n + 1 \in 1..Len(pipe) /\ pipe'[n] = pipe[n + 1]
    BY <1>1
  <2>2. ASSUME NEW k \in 1..Len(pipe), k > n + 1
        PROVE  i \notin DOMAIN pipe[k]
    <3>1. k - 1 \in 1..Len(pipe') /\ k - 1 > n /\ pipe'[k - 1] = pipe[k]
      BY <1>1, <2>2
    <3> QED  BY <1>3, <3>1 DEF LastWord
  <2>3. LastWord(n + 1, i)
    BY <1>3, <2>1, <2>2 DEF LastWord
  <2> QED  BY <2>1, <2>3 DEF Told
<1> QED  BY <1>2, <1>3

\* An object that is not pw-dump's comes, changes or goes.
ByOthers(i, kind) ==
    /\ Becomes(i, kind)
    /\ i # dumper
    /\ UNCHANGED <<wakeups, loop, dumper, reading, failed, graph, stale>>

\* The steps of the world, by what they do to the objects and to the monitor.
LEMMA WorldSteps ==
    ASSUME Types, DumperIsClient, Outage, World
    PROVE  \/ \E i \in Ids, kind \in Things : ByOthers(i, kind)
           \/ monitor' # "running" /\ dumper' = None
           \/ monitor' # "running" /\ UNCHANGED <<objects, dumper>>
           \/ UNCHANGED <<objects, monitor, pipe, relevant, wakeups, loop, dumper, reading,
                          failed, graph, stale>>
<1>1. ASSUME NEW i \in Ids, NEW kind \in Looks \cup {Client}, Appear(i, kind)
      PROVE  ByOthers(i, kind)
  BY <1>1, MonitorAssumption DEF Appear, ByOthers, refreshing, DumperIsClient, Free, Present
<1>2. ASSUME NEW i \in Ids, NEW kind \in Visible, Change(i, kind)
      PROVE  ByOthers(i, kind)
  BY <1>2, MonitorAssumption DEF Change, ByOthers, refreshing, DumperIsClient
<1>3. ASSUME NEW i \in Ids, Vanish(i)
      PROVE  ByOthers(i, None)
  BY <1>3 DEF Vanish, ByOthers, refreshing
<1>4. CASE ServerStops
  BY <1>4 DEF ServerStops
<1>5. CASE ServerStarts
  BY <1>5 DEF ServerStarts, Outage, watch, refreshing
<1>6. CASE MonitorDies
  BY <1>6 DEF MonitorDies, server, refreshing
<1>7. CASE Calm
  BY <1>7 DEF Calm, server, watch, refreshing
<1>8. Looks \cup {Client} \subseteq Things /\ Visible \subseteq Things /\ None \in Things
  BY DEF Things, Kinds, Visible
<1> QED  BY <1>1, <1>2, <1>3, <1>4, <1>5, <1>6, <1>7, <1>8 DEF World

\* Connections are made to a server that runs, and end with it.
LEMMA NextOutage == Outage /\ [Next]_vars => Outage'
<1> SUFFICES ASSUME Outage, [Next]_vars PROVE Outage'
  OBVIOUS
<1>1. CASE World
  BY <1>1 DEF World, Appear, Change, Vanish, ServerStops, ServerStarts, MonitorDies, Calm,
              Becomes, Reports, Outage, server, watch, refreshing
<1>2. CASE Watching
  BY <1>2 DEF Watching, MonitorStarts, MonitorReads, MonitorEnds, Outage, server, refreshing
<1>3. CASE Following
  BY <1>3 DEF Following, Wake, Drain, PwDump, Decide, Becomes, Reports, Outage, server, watch
<1>4. CASE Tick \/ Request \/ UNCHANGED vars
  BY <1>4 DEF Tick, Request, vars, Outage, server, watch, refreshing
<1> QED  BY <1>1, <1>2, <1>3, <1>4 DEF Next

\* What pw-dump does to the objects as it connects and as it disconnects.
LEMMA OwnSteps ==
    ASSUME Types, DumperIsClient, Drain \/ PwDump
    PROVE  /\ DumperIsClient'
           /\ \/ \E i \in Ids, kind \in Things : Becomes(i, kind)
              \/ UNCHANGED <<objects, monitor, pipe, relevant>>
<1>1. CASE Drain
  <2>1. CASE ~up
    BY <1>1, <2>1 DEF Drain, DumperIsClient, watch
  <2>2. CASE up
    <3>1. PICK i \in Ids : dumper' = i /\ Becomes(i, Client)
      BY <1>1, <2>2 DEF Drain, Free
    <3>2. Client \in Things
      BY DEF Things, Kinds, Visible
    <3>3. objects'[i] = Client
      BY <3>1, <3>2, BecomesTypes DEF Types, TypeOK, Things
    <3> QED  BY <3>1, <3>2, <3>3 DEF DumperIsClient
  <2> QED  BY <2>1, <2>2
<1>2. CASE PwDump
  <2>1. None \in Things
    BY DEF Things
  <2> QED  BY <1>2, <2>1 DEF PwDump, DumperIsClient, watch
<1> QED  BY <1>1, <1>2

LEMMA NextIInv == IInv /\ [Next]_vars => IInv'
<1> SUFFICES ASSUME IInv, [Next]_vars PROVE IInv'
  OBVIOUS
<1> USE DEF IInv
<1>1. Types'
  BY NextTypes
<1>2. Told' /\ DumperIsClient'
  <2>1. CASE World
    <3>1. ASSUME NEW i \in Ids, NEW kind \in Things, ByOthers(i, kind)
          PROVE  Told' /\ DumperIsClient'
      <4>1. objects' = [objects EXCEPT ![i] = kind]
        BY <3>1, BecomesTypes DEF ByOthers
      <4> QED  BY <3>1, <4>1, BecomesTold DEF ByOthers, DumperIsClient, Types, TypeOK
    <3>2. CASE monitor' # "running" /\ (dumper' = None \/ UNCHANGED <<objects, dumper>>)
      BY <3>2 DEF Told, DumperIsClient
    <3>3. CASE UNCHANGED <<objects, monitor, pipe, relevant, dumper>>
      BY <3>3, StillTold DEF DumperIsClient
    <3> QED  BY <2>1, <3>1, <3>2, <3>3, WorldSteps
  <2>2. CASE Watching
    <3>1. DumperIsClient'
      BY <2>2 DEF Watching, MonitorStarts, MonitorReads, MonitorEnds, server, refreshing,
                  DumperIsClient
    <3>2. CASE MonitorEnds
      BY <3>1, <3>2 DEF MonitorEnds, Told
    <3> QED  BY <2>2, <3>1, <3>2, StartTold, ReadTold DEF Watching
  <2>3. CASE Drain \/ PwDump
    BY <2>3, OwnSteps, BecomesTold, StillTold
  <2>4. CASE Wake \/ Decide \/ Tick \/ Request \/ UNCHANGED vars
    BY <2>4, StillTold
       DEF Wake, Decide, Tick, Request, vars, server, watch, refreshing, DumperIsClient
  <2> QED  BY <2>1, <2>2, <2>3, <2>4 DEF Next, Following
<1>3. Outage'
  BY NextOutage
<1> QED  BY <1>1, <1>2, <1>3

\* An id the server hands out again is judged by what it holds now: when the monitor
\* has read everything, the ids it calls relevant are the relevant ones.
THEOREM RelevantIdsAreExact == Spec => []RelevantIsExact
<1>1. IInv => RelevantIsExact
  <2> SUFFICES ASSUME IInv, monitor = "running", pipe = <<>> PROVE relevant = Relevant
    BY DEF RelevantIsExact
  <2>1. \A i \in Ids : ~Announced(i)
    BY DEF Announced
  <2> QED  BY <2>1 DEF IInv, Told, Types, TypeOK, Relevant
<1> QED  BY <1>1, InitIInv, NextIInv, PTL DEF Spec

----------------------------------------------------------------------------
(* No change is lost on the way to a refresh. *)

\* What is at hand is a reading: the picture that becomes the graph, or the graph.
AtHand == IF loop = "deciding" THEN ~failed ELSE ~stale

UnderWay ==
    monitor = "running" /\ wakeups = 0 /\ loop \notin {"settling", "reading"} /\ AtHand
        => \A i \in relevant \cup Relevant : Shown[i] # Latest[i] => Announced(i)

\* An object's change is announced by its own batch, and hides no other.
LEMMA BecomesUnderWay ==
    ASSUME IInv, UnderWay, NEW i \in Ids, NEW kind \in Things, Becomes(i, kind),
           UNCHANGED <<wakeups, loop, reading, failed, graph, stale>>
    PROVE  UnderWay'
<1> SUFFICES ASSUME monitor = "running", NEW j \in relevant \cup Relevant',
                    Shown'[j] # Latest'[j],
                    wakeups = 0, loop \notin {"settling", "reading"}, AtHand
             PROVE  Announced(j)'
  BY BecomesTypes DEF UnderWay, AtHand, IInv
<1> DEFINE b == [x \in {i} |-> kind]
<1>1. b \in Batch /\ DOMAIN b = {i}
  BY BatchOf, {i} \in SUBSET Ids, b \in [{i} -> Things]
<1>2. pipe' = Append(pipe, b)
  BY DEF Becomes, Reports
<1> HIDE DEF b
<1>3. /\ Len(pipe') = Len(pipe) + 1 /\ Len(pipe) \in Nat
      /\ \A n \in 1..Len(pipe) : pipe'[n] = pipe[n]
      /\ pipe'[Len(pipe) + 1] = b
  BY <1>1, <1>2, Appended DEF IInv, Types
<1>4. CASE j = i
  BY <1>1, <1>3, <1>4, Len(pipe) + 1 \in 1..Len(pipe') DEF Announced
<1>5. CASE j # i
  <2>1. j \in Ids /\ objects'[j] = objects[j]
    BY <1>5, BecomesTypes DEF IInv, Types, TypeOK, Relevant, Things
  <2>2. j \in relevant \cup Relevant
    BY <2>1 DEF Relevant
  <2>3. Shown'[j] = Shown[j] /\ Latest' = Latest
    BY <2>1 DEF Shown, Latest
  <2>4. Announced(j)
    BY <2>2, <2>3 DEF UnderWay
  <2> QED  BY <1>3, <2>4 DEF Announced
<1> QED  BY <1>4, <1>5

\* A batch that wakes nobody takes no news of a relevant id with it.
LEMMA ReadUnderWay ==
    ASSUME IInv, UnderWay, MonitorReads
    PROVE  UnderWay'
<1> SUFFICES ASSUME monitor = "running", wakeups' = 0, loop \notin {"settling", "reading"}, AtHand,
                    NEW i \in relevant' \cup Relevant, Shown[i] # Latest[i]
             PROVE  Announced(i)'
  BY DEF UnderWay, MonitorReads, server, refreshing, AtHand, Relevant, Shown, Latest
<1>1. /\ pipe' = Tail(pipe) /\ relevant' = RelevantAfter(pipe[1])
      /\ Len(pipe) \in Nat \ {0} /\ Len(pipe') = Len(pipe) - 1
      /\ \A n \in 1..Len(pipe) - 1 : pipe'[n] = pipe[n + 1]
  BY Tailed DEF MonitorReads, IInv, Types
<1>2. ~Touches(pipe[1]) /\ wakeups = 0
  BY Tailed, WokenInRoom DEF MonitorReads, IInv, Types
<1>3. i \in relevant \cup Relevant /\ i \in Ids
  <2>1. CASE i \in relevant'
    BY <1>1, <1>2, <2>1 DEF RelevantAfter, Touches, IInv, Types, TypeOK
  <2>2. CASE i \in Relevant
    BY <2>2 DEF Relevant
  <2> QED  BY <2>1, <2>2
<1>4. Announced(i)
  BY <1>2, <1>3 DEF UnderWay
<1>5. SUFFICES ASSUME \A n \in 2..Len(pipe) : i \notin DOMAIN pipe[n] PROVE FALSE
  <2>1. ASSUME NEW n \in 2..Len(pipe), i \in DOMAIN pipe[n]
        PROVE  Announced(i)'
    <3>1. n - 1 \in 1..Len(pipe') /\ pipe'[n - 1] = pipe[n]
      BY <1>1
    <3> QED  BY <2>1, <3>1 DEF Announced
  <2> QED  BY <2>1
<1>6. i \in DOMAIN pipe[1]
  BY <1>1, <1>4, <1>5 DEF Announced
<1>7. LastWord(1, i)
  BY <1>1, <1>5, <1>6 DEF LastWord
<1>8. pipe[1][i] = objects[i]
  BY <1>1, <1>3, <1>7 DEF IInv, Told
<1>9. objects[i] \notin Looks
  BY <1>2, <1>6, <1>8 DEF Touches
<1> QED  BY <1>1, <1>6, <1>8, <1>9 DEF Relevant, RelevantAfter

LEMMA NextUnderWay == IInv /\ UnderWay /\ [Next]_vars => UnderWay'
<1> SUFFICES ASSUME IInv, UnderWay, [Next]_vars PROVE UnderWay'
  OBVIOUS
<1>1. CASE World
  <2>1. ASSUME NEW i \in Ids, NEW kind \in Things, ByOthers(i, kind)
        PROVE  UnderWay'
    BY <2>1, BecomesUnderWay DEF ByOthers
  <2>2. CASE monitor' # "running"
    BY <2>2 DEF UnderWay
  <2>3. CASE UNCHANGED <<objects, monitor, pipe, relevant, wakeups, loop, dumper, reading,
                         failed, graph, stale>>
    BY <2>3 DEF UnderWay, AtHand, Relevant, Shown, Latest, Announced
  <2> QED  BY <1>1, <2>1, <2>2, <2>3, WorldSteps DEF IInv
<1>2. CASE MonitorStarts
  <2> DEFINE b == FullDump
  <2>1. pipe' = <<b>> /\ relevant' = {} /\ objects' = objects
    BY <1>2 DEF MonitorStarts, server
  <2>2. DOMAIN b = Present
    BY DEF FullDump
  <2> HIDE DEF b
  <2>3. Len(pipe') = 1 /\ pipe'[1] = b
    BY <2>1
  <2>4. Relevant \subseteq Present
    BY MonitorAssumption DEF Relevant, Present
  <2>5. \A i \in relevant' \cup Relevant' : Announced(i)'
    BY <2>1, <2>2, <2>3, <2>4, 1 \in 1..Len(pipe') DEF Announced, Relevant
  <2> QED  BY <2>5 DEF UnderWay
<1>3. CASE MonitorReads
  BY <1>3, ReadUnderWay
<1>4. CASE MonitorEnds
  BY <1>4 DEF MonitorEnds, UnderWay
<1>5. CASE Tick \/ Request
  BY <1>5, WokenInRoom DEF Tick, Request, UnderWay, IInv, Types
<1>6. CASE Wake \/ Drain
  BY <1>6 DEF Wake, Drain, UnderWay
<1>7. CASE PwDump
  <2> SUFFICES ASSUME ~failed' PROVE Shown' = Latest'
    BY <1>7 DEF PwDump, UnderWay, AtHand
  <2>1. dumper \in Ids /\ objects[dumper] = Client /\ Becomes(dumper, None) /\ reading' = Shown
    BY <1>7 DEF PwDump, IInv, DumperIsClient
  <2>2. objects' = [objects EXCEPT ![dumper] = None]
    BY <2>1 DEF Becomes
  <2>3. Shown' = Shown
    <3>1. \A i \in Ids : (IF objects'[i] \in Visible THEN objects'[i] ELSE None)
                            = IF objects[i] \in Visible THEN objects[i] ELSE None
      BY <2>1, <2>2, MonitorAssumption DEF IInv, Types, TypeOK, Visible
    <3> QED  BY <3>1 DEF Shown
  <2> QED  BY <1>7, <2>1, <2>3 DEF PwDump, Latest
<1>8. CASE Decide
  BY <1>8 DEF Decide, UnderWay, AtHand, Latest, Announced, Relevant, Shown, server, watch
<1>9. CASE UNCHANGED vars
  BY <1>9 DEF vars, UnderWay, AtHand, Latest, Announced, Relevant, Shown, server, watch,
              refreshing
<1> QED  BY <1>1, <1>2, <1>3, <1>4, <1>5, <1>6, <1>7, <1>8, <1>9
         DEF Next, Watching, Following

\* However many ids, batches and wake-ups there are, and whatever is coalesced and
\* dropped: a change the monitor has announced is in the pipe or the channel, or a
\* refresh has still to look, unless the last refresh failed.
THEOREM AnnouncedChangesArrive == Spec => []ChangesAreUnderWay
<1>1. Init => UnderWay
  BY DEF Init, UnderWay
<1>2. UnderWay => ChangesAreUnderWay
  BY DEF UnderWay, AtHand, ChangesAreUnderWay
<1> QED  BY <1>1, <1>2, InitIInv, NextIInv, NextUnderWay, PTL DEF Spec

----------------------------------------------------------------------------
(* The daemon does not wake itself. *)

\* Waking says what will happen: the monitor wakes the loop for the first batch exactly
\* if that is one of them, and the others stay what they are.
LEMMA WakingComesTrue ==
    ASSUME Types, MonitorReads
    PROVE  /\ Touches(Head(pipe)) <=> 1 \in Waking
           /\ \A n \in 1..Len(pipe') : n \in Waking' <=> n + 1 \in Waking
<1> DEFINE p(n) == pipe[n]
           L == Len(pipe)
<1>1. /\ pipe' = Tail(pipe) /\ relevant' = RelevantAfter(pipe[1])
      /\ L \in Nat \ {0} /\ Len(pipe') = L - 1
      /\ \A n \in 1..L - 1 : pipe'[n] = pipe[n + 1]
      /\ Head(pipe) = pipe[1]
  BY Tailed DEF MonitorReads, Types
<1>2. ASSUME NEW i
      PROVE  RelevantAt(1, i) <=> i \in relevant
  BY DEF RelevantAt
<1>3. WillWake(1) <=> Touches(pipe[1])
  BY <1>2 DEF WillWake, Touches
<1>4. ASSUME NEW n \in 1..L - 1, NEW i
      PROVE  RelevantAt(n, i)' <=> RelevantAt(n + 1, i)
  <2> DEFINE Silent(k) == \A m \in k..n : i \notin DOMAIN pipe[m]
             Last(k) == i \in DOMAIN pipe[k] /\ pipe[k][i] \in Looks /\ Silent(k + 1)
  <2>1. RelevantAt(n + 1, i) <=> (i \in relevant /\ Silent(1)) \/ \E k \in 1..n : Last(k)
    BY <1>1 DEF RelevantAt
  <2>2. \A k \in 1..n : (\A m \in k..n - 1 : i \notin DOMAIN pipe'[m]) <=> Silent(k + 1)
    <3> SUFFICES ASSUME NEW k \in 1..n
                 PROVE  (\A m \in k..n - 1 : i \notin DOMAIN pipe'[m]) <=> Silent(k + 1)
      OBVIOUS
    <3>1. ASSUME Silent(k + 1), NEW m \in k..n - 1
          PROVE  i \notin DOMAIN pipe'[m]
      <4>1. m + 1 \in k + 1..n /\ pipe'[m] = pipe[m + 1]
        BY <1>1
      <4> QED  BY <3>1, <4>1
    <3>2. ASSUME \A m \in k..n - 1 : i \notin DOMAIN pipe'[m], NEW m \in k + 1..n
          PROVE  i \notin DOMAIN pipe[m]
      <4>1. m - 1 \in k..n - 1 /\ pipe'[m - 1] = pipe[m]
        BY <1>1
      <4> QED  BY <3>2, <4>1
    <3> QED  BY <3>1, <3>2
  <2>3. RelevantAt(n, i)' <=> \/ i \in relevant' /\ Silent(2)
                              \/ \E k \in 1..n - 1 : Last(k + 1)
    <3>1. (\A m \in 1..n - 1 : i \notin DOMAIN pipe'[m]) <=> Silent(2)
      BY <2>2
    <3>2. \A k \in 1..n - 1 :
              (/\ i \in DOMAIN pipe'[k] /\ pipe'[k][i] \in Looks
               /\ \A m \in k + 1..n - 1 : i \notin DOMAIN pipe'[m])
              <=> Last(k + 1)
      <4> SUFFICES ASSUME NEW k \in 1..n - 1
                   PROVE  (/\ i \in DOMAIN pipe'[k] /\ pipe'[k][i] \in Looks
                           /\ \A m \in k + 1..n - 1 : i \notin DOMAIN pipe'[m])
                          <=> Last(k + 1)
        OBVIOUS
      <4>1. pipe'[k] = pipe[k + 1] /\ k + 1 \in 1..n
        BY <1>1
      <4>2. (\A m \in k + 1..n - 1 : i \notin DOMAIN pipe'[m]) <=> Silent(k + 1 + 1)
        BY <2>2, <4>1
      <4> HIDE DEF Silent
      <4> QED  BY <4>1, <4>2
    <3> HIDE DEF Silent, Last
    <3> QED  BY <3>1, <3>2 DEF RelevantAt
  <2>4. i \in relevant' <=> \/ i \in relevant /\ i \notin DOMAIN pipe[1]
                            \/ i \in DOMAIN pipe[1] /\ pipe[1][i] \in Looks
    BY <1>1 DEF RelevantAfter
  <2>5. Silent(1) <=> i \notin DOMAIN pipe[1] /\ Silent(2)
    OBVIOUS
  <2>6. Last(1) <=> i \in DOMAIN pipe[1] /\ pipe[1][i] \in Looks /\ Silent(2)
    OBVIOUS
  <2>7. (\E k \in 1..n : Last(k)) <=> Last(1) \/ \E k \in 1..n - 1 : Last(k + 1)
    <3> HIDE DEF Last
    <3>1. ASSUME NEW k \in 1..n, Last(k), k # 1
          PROVE  \E j \in 1..n - 1 : Last(j + 1)
      <4>1. k - 1 \in 1..n - 1 /\ (k - 1) + 1 = k
        BY <3>1
      <4> QED  BY <3>1, <4>1
    <3> QED  BY <3>1
  <2> HIDE DEF Silent, Last
  <2> QED  BY <2>1, <2>3, <2>4, <2>5, <2>6, <2>7
<1>5. ASSUME NEW n \in 1..L - 1
      PROVE  WillWake(n)' <=> WillWake(n + 1)
  BY <1>1, <1>4, <1>5 DEF WillWake
<1> QED  BY <1>1, <1>3, <1>5 DEF Waking

\* The last word on an id decides whether it will be called relevant once all batches
\* have been read.
LEMMA RelevantAtLast ==
    ASSUME Types, Told, monitor = "running", NEW i \in Ids, objects[i] \notin Looks
    PROVE  ~RelevantAt(Len(pipe) + 1, i)
<1> DEFINE L == Len(pipe)
<1>1. L \in Nat
  BY DEF Types
<1>2. ASSUME i \in relevant, \A k \in 1..L + 1 - 1 : i \notin DOMAIN pipe[k]
      PROVE  FALSE
  BY <1>1, <1>2 DEF Told, Announced
<1>3. ASSUME NEW k \in 1..L + 1 - 1, i \in DOMAIN pipe[k], pipe[k][i] \in Looks,
             \A m \in k + 1..L + 1 - 1 : i \notin DOMAIN pipe[m]
      PROVE  FALSE
  <2>1. LastWord(k, i)
    BY <1>1, <1>3 DEF LastWord
  <2> QED  BY <1>3, <2>1 DEF Told, LastWord
<1> QED  BY <1>2, <1>3 DEF RelevantAt

\* A batch at the end of the pipe changes nothing for those before it.
LEMMA AppendedWaking ==
    ASSUME Types, NEW i \in Ids, NEW kind \in Things, Becomes(i, kind), kind \notin Looks,
           kind = None /\ monitor = "running" => ~RelevantAt(Len(pipe) + 1, i)
    PROVE  Waking' = Waking
<1> DEFINE b == [x \in {i} |-> kind]
<1>0. PICK L \in Nat : L = Len(pipe)
  BY DEF Types
<1>1. b \in Batch /\ DOMAIN b = {i} /\ b[i] = kind
  BY BatchOf, {i} \in SUBSET Ids, b \in [{i} -> Things]
<1>2. relevant' = relevant /\ pipe' = IF monitor = "running" THEN Append(pipe, b) ELSE pipe
  BY DEF Becomes, Reports
<1> HIDE DEF b
<1>3. CASE monitor # "running"
  BY <1>2, <1>3 DEF Waking, WillWake, RelevantAt
<1>4. CASE monitor = "running"
  <2>1. /\ Len(pipe') = L + 1
        /\ \A n \in 1..L : pipe'[n] = pipe[n]
        /\ pipe'[L + 1] = b
    BY <1>0, <1>1, <1>2, <1>4, Appended DEF Types
  <2>2. ASSUME NEW n \in 1..L + 1, NEW j
        PROVE  RelevantAt(n, j)' <=> RelevantAt(n, j)
    <3>1. \A k \in 1..n - 1 : pipe'[k] = pipe[k]
      BY <2>1
    <3> QED  BY <1>2, <2>1, <3>1 DEF RelevantAt
  <2>3. ASSUME NEW n \in 1..L
        PROVE  WillWake(n)' <=> WillWake(n)
    BY <2>1, <2>2 DEF WillWake
  <2>4. ~WillWake(L + 1)'
    <3>1. ~RelevantAt(L + 1, i)' \/ kind # None
      BY <1>0, <1>4, <2>2
    <3> QED  BY <1>1, <2>1, <3>1 DEF WillWake
  <2> QED  BY <1>0, <2>1, <2>3, <2>4 DEF Waking
<1> QED  BY <1>3, <1>4

\* Whatever id the server gives to the daemon's own pw-dump, however recently that was
\* a node's, and however far behind the monitor is: neither its connection nor its end
\* will be taken for a change of the graph.
THEOREM RefreshWakesNobody == Spec => OwnConnectionWakesNobody
<1> DEFINE A == loop' # loop /\ loop \in {"settling", "reading"} => Waking' = Waking
<1>1. IInv /\ [Next]_vars => [A]_vars
  <2> SUFFICES ASSUME IInv, Next, loop' # loop, loop \in {"settling", "reading"}
               PROVE  Waking' = Waking
    OBVIOUS
  <2>1. ASSUME UNCHANGED <<pipe, relevant>>
        PROVE  Waking' = Waking
    BY <2>1 DEF Waking, WillWake, RelevantAt
  <2>2. Drain \/ PwDump
    BY DEF Next, World, Appear, Change, Vanish, ServerStops, ServerStarts, MonitorDies, Calm,
           Watching, MonitorStarts, MonitorReads, MonitorEnds, Tick, Request, Following, Wake,
           Decide, refreshing
  <2>3. CASE Drain
    <3>1. CASE ~up
      BY <2>1, <2>3, <3>1 DEF Drain, watch
    <3>2. CASE up
      <4>1. PICK i \in Ids : Becomes(i, Client)
        BY <2>3, <3>2 DEF Drain, Free
      <4>2. Client \in Things /\ Client \notin Looks /\ Client # None
        BY MonitorAssumption DEF Things, Kinds, Visible
      <4> QED  BY <4>1, <4>2, AppendedWaking DEF IInv
    <3> QED  BY <3>1, <3>2
  <2>4. CASE PwDump
    <3>1. CASE dumper = None
      BY <2>1, <2>4, <3>1 DEF PwDump, watch
    <3>2. CASE dumper # None
      <4>1. dumper \in Ids /\ objects[dumper] \notin Looks /\ Becomes(dumper, None)
        BY <2>4, <3>2, MonitorAssumption DEF PwDump, IInv, DumperIsClient
      <4>2. None \in Things /\ None \notin Looks
        BY MonitorAssumption DEF Things
      <4> QED  BY <4>1, <4>2, RelevantAtLast, AppendedWaking DEF IInv
    <3> QED  BY <3>1, <3>2
  <2> QED  BY <2>2, <2>3, <2>4
<1>2. Spec => [][A]_vars
  BY <1>1, InitIInv, NextIInv, PTL DEF Spec
<1> QED  BY <1>2 DEF OwnConnectionWakesNobody
=============================================================================
