---------------------------- MODULE ListingProofs ---------------------------
(***************************************************************************)
(* Listings are exact and agree with bindfs_getattr, for any directory,    *)
(* any number of clients and threads, and any changes meanwhile.           *)
(*                                                                         *)
(* ListInv says where each request is (Getattr, Readdir), from whom it     *)
(* comes and that the window of a request that bindfs sends to itself lies *)
(* within that of the request that caused it (FromInv), and what a thread  *)
(* that waits for such a request will get (WaitInv).  Only with the last   *)
(* two is it inductive: the result of a listing depends on the results of  *)
(* requests for attributes that other threads have served for it.          *)
(***************************************************************************)
EXTENDS Listing, TLAPS

(* The types of the locals of a handler.                                   *)
Stages == {"idle", "process_path", "lstat", "opendir", "readdir", "realpath", "stat", "done"}
Entries == [name : Name, link : BOOLEAN]
Listed == [name : Name, attr : Attributes \cup {None}]
Jobs ==
  [ from : Issuer, req : Requests, stream : SUBSET Entries, name : Name \cup {None},
    path : {<<>>} \cup {<<n>> : n \in Name}, loc : Location \cup {ROOT}, errno : Error \cup {OK},
    listed : SUBSET Listed, res : Attributes \cup Error \cup {OK, None}, seen : [Name -> SUBSET Kind] ]

(* An entry that has been each of these was there at some time.            *)
There(kinds) == \E kind \in kinds : kind # "absent"

(* Where a request for attributes is.                                      *)
Getattr(step, j) ==
  /\ step \in {"process_path", "lstat", "done"}
  /\ j.req.op = "getattr" /\ j.path = <<>> /\ j.listed = {}
  /\ step = "process_path" => j.loc = j.req.name /\ j.loc \in Name
  /\ step = "lstat" => \/ j.loc = j.req.name
                       \/ j.loc = FILE /\ j.req.name \in Name /\ There(j.seen[j.req.name])
  /\ step = "done" =>
       /\ j.res \in Attributes \cup Error
       /\ j.req.name = ROOT => j.res = "dir"
       /\ j.req.name \in Name /\ j.res \in Attributes => There(j.seen[j.req.name])
       /\ j.req.name \in Name /\ j.res = "ENOENT" => "absent" \in j.seen[j.req.name]

(* Where the entry in hand is.                                             *)
InHand(step, j) ==
  /\ j.name \in Name /\ j.path = <<j.name>> /\ There(j.seen[j.name])
  /\ step = "realpath" => j.loc = j.name
  /\ step = "stat" =>
       /\ j.loc \in {j.name, FILE, MOUNT, BELOW}
       /\ j.loc = BELOW => "below" \in j.seen[j.name] /\ There(j.seen[Beneath])

(* Nothing that was there all the time has been left out so far.           *)
Covered(step, j) ==
  \A n \in Name : "absent" \notin j.seen[n] =>
    \/ n \in {e.name : e \in j.stream \cup j.listed}
    \/ step \in {"realpath", "stat"} /\ n = j.name

(* Where a listing is.                                                     *)
Readdir(step, j) ==
  /\ Lists(j.req) /\ step \in {"opendir", "readdir", "realpath", "stat", "done"}
  /\ j.from \in Client
  /\ \A e \in j.stream \cup j.listed : There(j.seen[e.name])
  /\ step \in {"readdir", "realpath", "stat"} => Covered(step, j)
  /\ step \in {"opendir", "readdir"} => j.path = <<>>
  /\ step \in {"realpath", "stat"} => InHand(step, j)
  /\ step = "done" =>
       /\ j.res \in Error \cup {OK} /\ j.path \in {<<>>, <<j.name>>}
       /\ j.res = OK => \A n \in Name : "absent" \notin j.seen[n] => n \in {e.name : e \in j.listed}
       /\ j.res = "ENOENT" => \E n \in Name : "absent" \in j.seen[n] /\ There(j.seen[n])
       /\ j.res \in {"EPERM", "ELOOP"} => \E n \in Name : "below" \in j.seen[n]

(* The locals of a worker.                                                 *)
JobInv(w) ==
  IF pc[w] = "idle" THEN job[w] = NoJob
  ELSE /\ job[w] \in Jobs
       /\ \A n \in Name : entry[n] \in job[w].seen[n]
       /\ Getattr(pc[w], job[w]) \/ Readdir(pc[w], job[w])

(* Whom a request comes from.                                              *)
FromInv(w) ==
  pc[w] # "idle" =>
    /\ want[job[w].from] = job[w].req
    /\ job[w].from \in Worker =>
         \A n \in Name : job[w].seen[n] \subseteq job[job[w].from].seen[n]
    /\ \A v \in Worker : pc[v] # "idle" /\ job[v].from = job[w].from => v = w

(* What a worker in a system call waits for, or has got.                   *)
Waits(step, j, name, got) ==
  \/ /\ step = "process_path" /\ name = Beneath
  \/ /\ step = "realpath" /\ name = Beneath /\ j.loc \in Name /\ "below" \in j.seen[j.loc]
     /\ got \in Attributes => There(j.seen[Beneath])
  \/ /\ step = "stat" /\ j.loc = BELOW /\ name = Beneath
     /\ got = "ENOENT" => "absent" \in j.seen[Beneath]
  \/ /\ step = "stat" /\ j.loc = MOUNT /\ name = ROOT
     /\ got \in {None, "dir"}

WaitInv(w) ==
  /\ want[w] # NoRequest =>
       reply[w] = None /\ want[w].op = "getattr" /\ Waits(pc[w], job[w], want[w].name, None)
  /\ reply[w] # None => \E name \in {Beneath, ROOT} : Waits(pc[w], job[w], name, reply[w])

(* The inductive invariant.                                                *)
ListInv ==
  /\ settings \in Settings
  /\ entry \in [Name -> Kind] /\ changes \in 0..MaxChanges
  /\ want \in [Issuer -> Requests \cup {NoRequest}]
  /\ reply \in [Worker -> Attributes \cup Error \cup {None}]
  /\ pc \in [Worker -> Stages] /\ job \in [Worker -> Jobs \cup {NoJob}]
  /\ \A w \in Worker : JobInv(w) /\ FromInv(w) /\ WaitInv(w)

(* The issuer of a request that a worker handles is waiting.               *)
LEMMA Awaited ==
  ASSUME ListInv, NEW v \in Worker, pc[v] # "idle", job[v].from \in Worker
  PROVE  LET i == job[v].from
         IN  /\ pc[i] # "idle" /\ reply[i] = None /\ job[v].req.op = "getattr"
             /\ Waits(pc[i], job[i], job[v].req.name, None)
             /\ \A n \in Name : job[v].seen[n] \subseteq job[i].seen[n]
<1> DEFINE i == job[v].from
<1>1. want[i] = job[v].req /\ job[v] \in Jobs /\ WaitInv(i)
  BY DEF ListInv, FromInv, JobInv
<1>2. job[v].req \in Requests
  BY <1>1 DEF Jobs
<1>3. want[i] # NoRequest
  BY <1>1, <1>2 DEF Requests, NoRequest, None
<1>4. /\ reply[i] = None /\ job[v].req.op = "getattr"
      /\ Waits(pc[i], job[i], job[v].req.name, None)
  BY <1>1, <1>3 DEF WaitInv
<1>5. pc[i] # "idle"
  BY <1>4 DEF Waits
<1>6. \A n \in Name : job[v].seen[n] \subseteq job[i].seen[n]
  BY DEF ListInv, FromInv
<1> QED BY <1>4, <1>5, <1>6

(* A worker waits only in realpath and lstat.                              *)
LEMMA NotWaiting ==
  ASSUME ListInv, NEW w \in Worker,
         pc[w] \in {"idle", "lstat", "opendir", "readdir", "done"}
  PROVE  want[w] = NoRequest /\ reply[w] = None
<1>1. WaitInv(w)
  BY DEF ListInv
<1> QED BY <1>1 DEF WaitInv, Waits

(* One worker takes a step within a request.                               *)
LEMMA OneWorker ==
  ASSUME ListInv, NEW w \in Worker, NEW to \in Stages \ {"idle"}, NEW j \in Jobs,
         pc[w] # "idle", want[w] = NoRequest,
         pc' = [pc EXCEPT ![w] = to], job' = [job EXCEPT ![w] = j],
         reply' = [reply EXCEPT ![w] = None],
         UNCHANGED <<settings, entry, changes, want>>,
         j.from = job[w].from, j.req = job[w].req, j.seen = job[w].seen,
         Getattr(to, j) \/ Readdir(to, j)
  PROVE  ListInv'
<1> USE DEF ListInv
<1>1. \A v \in Worker \ {w} : pc'[v] = pc[v] /\ job'[v] = job[v] /\ reply'[v] = reply[v]
  OBVIOUS
<1>2. pc'[w] = to /\ job'[w] = j /\ reply'[w] = None
  OBVIOUS
<1>3. job[w] \in Jobs
  BY DEF JobInv
<1>4. \A v \in Worker : pc'[v] # "idle" <=> pc[v] # "idle"
  BY <1>1, <1>2
<1>5. \A v \in Worker : pc[v] # "idle" =>
        job'[v].from = job[v].from /\ job'[v].req = job[v].req /\ job'[v].seen = job[v].seen
  BY <1>1, <1>2
<1>6. \A v \in Worker : JobInv(v)'
  <2> TAKE v \in Worker
  <2>1. JobInv(v)
    OBVIOUS
  <2>2. CASE v = w
    BY <1>2, <1>3, <2>1, <2>2 DEF JobInv
  <2>3. CASE v # w
    BY <1>1, <2>1, <2>3 DEF JobInv
  <2> QED BY <2>2, <2>3
<1>7. \A v \in Worker : pc[v] # "idle" /\ job[v].from \in Worker => pc[job[v].from] # "idle"
  BY Awaited
<1>8. \A v \in Worker : FromInv(v)'
  <2> TAKE v \in Worker
  <2>1. FromInv(v)
    OBVIOUS
  <2> QED BY <1>4, <1>5, <1>7, <2>1 DEF FromInv
<1>9. \A v \in Worker : WaitInv(v)'
  <2> TAKE v \in Worker
  <2>1. WaitInv(v)
    OBVIOUS
  <2>2. CASE v = w
    BY <1>2, <2>2 DEF WaitInv
  <2>3. CASE v # w
    BY <1>1, <2>1, <2>3 DEF WaitInv
  <2> QED BY <2>2, <2>3
<1> QED BY <1>6, <1>8, <1>9
(* Somebody who waits for nothing asks for something.                      *)
LEMMA NewRequest ==
  ASSUME ListInv, NEW i \in Issuer, NEW r \in Requests,
         want[i] = NoRequest, want' = [want EXCEPT ![i] = r],
         UNCHANGED <<settings, entry, changes, reply, pc, job>>,
         i \in Worker => reply[i] = None /\ r.op = "getattr" /\ Waits(pc[i], job[i], r.name, None)
  PROVE  ListInv'
<1> USE DEF ListInv
<1>1. want' \in [Issuer -> Requests \cup {NoRequest}] /\ want'[i] = r
  OBVIOUS
<1>2. \A k \in Issuer \ {i} : want'[k] = want[k]
  OBVIOUS
<1>3. \A v \in Worker : JobInv(v)'
  <2> TAKE v \in Worker
  <2>1. JobInv(v)
    OBVIOUS
  <2> QED BY <2>1 DEF JobInv
<1>4. \A v \in Worker : FromInv(v)'
  <2> TAKE v \in Worker
  <2>1. FromInv(v) /\ JobInv(v)
    OBVIOUS
  <2>2. CASE pc[v] = "idle"
    BY <2>2 DEF FromInv
  <2>3. CASE pc[v] # "idle"
    <3>1. job[v] \in Jobs /\ want[job[v].from] = job[v].req
      BY <2>1, <2>3 DEF JobInv, FromInv
    <3>2. job[v].from \in Issuer /\ job[v].req \in Requests
      BY <3>1 DEF Jobs
    <3>3. job[v].req # NoRequest
      BY <3>2 DEF Requests, NoRequest, None
    <3>4. want'[job[v].from] = want[job[v].from]
      BY <3>1, <3>2, <3>3, <1>2
    <3> QED BY <2>1, <3>4 DEF FromInv
  <2> QED BY <2>2, <2>3
<1>5. \A v \in Worker : WaitInv(v)'
  <2> TAKE v \in Worker
  <2>1. WaitInv(v) /\ v \in Issuer
    BY DEF Issuer
  <2>2. CASE v = i
    BY <2>2, <1>1 DEF WaitInv
  <2>3. CASE v # i
    <3>1. want'[v] = want[v]
      BY <2>1, <2>3, <1>2
    <3> QED BY <2>1, <3>1 DEF WaitInv
  <2> QED BY <2>2, <2>3
<1> QED BY <1>1, <1>3, <1>4, <1>5

(* A client asks.                                                          *)
LEMMA AskStep ==
  ASSUME ListInv, NEW c \in Client, NEW r \in Requests, Ask(c, r)
  PROVE  ListInv'
<1>1. c \in Issuer /\ c \notin Worker
  BY ListingAssumption DEF Issuer
<1> QED BY <1>1, NewRequest, Zenon DEF Ask

(* A worker starts to look into the mount.                                 *)
LEMMA NestStep ==
  ASSUME ListInv, NEW w \in Worker, Nest(w)
  PROVE  ListInv'
<1> USE DEF ListInv
<1>1. PICK n \in {Beneath, ROOT} : LookInto(w, n) /\ Waits(pc[w], job[w], n, None) /\ pc[w] # "idle"
  <2>1. JobInv(w)
    OBVIOUS
  <2>2. CASE pc[w] \in {"process_path", "realpath"} /\ KindAt(job[w].loc) = "below" /\ LookInto(w, Beneath)
    <3>1. job[w] \in Jobs /\ job[w].loc \in Name /\ entry[job[w].loc] = "below"
      BY <2>1, <2>2 DEF JobInv, KindAt
    <3>2. "below" \in job[w].seen[job[w].loc]
      BY <2>1, <2>2, <3>1 DEF JobInv
    <3> QED BY <2>2, <3>1, <3>2 DEF Waits, Attributes, None
  <2>3. CASE pc[w] \in {"lstat", "stat"} /\ job[w].loc = MOUNT /\ LookInto(w, ROOT)
    <3>1. pc[w] = "stat"
      <4> SUFFICES ASSUME pc[w] = "lstat" PROVE FALSE
        BY <2>3
      <4>1. job[w] \in Jobs /\ Getattr("lstat", job[w])
        BY <2>1, Zenon DEF JobInv, Readdir
      <4>2. job[w].req \in Requests
        BY <4>1 DEF Jobs
      <4>3. job[w].req.name \in Name \cup {ROOT}
        BY <4>2 DEF Requests
      <4> QED BY <2>3, <4>1, <4>3, ListingAssumption DEF Getattr, MOUNT, FILE
    <3> QED BY <2>3, <3>1 DEF Waits
  <2>4. CASE pc[w] \in {"lstat", "stat"} /\ job[w].loc = BELOW /\ LookInto(w, Beneath)
    <3>1. pc[w] = "stat"
      <4> SUFFICES ASSUME pc[w] = "lstat" PROVE FALSE
        BY <2>4
      <4>1. job[w] \in Jobs /\ Getattr("lstat", job[w])
        BY <2>1, Zenon DEF JobInv, Readdir
      <4>2. job[w].req \in Requests
        BY <4>1 DEF Jobs
      <4>3. job[w].req.name \in Name \cup {ROOT}
        BY <4>2 DEF Requests
      <4> QED BY <2>4, <4>1, <4>3, ListingAssumption DEF Getattr, BELOW, FILE
    <3> QED BY <2>4, <3>1 DEF Waits, None
  <2> QED BY <2>2, <2>3, <2>4 DEF Nest
<1> DEFINE r == [op |-> "getattr", name |-> n]
<1>2. w \in Issuer /\ r \in Requests /\ r.op = "getattr" /\ r.name = n
  BY ListingAssumption DEF Issuer, Requests
<1>3. /\ reply[w] = None /\ want[w] = NoRequest /\ want' = [want EXCEPT ![w] = r]
      /\ UNCHANGED <<settings, entry, changes, reply, pc, job>>
  BY <1>1 DEF LookInto
<1> HIDE DEF r
<1> QED BY <1>1, <1>2, <1>3, NewRequest, Zenon

(* One record of the locals is another after kind has been seen at n.      *)
Grown(j, k, n, kind) ==
  /\ k \in Jobs /\ k.from = j.from /\ k.req = j.req
  /\ k.stream = j.stream /\ k.name = j.name /\ k.loc = j.loc /\ k.listed = j.listed
  /\ k.seen[n] = j.seen[n] \cup {kind}
  /\ \A m \in Name \ {n} : k.seen[m] = j.seen[m]
  /\ \A step : Getattr(step, j) => Getattr(step, k)
  /\ \A step : Readdir(step, j) => Readdir(step, k)
  /\ \A step, got : \A name \in {Beneath, ROOT} :
       Waits(step, j, name, got) => Waits(step, k, name, got)

(* What is known of a request stays true when more has been seen.          *)
LEMMA SeenMore ==
  ASSUME NEW j \in Jobs, NEW n \in Name, NEW kind \in Kind,
         NEW k, k = [j EXCEPT !.seen[n] = @ \cup {kind}]
  PROVE  Grown(j, k, n, kind)
<1>1. j.seen \in [Name -> SUBSET Kind]
  BY DEF Jobs
<1>2. k = [j EXCEPT !.seen = [j.seen EXCEPT ![n] = @ \cup {kind}]]
  BY DEF Jobs
<1>3. k \in Jobs /\ k.seen = [j.seen EXCEPT ![n] = @ \cup {kind}]
  BY <1>1, <1>2 DEF Jobs
<1>4. /\ k.from = j.from /\ k.req = j.req /\ k.stream = j.stream /\ k.name = j.name
      /\ k.path = j.path /\ k.loc = j.loc /\ k.errno = j.errno /\ k.listed = j.listed /\ k.res = j.res
  BY <1>2 DEF Jobs
<1>5. k.seen[n] = j.seen[n] \cup {kind} /\ \A m \in Name \ {n} : k.seen[m] = j.seen[m]
  BY <1>1, <1>3
<1>6. \A m \in Name : j.seen[m] \subseteq k.seen[m]
  BY <1>5
<1>8. j.req \in Requests /\ Beneath \in Name
  BY ListingAssumption DEF Jobs
<1>9. \A m \in Name : There(j.seen[m]) => There(k.seen[m])
  BY <1>6 DEF There
<1>10. ASSUME NEW step, Getattr(step, j) PROVE Getattr(step, k)
  BY <1>10, <1>4, <1>6, <1>9, Zenon DEF Getattr
<1>11. ASSUME NEW step, Readdir(step, j) PROVE Readdir(step, k)
  <2>1. \A e \in j.stream \cup j.listed : e.name \in Name
    BY DEF Jobs, Entries, Listed
  <2>2. \A e \in k.stream \cup k.listed : There(k.seen[e.name])
    BY <2>1, <1>4, <1>9, <1>11, Zenon DEF Readdir
  <2>3. Covered(step, j) => Covered(step, k)
    BY <1>4, <1>6 DEF Covered
  <2>4. InHand(step, j) => InHand(step, k)
    BY <1>4, <1>6, <1>8, <1>9, Zenon DEF InHand
  <2>5. step = "done" =>
       /\ k.res \in Error \cup {OK} /\ k.path \in {<<>>, <<k.name>>}
       /\ k.res = OK => \A m \in Name : "absent" \notin k.seen[m] => m \in {e.name : e \in k.listed}
       /\ k.res = "ENOENT" => \E m \in Name : "absent" \in k.seen[m] /\ There(k.seen[m])
       /\ k.res \in {"EPERM", "ELOOP"} => \E m \in Name : "below" \in k.seen[m]
    BY <1>4, <1>6, <1>9, <1>11, Zenon DEF Readdir
  <2>6. Lists(k.req) /\ k.from \in Client /\ step \in {"opendir", "readdir", "realpath", "stat", "done"}
        /\ (step \in {"opendir", "readdir"} => k.path = <<>>)
    BY <1>4, <1>11 DEF Readdir
  <2> QED BY <1>11, <2>2, <2>3, <2>4, <2>5, <2>6, Zenon DEF Readdir
<1>12. ASSUME NEW step, NEW got, NEW name \in {Beneath, ROOT}, Waits(step, j, name, got)
       PROVE  Waits(step, k, name, got)
  <2>1. j.loc \in Name /\ "below" \in j.seen[j.loc] => "below" \in k.seen[k.loc]
    BY <1>4, <1>6
  <2> QED BY <1>12, <2>1, <1>4, <1>6, <1>8, <1>9 DEF Waits
<1> QED BY <1>3, <1>4, <1>5, <1>10, <1>11, <1>12, Zenon DEF Grown

(* Another process changes the source directory.                           *)
LEMMA ChangeStep ==
  ASSUME ListInv, NEW n \in Name, NEW kind \in ChangedKinds, Change(n, kind)
  PROVE  ListInv'
<1> USE DEF ListInv
<1>1. /\ changes < MaxChanges /\ entry' = [entry EXCEPT ![n] = kind] /\ changes' = changes + 1
      /\ UNCHANGED <<settings, want, reply, pc>>
  BY DEF Change
<1>2. kind \in Kind /\ MaxChanges \in Nat
  BY ListingAssumption
<1>3. entry' \in [Name -> Kind] /\ changes' \in 0..MaxChanges
  BY <1>1, <1>2
<1>4. \A v \in Worker :
        job'[v] = IF pc[v] = "idle" THEN job[v] ELSE [job[v] EXCEPT !.seen[n] = @ \cup {kind}]
  BY DEF Change
<1>5. \A v \in Worker : pc[v] # "idle" => job[v] \in Jobs
  BY DEF JobInv
<1>6. \A v \in Worker : pc[v] # "idle" =>
        /\ job'[v] \in Jobs
        /\ job'[v].from = job[v].from /\ job'[v].req = job[v].req
        /\ job'[v].seen[n] = job[v].seen[n] \cup {kind}
        /\ \A m \in Name \ {n} : job'[v].seen[m] = job[v].seen[m]
        /\ \A step : Getattr(step, job[v]) => Getattr(step, job'[v])
        /\ \A step : Readdir(step, job[v]) => Readdir(step, job'[v])
        /\ \A step, got : \A name \in {Beneath, ROOT} :
              Waits(step, job[v], name, got) => Waits(step, job'[v], name, got)
  <2> TAKE v \in Worker
  <2> HAVE pc[v] # "idle"
  <2>1. job[v] \in Jobs /\ job'[v] = [job[v] EXCEPT !.seen[n] = @ \cup {kind}]
    BY <1>4, <1>5
  <2>2. kind \in Kind
    BY <1>2
  <2> HIDE DEF ListInv
  <2>3. Grown(job[v], job'[v], n, kind)
    BY <2>1, <2>2, SeenMore
  <2> QED BY <2>3 DEF Grown
<1>7. job' \in [Worker -> Jobs \cup {NoJob}]
  <2>1. job' = [v \in Worker |-> IF pc[v] = "idle" THEN job[v]
                                 ELSE [job[v] EXCEPT !.seen[n] = @ \cup {kind}]]
    BY DEF Change
  <2>2. \A v \in Worker : job'[v] \in Jobs \cup {NoJob}
    BY <1>4, <1>6, Zenon
  <2> QED BY <2>1, <2>2
<1>8. \A v \in Worker : JobInv(v)'
  <2> TAKE v \in Worker
  <2>1. JobInv(v)
    OBVIOUS
  <2>2. CASE pc[v] = "idle"
    BY <2>1, <2>2, <1>1, <1>4, Zenon DEF JobInv
  <2>3. CASE pc[v] # "idle"
    <3>1. \A m \in Name : entry'[m] \in job'[v].seen[m]
      <4> TAKE m \in Name
      <4>1. CASE m = n
        BY <4>1, <1>1, <1>6, <2>3, Zenon
      <4>2. CASE m # n
        BY <4>2, <1>1, <1>6, <2>1, <2>3, Zenon DEF JobInv
      <4> QED BY <4>1, <4>2, Zenon
    <3>2. Getattr(pc[v], job'[v]) \/ Readdir(pc[v], job'[v])
      BY <1>6, <2>1, <2>3, Zenon DEF JobInv
    <3> QED BY <1>1, <1>6, <2>3, <3>1, <3>2, Zenon DEF JobInv
  <2> QED BY <2>2, <2>3
<1>9. \A v \in Worker : FromInv(v)'
  <2> TAKE v \in Worker
  <2> SUFFICES ASSUME pc[v] # "idle" PROVE FromInv(v)'
    BY <1>1, Zenon DEF FromInv
  <2>1. FromInv(v)
    OBVIOUS
  <2>2. want'[job'[v].from] = job'[v].req
    BY <2>1, <1>1, <1>6, Zenon DEF FromInv
  <2>3. \A u \in Worker : pc'[u] # "idle" /\ job'[u].from = job'[v].from => u = v
    BY <2>1, <1>1, <1>6, Zenon DEF FromInv
  <2>4. ASSUME job'[v].from \in Worker
        PROVE  \A m \in Name : job'[v].seen[m] \subseteq job'[job'[v].from].seen[m]
    <3> DEFINE i == job[v].from
    <3>1. job'[v].from = i /\ i \in Worker
      BY <2>4, <1>6, Zenon
    <3>2. pc[i] # "idle" /\ \A m \in Name : job[v].seen[m] \subseteq job[i].seen[m]
      BY <3>1, Awaited, Zenon
    <3> HIDE DEF i
    <3>3. \A m \in Name : job'[v].seen[m] \subseteq job'[i].seen[m]
      <4> TAKE m \in Name
      <4>1. CASE m = n
        BY <4>1, <3>1, <3>2, <1>6, Zenon
      <4>2. CASE m # n
        <5>1. job'[v].seen[m] = job[v].seen[m] /\ job'[i].seen[m] = job[i].seen[m]
          BY <4>2, <3>1, <3>2, <1>6, Zenon
        <5> QED BY <5>1, <3>2, Zenon
      <4> QED BY <4>1, <4>2
    <3> QED BY <3>1, <3>3, Zenon
  <2> QED BY <2>2, <2>3, <2>4, Zenon DEF FromInv
<1>10. \A v \in Worker : WaitInv(v)'
  <2> TAKE v \in Worker
  <2>1. WaitInv(v) /\ v \in Issuer
    BY DEF Issuer
  <2>2. CASE pc[v] = "idle"
    <3>1. want[v] = NoRequest /\ reply[v] = None
      BY <2>2, NotWaiting
    <3> QED BY <3>1, <1>1 DEF WaitInv
  <2>3. CASE pc[v] # "idle"
    <3>1. want[v] # NoRequest => want[v].name \in {Beneath, ROOT}
      BY <2>1, Zenon DEF WaitInv, Waits
    <3>2. \A got : \A name \in {Beneath, ROOT} :
            Waits(pc[v], job[v], name, got) => Waits(pc'[v], job'[v], name, got)
      <4>1. pc'[v] = pc[v]
        BY <1>1
      <4>2. \A step, got : \A name \in {Beneath, ROOT} :
              Waits(step, job[v], name, got) => Waits(step, job'[v], name, got)
        BY <2>3, <1>6, Zenon
      <4> QED BY <4>1, <4>2, Zenon
    <3>3. want'[v] = want[v] /\ reply'[v] = reply[v]
      BY <1>1
    <3>4. want'[v] # NoRequest =>
            reply'[v] = None /\ want'[v].op = "getattr" /\ Waits(pc'[v], job'[v], want'[v].name, None)
      BY <2>1, <3>1, <3>2, <3>3, Zenon DEF WaitInv
    <3>5. reply'[v] # None => \E name \in {Beneath, ROOT} : Waits(pc'[v], job'[v], name, reply'[v])
      BY <2>1, <3>2, <3>3, Zenon DEF WaitInv
    <3> QED BY <3>4, <3>5, Zenon DEF WaitInv
  <2> QED BY <2>2, <2>3
<1> QED BY <1>1, <1>3, <1>7, <1>8, <1>9, <1>10

(* The locals of a handler at its start.                                   *)
Fresh(j, i, r, seen) ==
  /\ j \in Jobs
  /\ j.from = i /\ j.req = r /\ j.loc = r.name /\ j.seen = seen
  /\ j.path = <<>> /\ j.stream = {} /\ j.listed = {}

(* A request that has just been received starts with empty locals and with *)
(* what the directory holds now.                                           *)
LEMMA NewJob ==
  ASSUME NEW i \in Issuer, NEW r \in Requests, r.name \in Location \cup {ROOT},
         NEW seen \in [Name -> SUBSET Kind]
  PROVE  Fresh([NoJob EXCEPT !.from = i, !.req = r, !.loc = r.name, !.seen = seen], i, r, seen)
BY Zenon DEF NoJob, Jobs, Fresh

(* A request is handed to an idle worker.                                  *)
LEMMA ReceiveStep ==
  ASSUME ListInv, NEW w \in Worker, NEW i \in Issuer, Receive(w, i)
  PROVE  ListInv'
<1> USE DEF ListInv
<1> DEFINE to == FirstStep(want[i])
           j == [NoJob EXCEPT !.from = i, !.req = want[i], !.loc = want[i].name,
                              !.seen = [n \in Name |-> {entry[n]}]]
<1>1. /\ pc[w] = "idle" /\ want[i] # NoRequest /\ \A v \in Worker : job[v].from # i
      /\ pc' = [pc EXCEPT ![w] = to] /\ job' = [job EXCEPT ![w] = j]
      /\ UNCHANGED <<settings, entry, changes, want, reply>>
  BY DEF Receive
<1>2. want[i] \in Requests /\ want[i].name \in Name \cup {ROOT}
  BY <1>1 DEF Requests
<1>3. want[i].name \in Location \cup {ROOT} /\ [n \in Name |-> {entry[n]}] \in [Name -> SUBSET Kind]
  BY <1>2 DEF Location
<1>4. /\ j \in Jobs
      /\ j.from = i /\ j.req = want[i] /\ j.loc = want[i].name
      /\ j.path = <<>> /\ j.stream = {} /\ j.listed = {}
      /\ \A n \in Name : j.seen[n] = {entry[n]}
  <2>1. Fresh(j, i, want[i], [n \in Name |-> {entry[n]}])
    BY <1>2, <1>3, NewJob, Zenon
  <2> HIDE DEF j
  <2> QED BY <2>1 DEF Fresh
<1>5. to \in Stages \ {"idle"}
  BY DEF FirstStep, Stages
<1>6. i # w /\ (i \in Worker => pc[i] # "idle" /\ want[i].op = "getattr")
  <2>1. want[w] = NoRequest
    BY <1>1, NotWaiting
  <2>2. i \in Worker => WaitInv(i)
    OBVIOUS
  <2> QED BY <1>1, <2>1, <2>2 DEF WaitInv, Waits
<1>7. Getattr(to, j) \/ Readdir(to, j)
  <2>1. CASE Lists(want[i])
    <3>1. i \in Client
      BY <1>6, <2>1 DEF Lists, Issuer
    <3>2. want[i].name = ROOT
      BY <1>2, <2>1 DEF Lists, Requests
    <3>3. to = "opendir"
      BY <2>1, <3>2 DEF FirstStep
    <3> HIDE DEF j, to
    <3> QED BY <2>1, <3>1, <3>3, <1>4, Zenon DEF Readdir
  <2>2. CASE ~Lists(want[i])
    <3>1. want[i].op = "getattr" /\ to \in {"process_path", "lstat"}
          /\ (to = "process_path" => want[i].name \in Name)
      BY <1>2, <2>2 DEF FirstStep, Lists, Requests
    <3> QED BY <3>1, <1>4 DEF Getattr
  <2> QED BY <2>1, <2>2
<1>8. \A v \in Worker \ {w} : pc'[v] = pc[v] /\ job'[v] = job[v]
  BY <1>1
<1>9. pc'[w] = to /\ job'[w] = j
  BY <1>1
<1>11. pc' \in [Worker -> Stages] /\ job' \in [Worker -> Jobs \cup {NoJob}]
  BY <1>1, <1>4, <1>5
<1> HIDE DEF j, to
<1>12. \A v \in Worker : JobInv(v)'
  <2> TAKE v \in Worker
  <2>1. JobInv(v)
    OBVIOUS
  <2>2. CASE v = w
    <3>1. \A n \in Name : entry'[n] \in j.seen[n]
      BY <1>1, <1>4, Zenon
    <3> QED BY <2>2, <3>1, <1>4, <1>5, <1>7, <1>9, Zenon DEF JobInv
  <2>3. CASE v # w
    BY <1>1, <1>8, <2>1, <2>3, Zenon DEF JobInv
  <2> QED BY <2>2, <2>3
<1>13. \A v \in Worker : FromInv(v)'
  <2> TAKE v \in Worker
  <2>1. CASE v = w
    <3>1. job'[v].from = i /\ job'[v].req = want[i] /\ want'[i] = want[i]
      BY <2>1, <1>1, <1>4, <1>9, Zenon
    <3>2. ASSUME i \in Worker
          PROVE  \A n \in Name : job'[v].seen[n] \subseteq job'[i].seen[n]
      <4>1. JobInv(i) /\ pc[i] # "idle" /\ job'[i] = job[i]
        BY <3>2, <1>6, <1>8
      <4>2. \A n \in Name : entry[n] \in job'[i].seen[n]
        BY <4>1, Zenon DEF JobInv
      <4> QED BY <4>2, <2>1, <1>4, <1>9
    <3>3. \A u \in Worker : pc'[u] # "idle" /\ job'[u].from = i => u = v
      BY <2>1, <1>1, <1>8
    <3> QED BY <3>1, <3>2, <3>3, Zenon DEF FromInv
  <2>2. CASE v # w
    <3> SUFFICES ASSUME pc[v] # "idle" PROVE FromInv(v)'
      BY <2>2, <1>8, Zenon DEF FromInv
    <3>1. FromInv(v) /\ pc'[v] = pc[v] /\ job'[v] = job[v]
      BY <2>2, <1>8
    <3>2. job[v].from \in Worker => job[v].from # w
      BY Awaited, <1>1, Zenon
    <3>3. \A u \in Worker : pc'[u] # "idle" /\ job'[u].from = job[v].from => u = v
      BY <3>1, <1>1, <1>4, <1>8, <1>9, Zenon DEF FromInv
    <3>4. want'[job[v].from] = job[v].req
      BY <3>1, <1>1, Zenon DEF FromInv
    <3>5. job[v].from \in Worker =>
            \A n \in Name : job[v].seen[n] \subseteq job'[job[v].from].seen[n]
      BY <3>1, <3>2, <1>8, Zenon DEF FromInv
    <3> QED BY <3>1, <3>3, <3>4, <3>5, Zenon DEF FromInv
  <2> QED BY <2>1, <2>2
<1>14. \A v \in Worker : WaitInv(v)'
  <2> TAKE v \in Worker
  <2>1. WaitInv(v)
    OBVIOUS
  <2>2. CASE v = w
    <3>1. want[w] = NoRequest /\ reply[w] = None
      BY <1>1, NotWaiting
    <3> QED BY <2>2, <3>1, <1>1 DEF WaitInv
  <2>3. CASE v # w
    BY <1>1, <1>8, <2>1, <2>3 DEF WaitInv
  <2> QED BY <2>2, <2>3
<1> QED BY <1>1, <1>11, <1>12, <1>13, <1>14, Zenon

(* The answer to a request.                                                *)
LEMMA ReplyStep ==
  ASSUME ListInv, NEW w \in Worker, Reply(w)
  PROVE  ListInv'
<1> USE DEF ListInv
<1> DEFINE i == job[w].from
<1>1. /\ pc[w] = "done" /\ pc' = [pc EXCEPT ![w] = "idle"] /\ job' = [job EXCEPT ![w] = NoJob]
      /\ want' = [want EXCEPT ![i] = NoRequest]
      /\ reply' = IF i \in Worker THEN [reply EXCEPT ![i] = job[w].res] ELSE reply
      /\ UNCHANGED <<settings, entry, changes>>
  BY DEF Reply, Goto
<1>2. JobInv(w) /\ FromInv(w)
  OBVIOUS
<1>3. job[w] \in Jobs /\ (Getattr("done", job[w]) \/ Readdir("done", job[w]))
  BY <1>1, <1>2, Zenon DEF JobInv
<1>4. i \in Issuer /\ want[i] = job[w].req
  BY <1>1, <1>2, <1>3, Zenon DEF Jobs, FromInv
<1>5. want[w] = NoRequest /\ reply[w] = None
  BY <1>1, NotWaiting
<1>6. i \in Worker =>
        /\ i # w /\ pc[i] # "idle" /\ Getattr("done", job[w])
        /\ Waits(pc[i], job[i], job[w].req.name, None)
        /\ \A n \in Name : job[w].seen[n] \subseteq job[i].seen[n]
  <2> HAVE i \in Worker
  <2>1. /\ pc[i] # "idle" /\ job[w].req.op = "getattr"
        /\ Waits(pc[i], job[i], job[w].req.name, None)
        /\ \A n \in Name : job[w].seen[n] \subseteq job[i].seen[n]
    BY <1>1, Awaited, Zenon
  <2>2. i # w
    BY <1>1, <2>1, Zenon DEF Waits
  <2>3. Getattr("done", job[w])
    BY <1>3, <2>1, Zenon DEF Readdir, Lists
  <2> QED BY <2>1, <2>2, <2>3, Zenon
<1>7. i \in Worker => job[w].res \in Attributes \cup Error
  BY <1>6, Zenon DEF Getattr
<1>8. \A v \in Worker \ {w} : pc'[v] = pc[v] /\ job'[v] = job[v]
  BY <1>1
<1>9. pc'[w] = "idle" /\ job'[w] = NoJob
  BY <1>1
<1>10. /\ want' \in [Issuer -> Requests \cup {NoRequest}] /\ want'[i] = NoRequest
       /\ \A k \in Issuer \ {i} : want'[k] = want[k]
  BY <1>1, <1>4
<1>11. /\ reply' \in [Worker -> Attributes \cup Error \cup {None}]
       /\ i \in Worker => reply'[i] = job[w].res
       /\ \A v \in Worker \ {i} : reply'[v] = reply[v]
  BY <1>1, <1>7
<1>12. pc' \in [Worker -> Stages] /\ job' \in [Worker -> Jobs \cup {NoJob}]
  BY <1>1 DEF Stages
<1> HIDE DEF i
<1>13. \A v \in Worker : JobInv(v)'
  <2> TAKE v \in Worker
  <2>1. JobInv(v)
    OBVIOUS
  <2>2. CASE v = w
    BY <1>9, <2>2, Zenon DEF JobInv
  <2>3. CASE v # w
    BY <1>1, <1>8, <2>1, <2>3, Zenon DEF JobInv
  <2> QED BY <2>2, <2>3
<1>14. \A v \in Worker : FromInv(v)'
  <2> TAKE v \in Worker
  <2>1. CASE v = w
    BY <2>1, <1>9, Zenon DEF FromInv
  <2>2. CASE v # w
    <3> SUFFICES ASSUME pc[v] # "idle" PROVE FromInv(v)'
      BY <2>2, <1>8, Zenon DEF FromInv
    <3>1. FromInv(v) /\ JobInv(v) /\ pc'[v] = pc[v] /\ job'[v] = job[v]
      BY <2>2, <1>8
    <3>2. job[v].from # i
      BY <2>2, <1>1, <3>1, Zenon DEF FromInv, i
    <3>3. job[v].from \in Issuer
      BY <3>1, Zenon DEF JobInv, Jobs
    <3>4. want'[job[v].from] = job[v].req
      BY <3>1, <3>2, <3>3, <1>10, Zenon DEF FromInv
    <3>5. ASSUME job[v].from \in Worker
          PROVE  \A n \in Name : job[v].seen[n] \subseteq job'[job[v].from].seen[n]
      <4>1. /\ Waits(pc[job[v].from], job[job[v].from], job[v].req.name, None)
            /\ \A n \in Name : job[v].seen[n] \subseteq job[job[v].from].seen[n]
        BY <3>5, Awaited, Zenon
      <4>2. job[v].from # w
        BY <4>1, <1>1, Zenon DEF Waits
      <4> QED BY <3>5, <4>1, <4>2, <1>8, Zenon
    <3>6. \A u \in Worker : pc'[u] # "idle" /\ job'[u].from = job[v].from => u = v
      BY <3>1, <1>8, <1>9, Zenon DEF FromInv
    <3> QED BY <3>1, <3>4, <3>5, <3>6, Zenon DEF FromInv
  <2> QED BY <2>1, <2>2
<1>15. \A v \in Worker : WaitInv(v)'
  <2> TAKE v \in Worker
  <2>1. WaitInv(v) /\ v \in Issuer
    BY DEF Issuer
  <2>2. CASE v = w
    <3>1. want'[w] = NoRequest /\ reply'[w] = None
      BY <1>5, <1>6, <1>10, <1>11, <2>1, <2>2, Zenon
    <3> QED BY <2>2, <3>1, Zenon DEF WaitInv
  <2>3. CASE v # w /\ v # i
    <3>1. want'[v] = want[v] /\ reply'[v] = reply[v] /\ pc'[v] = pc[v] /\ job'[v] = job[v]
      BY <2>1, <2>3, <1>8, <1>10, <1>11, Zenon
    <3> QED BY <2>1, <3>1, Zenon DEF WaitInv
  <2>4. CASE v = i /\ v # w
    <3> DEFINE name == job[w].req.name
               res == job[w].res
    <3>1. want'[i] = NoRequest /\ reply'[i] = res /\ pc'[i] = pc[i] /\ job'[i] = job[i]
      BY <2>4, <1>8, <1>10, <1>11, Zenon
    <3>2. /\ res \in Attributes \cup Error
          /\ name = ROOT => res = "dir"
          /\ name \in Name /\ res \in Attributes => There(job[w].seen[name])
          /\ name \in Name /\ res = "ENOENT" => "absent" \in job[w].seen[name]
      BY <1>6, <2>4, Zenon DEF Getattr
    <3>3. Waits(pc[i], job[i], name, None) /\ name \in {Beneath, ROOT}
      BY <1>6, <2>4, Zenon DEF Waits
    <3>4. Beneath \in Name /\ Beneath # ROOT
      BY ListingAssumption
    <3>5. name = Beneath /\ res \in Attributes => There(job[i].seen[Beneath])
      BY <3>2, <3>4, <1>6, <2>4, Zenon DEF There
    <3>6. name = Beneath /\ res = "ENOENT" => "absent" \in job[i].seen[Beneath]
      BY <3>2, <3>4, <1>6, <2>4, Zenon
    <3> HIDE DEF res, name
    <3>7. Waits(pc[i], job[i], name, res)
      BY <3>2, <3>3, <3>4, <3>5, <3>6, Zenon DEF Waits
    <3> QED BY <2>4, <3>1, <3>3, <3>7, Zenon DEF WaitInv
  <2> QED BY <2>2, <2>3, <2>4
<1> QED BY <1>1, <1>10, <1>11, <1>12, <1>13, <1>14, <1>15, Zenon

(* What realpath of an entry returns, in terms of what has been seen.      *)
LEMMA RealpathFacts ==
  ASSUME ListInv, NEW w \in Worker, pc[w] \in {"process_path", "realpath"},
         job[w].loc \in Name, NEW v, Realpath(w, job[w].loc, v)
  PROVE  LET n == job[w].loc
             seen == job[w].seen
         IN  /\ want[w] = NoRequest
             /\ v \in {n, FILE} => There(seen[n])
             /\ v \notin Error => v \in {n, FILE, MOUNT, BELOW}
             /\ v = BELOW /\ pc[w] = "realpath" => "below" \in seen[n] /\ There(seen[Beneath])
<1> DEFINE n == job[w].loc
           seen == job[w].seen
<1>1. JobInv(w) /\ WaitInv(w) /\ w \in Issuer
  BY DEF ListInv, Issuer
<1>2. entry[n] \in seen[n] /\ entry[n] \in Kind /\ KindAt(n) = entry[n]
  BY <1>1, Zenon DEF JobInv, KindAt, ListInv
<1>3. n \notin Error \cup {None, FILE, MOUNT, BELOW}
  BY ListingAssumption
<1>4. CASE reply[w] = None
  <2>1. want[w] = NoRequest /\ entry[n] # "below" /\ v = RealpathOf(entry[n], n)
    BY <1>4, <1>2 DEF Realpath
  <2> HIDE DEF n, seen
  <2>2. v # BELOW
    BY <2>1, <1>3 DEF RealpathOf, BELOW, FILE, MOUNT
  <2>3. v \in {n, FILE} => There(seen[n])
    BY <2>1, <1>2, <1>3 DEF RealpathOf, FILE, MOUNT, There, Error
  <2>4. v \notin Error => v \in {n, FILE, MOUNT}
    BY <2>1 DEF RealpathOf, Error
  <2> QED BY <2>1, <2>2, <2>3, <2>4, Zenon DEF n, seen
<1>5. CASE reply[w] # None
  <2>1. want[w] = NoRequest
    BY <1>1, <1>5 DEF WaitInv
  <2>2. v = IF reply[w] \in Attributes THEN BELOW ELSE reply[w]
    BY <1>5 DEF Realpath
  <2>3. reply[w] \in Attributes \cup Error
    BY <1>5 DEF ListInv
  <2>4. v = BELOW <=> reply[w] \in Attributes
    BY <2>2, <2>3 DEF BELOW, Error
  <2>5. v \notin {n, FILE}
    BY <2>2, <2>3, <1>3 DEF BELOW, FILE, Error
  <2>6. pc[w] = "realpath" /\ reply[w] \in Attributes => "below" \in seen[n] /\ There(seen[Beneath])
    BY <1>1, <1>5, Zenon DEF WaitInv, Waits
  <2> QED BY <2>1, <2>2, <2>3, <2>4, <2>5, <2>6, Zenon
<1> QED BY <1>4, <1>5, Zenon

(* bindfs_getattr: process_path.                                           *)
LEMMA ProcessPathStep ==
  ASSUME ListInv, NEW w \in Worker, process_path(w)
  PROVE  ListInv'
<1> DEFINE j == job[w]
<1>1. pc[w] = "process_path" /\ JobInv(w) /\ job \in [Worker -> Jobs \cup {NoJob}]
  BY DEF process_path, ListInv
<1>2. j \in Jobs /\ Getattr("process_path", j)
  BY <1>1, Zenon DEF JobInv, Readdir
<1>3. j.loc = j.req.name /\ j.loc \in Name /\ j.req.op = "getattr" /\ j.path = <<>> /\ j.listed = {}
  BY <1>2, Zenon DEF Getattr
<1>4. PICK v \in Location \cup Error :
        /\ Realpath(w, j.loc, v)
        /\ \/ v = "ENOENT" /\ Goto(w, "process_path", "lstat") /\ UNCHANGED job
           \/ v \in Error \ {"ENOENT"} /\ Return(w, "process_path", v)
           \/ Denied(v) /\ Return(w, "process_path", "EPERM")
           \/ /\ v \in Location /\ ~Denied(v)
              /\ Goto(w, "process_path", "lstat")
              /\ job' = [job EXCEPT ![w].loc = v]
  BY DEF process_path
<1>5. /\ want[w] = NoRequest
      /\ v \in {j.loc, FILE} => There(j.seen[j.loc])
      /\ v \notin Error => v \in {j.loc, FILE, MOUNT, BELOW}
  BY <1>1, <1>3, <1>4, RealpathFacts
<1>6. reply' = [reply EXCEPT ![w] = None] /\ UNCHANGED <<settings, entry, changes, want>>
  BY <1>4 DEF Realpath
<1>7. ROOT \notin Name
  BY ListingAssumption
<1>8. CASE v = "ENOENT" /\ Goto(w, "process_path", "lstat") /\ UNCHANGED job
  <2>1. pc' = [pc EXCEPT ![w] = "lstat"] /\ job' = [job EXCEPT ![w] = j]
    BY <1>1, <1>8 DEF Goto
  <2>2. Getattr("lstat", j)
    BY <1>3, Zenon DEF Getattr
  <2> QED BY <1>1, <1>2, <1>5, <1>6, <2>1, <2>2, OneWorker, Zenon DEF Stages
<1>9. ASSUME NEW res \in Error \ {"ENOENT"}, Return(w, "process_path", res) PROVE ListInv'
  <2> DEFINE k == [j EXCEPT !.res = res]
  <2>1. pc' = [pc EXCEPT ![w] = "done"] /\ job' = [job EXCEPT ![w] = k]
    BY <1>9 DEF Return, Goto
  <2>2. /\ k \in Jobs /\ k.from = j.from /\ k.req = j.req /\ k.seen = j.seen
        /\ k.path = j.path /\ k.listed = j.listed /\ k.res = res
    BY <1>2 DEF Jobs
  <2> HIDE DEF k
  <2>3. Getattr("done", k)
    BY <2>2, <1>3, <1>7, Zenon DEF Getattr, Error, Attributes
  <2> QED BY <1>1, <1>5, <1>6, <2>1, <2>2, <2>3, OneWorker, Zenon DEF Stages
<1>10. CASE v \in Location /\ ~Denied(v) /\ Goto(w, "process_path", "lstat")
             /\ job' = [job EXCEPT ![w].loc = v]
  <2> DEFINE k == [j EXCEPT !.loc = v]
  <2>1. pc' = [pc EXCEPT ![w] = "lstat"] /\ job' = [job EXCEPT ![w] = k]
    BY <1>10 DEF Goto
  <2>2. /\ k \in Jobs /\ k.from = j.from /\ k.req = j.req /\ k.seen = j.seen
        /\ k.path = j.path /\ k.listed = j.listed /\ k.loc = v
    BY <1>2, <1>10 DEF Jobs
  <2>3. v \notin Error
    BY <1>10, ListingAssumption DEF Location, Error, FILE, MOUNT, BELOW
  <2>4. v = j.req.name \/ (v = FILE /\ There(j.seen[j.req.name]))
    BY <2>3, <1>3, <1>5, <1>10 DEF Denied
  <2> HIDE DEF k
  <2>5. Getattr("lstat", k)
    BY <2>2, <2>4, <1>3, Zenon DEF Getattr
  <2> QED BY <1>1, <1>5, <1>6, <2>1, <2>2, <2>5, OneWorker, Zenon DEF Stages
<1>11. "EPERM" \in Error \ {"ENOENT"}
  BY DEF Error
<1> QED BY <1>4, <1>8, <1>9, <1>10, <1>11

(* bindfs_getattr: lstat and getattr_common.                               *)
LEMMA GetattrStep ==
  ASSUME ListInv, NEW w \in Worker, bindfs_getattr(w)
  PROVE  ListInv'
<1> DEFINE j == job[w]
<1>1. pc[w] = "lstat" /\ JobInv(w) /\ entry \in [Name -> Kind]
  BY DEF bindfs_getattr, ListInv
<1>2. j \in Jobs /\ Getattr("lstat", j) /\ \A n \in Name : entry[n] \in j.seen[n]
  BY <1>1, Zenon DEF JobInv, Readdir
<1>3. /\ j.req.op = "getattr" /\ j.path = <<>> /\ j.listed = {}
      /\ \/ j.loc = j.req.name
         \/ j.loc = FILE /\ j.req.name \in Name /\ There(j.seen[j.req.name])
  BY <1>2, Zenon DEF Getattr
<1>4. PICK v \in Attributes \cup Error :
        /\ Lstat(w, j.loc, v)
        /\ Return(w, "lstat", IF v \in Attributes THEN getattr_common(j.loc, v) ELSE v)
  BY DEF bindfs_getattr
<1>5. j.req.name \in Name \cup {ROOT}
  BY <1>2 DEF Jobs, Requests
<1>6. /\ ROOT \notin Name /\ FILE \notin Name /\ ROOT # FILE
      /\ j.loc \notin {MOUNT, BELOW}
  BY <1>3, <1>5, ListingAssumption DEF FILE, MOUNT, BELOW
<1>7. v = LstatOf(j.loc)
  BY <1>4, <1>6 DEF Lstat
<1>8. reply' = [reply EXCEPT ![w] = None] /\ UNCHANGED <<settings, entry, changes, want>>
  BY <1>4 DEF Lstat
<1>9. want[w] = NoRequest
  BY <1>1, NotWaiting
<1> DEFINE res == IF v \in Attributes THEN getattr_common(j.loc, v) ELSE v
           k == [j EXCEPT !.res = res]
<1>10. /\ res \in Attributes \cup Error
       /\ j.req.name = ROOT => res = "dir"
       /\ j.req.name \in Name /\ res \in Attributes => There(j.seen[j.req.name])
       /\ j.req.name \in Name /\ res = "ENOENT" => "absent" \in j.seen[j.req.name]
  <2>1. CASE j.loc = ROOT
    <3>1. v = "dir" /\ KindAt(j.loc) = "absent"
      BY <2>1, <1>6, <1>7 DEF LstatOf, KindAt
    <3>2. j.req.name = ROOT
      BY <2>1, <1>3, <1>6
    <3> QED BY <3>1, <3>2, <1>6 DEF getattr_common, Attributes
  <2>2. CASE j.loc = FILE
    <3>1. KindAt(j.loc) = "file"
      BY <2>2, <1>6 DEF KindAt
    <3>2. v = "reg"
      BY <2>2, <3>1, <1>6, <1>7 DEF LstatOf, Link
    <3>3. j.req.name \in Name /\ There(j.seen[j.req.name])
      BY <2>2, <1>3, <1>5, <1>6
    <3> QED BY <3>1, <3>2, <3>3, <1>6 DEF getattr_common, Attributes
  <2>3. CASE j.loc \in Name
    <3>1. KindAt(j.loc) = entry[j.loc] /\ j.loc = j.req.name /\ entry[j.loc] \in j.seen[j.loc]
      BY <2>3, <1>2, <1>3, <1>6 DEF KindAt
    <3>2. CASE entry[j.loc] = "absent"
      <4>1. v = "ENOENT"
        BY <3>1, <3>2, <2>3, <1>6, <1>7 DEF LstatOf, Link
      <4> QED BY <4>1, <3>1, <3>2, <2>3, <1>6, Zenon DEF Attributes, Error
    <3>3. CASE entry[j.loc] # "absent"
      <4>1. v \in {"lnk", "reg"}
        BY <3>1, <3>3, <2>3, <1>6, <1>7 DEF LstatOf
      <4>2. res \in {"lnk", "reg", "EIO"}
        BY <4>1 DEF getattr_common, Attributes
      <4>3. There(j.seen[j.loc])
        BY <3>1, <3>3 DEF There
      <4> QED BY <4>2, <4>3, <3>1, <2>3, <1>6, Zenon DEF Attributes, Error
    <3> QED BY <3>2, <3>3, Zenon
  <2> QED BY <1>3, <1>5, <2>1, <2>2, <2>3, Zenon
<1>11. pc' = [pc EXCEPT ![w] = "done"] /\ job' = [job EXCEPT ![w] = k]
  BY <1>4 DEF Return, Goto
<1> HIDE DEF res
<1>12. /\ k \in Jobs /\ k.from = j.from /\ k.req = j.req /\ k.seen = j.seen
       /\ k.path = j.path /\ k.listed = j.listed /\ k.res = res
  BY <1>2, <1>10 DEF Jobs
<1> HIDE DEF k
<1>13. Getattr("done", k)
  BY <1>3, <1>10, <1>12, Zenon DEF Getattr
<1> QED BY <1>1, <1>8, <1>9, <1>11, <1>12, <1>13, OneWorker, Zenon DEF Stages

(* bindfs_readdir: opendir.                                                *)
LEMMA OpendirStep ==
  ASSUME ListInv, NEW w \in Worker, opendir(w)
  PROVE  ListInv'
<1> DEFINE j == job[w]
<1>1. pc[w] = "opendir" /\ JobInv(w) /\ entry \in [Name -> Kind] /\ reply \in [Worker -> Attributes \cup Error \cup {None}]
  BY DEF opendir, ListInv
<1>2. j \in Jobs /\ Readdir("opendir", j) /\ \A n \in Name : entry[n] \in j.seen[n]
  BY <1>1, Zenon DEF JobInv, Getattr
<1>3. UNCHANGED <<settings, entry, changes, want>> /\ want[w] = NoRequest
      /\ reply' = [reply EXCEPT ![w] = None]
  BY <1>1, NotWaiting DEF opendir
<1>4. CASE Return(w, "opendir", "EACCES")
  <2> DEFINE k == [j EXCEPT !.res = "EACCES"]
  <2>1. pc' = [pc EXCEPT ![w] = "done"] /\ job' = [job EXCEPT ![w] = k]
    BY <1>4 DEF Return, Goto
  <2>2. /\ k \in Jobs /\ k.from = j.from /\ k.req = j.req /\ k.seen = j.seen
        /\ k.stream = j.stream /\ k.listed = j.listed /\ k.path = j.path /\ k.res = "EACCES"
    BY <1>2 DEF Jobs, Error
  <2> HIDE DEF k
  <2>3. Readdir("done", k)
    BY <1>2, <2>2, Zenon DEF Readdir, Error, OK
  <2> QED BY <1>1, <1>3, <2>1, <2>2, <2>3, OneWorker, Zenon DEF Stages
<1>5. CASE /\ Goto(w, "opendir", "readdir")
           /\ job' = [job EXCEPT ![w].stream =
                {[name |-> n, link |-> entry[n] \in Link] : n \in {m \in Name : entry[m] # "absent"}}]
  <2> DEFINE stream ==
        {[name |-> n, link |-> entry[n] \in Link] : n \in {m \in Name : entry[m] # "absent"}}
             k == [j EXCEPT !.stream = stream]
  <2>1. pc' = [pc EXCEPT ![w] = "readdir"] /\ job' = [job EXCEPT ![w] = k]
    BY <1>5 DEF Goto
  <2>2. stream \in SUBSET Entries
    <3>1. \A n \in Name : (entry[n] \in Link) \in BOOLEAN
      OBVIOUS
    <3>2. \A n \in Name : [name |-> n, link |-> entry[n] \in Link] \in Entries
      BY <3>1 DEF Entries
    <3> QED BY <3>2
  <2>3. \A e \in stream : e.name \in Name /\ entry[e.name] # "absent"
    OBVIOUS
  <2>4. \A n \in Name : entry[n] # "absent" => \E e \in stream : e.name = n
    <3> TAKE n \in Name
    <3> HAVE entry[n] # "absent"
    <3>1. [name |-> n, link |-> entry[n] \in Link] \in stream
      BY Zenon
    <3>2. [name |-> n, link |-> entry[n] \in Link].name = n
      OBVIOUS
    <3> QED BY <3>1, <3>2, Zenon
  <2> HIDE DEF stream
  <2>5. /\ k \in Jobs /\ k.from = j.from /\ k.req = j.req /\ k.seen = j.seen
        /\ k.stream = stream /\ k.listed = j.listed /\ k.path = j.path
    BY <1>2, <2>2 DEF Jobs
  <2> HIDE DEF k
  <2>6. \A e \in stream : There(j.seen[e.name])
    BY <1>2, <2>3 DEF There
  <2>7. \A n \in Name : "absent" \notin j.seen[n] => \E e \in stream : e.name = n
    BY <1>2, <2>4
  <2>8. Covered("readdir", k)
    BY <2>5, <2>7 DEF Covered
  <2>9. Readdir("readdir", k)
    BY <1>2, <2>5, <2>6, <2>8, Zenon DEF Readdir
  <2> QED BY <1>1, <1>3, <2>1, <2>5, <2>9, OneWorker, Zenon DEF Stages
<1> QED BY <1>4, <1>5 DEF opendir

(* A name has been taken from the stream, or not, and its entry goes to    *)
(* filler.                                                                 *)
Reads(j) ==
  /\ j \in Jobs /\ Lists(j.req) /\ j.from \in Client
  /\ \A e \in j.stream \cup j.listed : There(j.seen[e.name])
  /\ j.name \in Name /\ There(j.seen[j.name])
  /\ Covered("stat", j)

(* After filler, the loop of bindfs_readdir is at its top again with the   *)
(* entry listed and path_buf cut back.                                     *)
LEMMA FilledFacts ==
  ASSUME NEW j, Reads(j), NEW attr \in Attributes \cup {None}
  PROVE  LET k == Filled(j, attr)
         IN  /\ k \in Jobs /\ k.from = j.from /\ k.req = j.req /\ k.seen = j.seen
             /\ Readdir("readdir", k)
<1> DEFINE e0 == [name |-> j.name, attr |-> attr]
           k == [j EXCEPT !.listed = @ \cup {e0}, !.path = <<>>]
<1>1. e0 \in Listed /\ e0.name = j.name
  BY DEF Reads, Listed
<1>2. k = Filled(j, attr)
  BY DEF Filled
<1> HIDE DEF e0
<1>3. /\ k \in Jobs /\ k.from = j.from /\ k.req = j.req /\ k.seen = j.seen
      /\ k.stream = j.stream /\ k.listed = j.listed \cup {e0} /\ k.path = <<>>
  BY <1>1, Zenon DEF Reads, Jobs
<1> HIDE DEF k
<1>4. Covered("readdir", k)
  BY <1>1, <1>3 DEF Covered, Reads
<1>5. \A e \in k.stream \cup k.listed : There(k.seen[e.name])
  BY <1>1, <1>3 DEF Reads
<1>6. Readdir("readdir", k)
  BY <1>3, <1>4, <1>5, Zenon DEF Readdir, Reads
<1> QED BY <1>2, <1>3, <1>6

(* With the name appended to path_buf the entry is in hand, and lstat      *)
(* would look at it itself.                                                *)
LEMMA AppendedFacts ==
  ASSUME NEW j, Reads(j), j.path = <<>>, NEW step \in {"realpath", "stat"}
  PROVE  LET k == Appended(j)
         IN  /\ k \in Jobs /\ k.from = j.from /\ k.req = j.req /\ k.seen = j.seen
             /\ k.name = j.name /\ k.loc = j.name /\ k.stream = j.stream /\ k.listed = j.listed
             /\ Readdir(step, k)
<1> DEFINE k == [j EXCEPT !.path = <<j.name>>, !.loc = j.name]
<1>1. Append(<<>>, j.name) = <<j.name>> /\ Len(<<j.name>>) = 1
  OBVIOUS
<1>2. Appended(j) = k
  BY <1>1 DEF Appended
<1>3. j.name \in Name /\ j.name \notin {FILE, MOUNT, BELOW}
  BY ListingAssumption, Zenon DEF Reads
<1>4. /\ k \in Jobs /\ k.from = j.from /\ k.req = j.req /\ k.seen = j.seen /\ k.name = j.name
      /\ k.loc = j.name /\ k.stream = j.stream /\ k.listed = j.listed /\ k.path = <<j.name>>
  BY <1>3, Zenon DEF Reads, Jobs, Location
<1> HIDE DEF k
<1>5. InHand(step, k)
  BY <1>3, <1>4, Zenon DEF InHand, Reads
<1>6. Covered(step, k)
  BY <1>4, Zenon DEF Covered, Reads
<1>7. Readdir(step, k)
  BY <1>4, <1>5, <1>6, Zenon DEF Readdir, Reads
<1> QED BY <1>2, <1>4, <1>7

(* bindfs_readdir: the readdir at the top of the loop.                     *)
LEMMA TakenFacts ==
  ASSUME NEW j \in Jobs, Readdir("readdir", j), NEW e \in j.stream
  PROVE  LET k == [ResetErrno(j) EXCEPT !.stream = @ \ {e}, !.name = e.name]
         IN  /\ Reads(k) /\ k.from = j.from /\ k.req = j.req /\ k.seen = j.seen /\ k.path = <<>>
             /\ k.name = e.name /\ k.stream = j.stream \ {e} /\ k.listed = j.listed
<1> DEFINE k == [[j EXCEPT !.errno = OK] EXCEPT !.stream = @ \ {e}, !.name = e.name]
<1>1. k = [ResetErrno(j) EXCEPT !.stream = @ \ {e}, !.name = e.name]
  BY DEF ResetErrno
<1>2. e.name \in Name
  BY DEF Jobs, Entries
<1>3. /\ k \in Jobs /\ k.from = j.from /\ k.req = j.req /\ k.seen = j.seen /\ k.path = j.path
      /\ k.name = e.name /\ k.stream = j.stream \ {e} /\ k.listed = j.listed
  BY <1>2, Zenon DEF Jobs
<1> HIDE DEF k
<1>4. Covered("stat", k)
  BY <1>2, <1>3, Zenon DEF Covered, Readdir
<1>5. Reads(k)
  BY <1>2, <1>3, <1>4, Zenon DEF Reads, Readdir
<1>6. k.path = <<>>
  BY <1>3, Zenon DEF Readdir
<1> QED BY <1>1, <1>3, <1>5, <1>6

(* bindfs_readdir: the end of the stream, an error, or the next entry.     *)
LEMMA ReaddirStep ==
  ASSUME ListInv, NEW w \in Worker, readdir(w)
  PROVE  ListInv'
<1> DEFINE j == ResetErrno(job[w])
<1>1. pc[w] = "readdir" /\ JobInv(w) /\ reply \in [Worker -> Attributes \cup Error \cup {None}]
  BY Zenon DEF readdir, ListInv
<1>2. job[w] \in Jobs /\ Readdir("readdir", job[w])
  BY <1>1, Zenon DEF JobInv, Getattr
<1>3. UNCHANGED <<settings, entry, changes, want>> /\ want[w] = NoRequest
      /\ reply' = [reply EXCEPT ![w] = None]
  BY <1>1, NotWaiting, Zenon DEF readdir
<1>4. j.stream = job[w].stream /\ j.errno = OK
  BY <1>2 DEF ResetErrno, Jobs
<1>5. ASSUME NEW res \in Error \cup {OK}, Return(w, "readdir", res),
             res = OK => job[w].stream = {}, res \in {OK, "EIO"}
      PROVE  ListInv'
  <2> DEFINE k == [job[w] EXCEPT !.res = res]
  <2>1. pc' = [pc EXCEPT ![w] = "done"] /\ job' = [job EXCEPT ![w] = k]
    BY <1>5 DEF Return, Goto
  <2>2. /\ k \in Jobs /\ k.from = job[w].from /\ k.req = job[w].req /\ k.seen = job[w].seen
        /\ k.stream = job[w].stream /\ k.listed = job[w].listed /\ k.path = job[w].path /\ k.res = res
    BY <1>2 DEF Jobs
  <2> HIDE DEF k
  <2>3. res = OK => \A n \in Name : "absent" \notin k.seen[n] => n \in {e.name : e \in k.listed}
    BY <1>2, <1>5, <2>2, Zenon DEF Readdir, Covered
  <2>4. Readdir("done", k)
    BY <1>2, <1>5, <2>2, <2>3, Zenon DEF Readdir, OK
  <2> QED BY <1>1, <1>3, <2>1, <2>2, <2>4, OneWorker, Zenon DEF Stages
<1>6. ASSUME NEW e \in j.stream, NEW k, k = [j EXCEPT !.stream = @ \ {e}, !.name = e.name],
             \/ /\ ~Resolves(e) /\ ~plus(w)
                /\ Goto(w, "readdir", "readdir")
                /\ job' = [job EXCEPT ![w] = Filled(k, None)]
             \/ /\ Resolves(e) \/ plus(w)
                /\ Goto(w, "readdir", IF Resolves(e) THEN "realpath" ELSE "stat")
                /\ job' = [job EXCEPT ![w] = Appended(k)]
      PROVE  ListInv'
  <2>1. /\ Reads(k) /\ k.from = job[w].from /\ k.req = job[w].req /\ k.seen = job[w].seen
        /\ k.path = <<>>
    BY <1>2, <1>4, <1>6, TakenFacts, Zenon
  <2>2. CASE Goto(w, "readdir", "readdir") /\ job' = [job EXCEPT ![w] = Filled(k, None)]
    <3> DEFINE f == Filled(k, None)
    <3>1. /\ f \in Jobs /\ f.from = k.from /\ f.req = k.req /\ f.seen = k.seen
          /\ Readdir("readdir", f)
      BY <2>1, FilledFacts, Zenon
    <3>2. pc' = [pc EXCEPT ![w] = "readdir"] /\ job' = [job EXCEPT ![w] = f]
      BY <2>2, Zenon DEF Goto
    <3> HIDE DEF f
    <3> QED BY <1>1, <1>3, <2>1, <3>1, <3>2, OneWorker, Zenon DEF Stages
  <2>3. CASE /\ Goto(w, "readdir", IF Resolves(e) THEN "realpath" ELSE "stat")
             /\ job' = [job EXCEPT ![w] = Appended(k)]
    <3> DEFINE f == Appended(k)
    <3>1. PICK step \in {"realpath", "stat"} : Goto(w, "readdir", step)
      BY <2>3
    <3>2. /\ f \in Jobs /\ f.from = k.from /\ f.req = k.req /\ f.seen = k.seen
          /\ Readdir(step, f)
      BY <2>1, AppendedFacts, Zenon
    <3>3. pc' = [pc EXCEPT ![w] = step] /\ job' = [job EXCEPT ![w] = f]
      BY <2>3, <3>1, Zenon DEF Goto
    <3> HIDE DEF f
    <3> QED BY <1>1, <1>3, <2>1, <3>2, <3>3, OneWorker, Zenon DEF Stages
  <2> QED BY <1>6, <2>2, <2>3
<1>7. "EIO" \in Error /\ "EIO" # OK
  BY DEF Error, OK
<1> QED BY <1>4, <1>5, <1>6, <1>7, Zenon DEF readdir

(* bindfs_readdir: realpath of a symlink.                                  *)
LEMMA RealpathStep ==
  ASSUME ListInv, NEW w \in Worker, readdir_realpath(w)
  PROVE  ListInv'
<1> DEFINE j == job[w]
<1>1. pc[w] = "realpath" /\ JobInv(w)
  BY DEF readdir_realpath, ListInv
<1>2. j \in Jobs /\ Readdir("realpath", j)
  BY <1>1, Zenon DEF JobInv, Getattr
<1>3. j.loc = j.name /\ j.name \in Name
  BY <1>2, Zenon DEF Readdir, InHand
<1>4. PICK v \in Location \cup Error :
        /\ Realpath(w, j.loc, v)
        /\ Goto(w, "realpath", "stat")
        /\ job' = [job EXCEPT ![w] = IF v \in Error THEN [@ EXCEPT !.errno = v]
                                     ELSE [@ EXCEPT !.loc = v]]
  BY Zenon DEF readdir_realpath
<1>5. /\ want[w] = NoRequest
      /\ v \notin Error => v \in {j.loc, FILE, MOUNT, BELOW}
      /\ v = BELOW => "below" \in j.seen[j.name] /\ There(j.seen[Beneath])
  BY <1>1, <1>3, <1>4, RealpathFacts, Zenon
<1>6. reply' = [reply EXCEPT ![w] = None] /\ UNCHANGED <<settings, entry, changes, want>>
  BY <1>4 DEF Realpath
<1> DEFINE k == IF v \in Error THEN [j EXCEPT !.errno = v] ELSE [j EXCEPT !.loc = v]
<1>7. pc' = [pc EXCEPT ![w] = "stat"] /\ job' = [job EXCEPT ![w] = k]
  BY <1>4 DEF Goto
<1>8. /\ k \in Jobs /\ k.from = j.from /\ k.req = j.req /\ k.seen = j.seen /\ k.name = j.name
      /\ k.stream = j.stream /\ k.listed = j.listed /\ k.path = j.path
      /\ k.loc = IF v \in Error THEN j.loc ELSE v
  BY <1>2 DEF Jobs
<1> HIDE DEF k
<1>9. j.loc # BELOW
  BY <1>3, ListingAssumption
<1>10. InHand("stat", k)
  BY <1>2, <1>3, <1>5, <1>8, <1>9, Zenon DEF InHand, Readdir
<1>11. Covered("stat", k)
  BY <1>2, <1>8, Zenon DEF Covered, Readdir
<1>12. Readdir("stat", k)
  BY <1>2, <1>8, <1>10, <1>11, Zenon DEF Readdir
<1> QED BY <1>1, <1>5, <1>6, <1>7, <1>8, <1>12, OneWorker, Zenon DEF Stages

(* What lstat returns for the entry in hand.                               *)
LEMMA StatFacts ==
  ASSUME ListInv, NEW w \in Worker, pc[w] = "stat",
         job[w] \in Jobs, InHand("stat", job[w]), NEW v, Lstat(w, job[w].loc, v)
  PROVE  LET seen == job[w].seen
             loc == job[w].loc
         IN  /\ want[w] = NoRequest
             /\ loc \in {FILE, MOUNT} => v \in Attributes /\ KindAt(loc) # "unmappable"
             /\ loc = job[w].name =>
                  v = LstatOf(loc) /\ KindAt(loc) = entry[loc] /\ v \in {"ENOENT", "lnk", "reg"}
             /\ loc = BELOW /\ v = "ENOENT" => "absent" \in seen[Beneath]
<1> DEFINE seen == job[w].seen
           loc == job[w].loc
           name == job[w].name
<1>1. WaitInv(w) /\ w \in Issuer /\ JobInv(w)
  BY DEF ListInv, Issuer
<1>2. name \in Name /\ loc \in {name, FILE, MOUNT, BELOW}
  BY Zenon DEF InHand
<1>3. name \notin {FILE, MOUNT, BELOW} /\ name # ROOT /\ FILE \notin Name \cup {ROOT} /\ MOUNT \notin Name
  BY <1>2, ListingAssumption, Zenon
<1>4. FILE # MOUNT /\ FILE # BELOW /\ MOUNT # BELOW
  BY DEF FILE, MOUNT, BELOW
<1>5. CASE loc = FILE
  <2>1. want[w] = NoRequest
    BY <1>1, <1>4, <1>5, Zenon DEF WaitInv, Waits
  <2>2. v = LstatOf(FILE) /\ KindAt(FILE) = "file"
    BY <1>3, <1>4, <1>5, Zenon DEF Lstat, KindAt
  <2>3. v = "reg"
    BY <2>2, <1>3 DEF LstatOf, Link
  <2> QED BY <2>1, <2>2, <2>3, <1>3, <1>4, <1>5 DEF Attributes
<1>6. CASE loc = name
  <2>1. want[w] = NoRequest
    BY <1>1, <1>3, <1>6, Zenon DEF WaitInv, Waits
  <2>2. v = LstatOf(loc) /\ KindAt(loc) = entry[loc]
    BY <1>2, <1>3, <1>6, Zenon DEF Lstat, KindAt
  <2>3. v \in {"ENOENT", "lnk", "reg"}
    BY <2>2, <1>3, <1>6 DEF LstatOf
  <2> QED BY <2>1, <2>2, <2>3, <1>3, <1>6, Zenon
<1>7. CASE loc \in {MOUNT, BELOW}
  <2>1. reply[w] # None /\ v = reply[w]
    BY <1>7, Zenon DEF Lstat
  <2>2. want[w] = NoRequest
    BY <1>1, <2>1, Zenon DEF WaitInv
  <2>3. loc = MOUNT => v = "dir"
    BY <1>1, <1>4, <2>1, Zenon DEF WaitInv, Waits
  <2>4. loc = BELOW /\ v = "ENOENT" => "absent" \in seen[Beneath]
    BY <1>1, <1>4, <2>1, Zenon DEF WaitInv, Waits
  <2>5. KindAt(MOUNT) = "absent"
    BY <1>3, <1>4 DEF KindAt
  <2> QED BY <2>2, <2>3, <2>4, <2>5, <1>3, <1>4, <1>7, Zenon DEF Attributes
<1> QED BY <1>2, <1>5, <1>6, <1>7, Zenon

(* bindfs_readdir: lstat, getattr_common and filler.                       *)
LEMMA StatStep ==
  ASSUME ListInv, NEW w \in Worker, readdir_stat(w)
  PROVE  ListInv'
<1> DEFINE j == job[w]
<1>1. pc[w] = "stat" /\ JobInv(w) /\ entry \in [Name -> Kind]
  BY DEF readdir_stat, ListInv
<1>2. j \in Jobs /\ Readdir("stat", j) /\ \A n \in Name : entry[n] \in j.seen[n]
  BY <1>1, Zenon DEF JobInv, Getattr
<1>3. InHand("stat", j) /\ j.name \in Name /\ j.loc \in {j.name, FILE, MOUNT, BELOW}
      /\ There(j.seen[j.name])
      /\ (j.loc = BELOW => "below" \in j.seen[j.name] /\ There(j.seen[Beneath]))
  BY <1>2, Zenon DEF Readdir, InHand
<1>4. PICK v \in Attributes \cup Error :
        LET res == IF v \in Attributes /\ plus(w) THEN getattr_common(j.loc, v) ELSE v
        IN  /\ Lstat(w, j.loc, v)
            /\ \/ res \notin Attributes /\ Return(w, "stat", res)
               \/ /\ res \in Attributes
                  /\ Goto(w, "stat", "readdir")
                  /\ job' = [job EXCEPT ![w] = Filled(@, IF plus(w) THEN res ELSE None)]
  BY Zenon DEF readdir_stat
<1> DEFINE res == IF v \in Attributes /\ plus(w) THEN getattr_common(j.loc, v) ELSE v
<1>5. /\ want[w] = NoRequest
      /\ j.loc \in {FILE, MOUNT} => v \in Attributes /\ KindAt(j.loc) # "unmappable"
      /\ j.loc = j.name =>
           v = LstatOf(j.loc) /\ KindAt(j.loc) = entry[j.loc] /\ v \in {"ENOENT", "lnk", "reg"}
      /\ j.loc = BELOW /\ v = "ENOENT" => "absent" \in j.seen[Beneath]
  BY <1>1, <1>2, <1>3, <1>4, StatFacts, Zenon
<1>6. reply' = [reply EXCEPT ![w] = None] /\ UNCHANGED <<settings, entry, changes, want>>
  BY <1>4 DEF Lstat
<1>7. res \in Attributes \cup Error /\ (res # v => res = "EIO")
  BY DEF getattr_common, Error
<1>8. CASE res \notin Attributes /\ Return(w, "stat", res)
  <2> DEFINE k == [j EXCEPT !.res = res]
  <2>1. pc' = [pc EXCEPT ![w] = "done"] /\ job' = [job EXCEPT ![w] = k]
    BY <1>8 DEF Return, Goto
  <2>2. res = "ENOENT" => \E n \in Name : "absent" \in j.seen[n] /\ There(j.seen[n])
    <3> SUFFICES ASSUME v = "ENOENT" PROVE \E n \in Name : "absent" \in j.seen[n] /\ There(j.seen[n])
      BY <1>7
    <3>1. v \notin Attributes
      BY DEF Attributes
    <3>2. CASE j.loc = j.name
      <4>1. LstatOf(j.name) = "ENOENT" /\ KindAt(j.name) = entry[j.name] /\ j.name # ROOT
        BY <3>2, <1>3, <1>5, ListingAssumption, Zenon
      <4>2. entry[j.name] = "absent"
        BY <4>1 DEF LstatOf, Link
      <4> QED BY <4>2, <1>2, <1>3, Zenon
    <3>3. CASE j.loc = BELOW
      BY <3>3, <1>3, <1>5, ListingAssumption, Zenon
    <3> QED BY <3>1, <3>2, <3>3, <1>3, <1>5, Zenon
  <2>3. res \in {"EPERM", "ELOOP"} => \E n \in Name : "below" \in j.seen[n]
    <3> SUFFICES ASSUME v \in {"EPERM", "ELOOP"} PROVE \E n \in Name : "below" \in j.seen[n]
      BY <1>7, Zenon
    <3>1. v \notin Attributes
      BY DEF Attributes
    <3>2. j.loc = BELOW
      BY <3>1, <1>3, <1>5, Zenon
    <3> QED BY <3>2, <1>3, Zenon
  <2> HIDE DEF res
  <2>4. /\ k \in Jobs /\ k.from = j.from /\ k.req = j.req /\ k.seen = j.seen
        /\ k.stream = j.stream /\ k.listed = j.listed /\ k.path = j.path /\ k.name = j.name /\ k.res = res
    BY <1>2, <1>7 DEF Jobs
  <2> HIDE DEF k
  <2>5. res \in Error /\ OK \notin Error
    BY <1>7, <1>8 DEF OK, Error
  <2>6. Readdir("done", k)
    BY <1>2, <1>3, <2>2, <2>3, <2>4, <2>5, Zenon DEF Readdir, InHand
  <2> QED BY <1>1, <1>5, <1>6, <2>1, <2>4, <2>6, OneWorker, Zenon DEF Stages
<1>9. CASE /\ res \in Attributes /\ Goto(w, "stat", "readdir")
           /\ job' = [job EXCEPT ![w] = Filled(@, IF plus(w) THEN res ELSE None)]
  <2> DEFINE k == Filled(j, IF plus(w) THEN res ELSE None)
  <2>1. pc' = [pc EXCEPT ![w] = "readdir"] /\ job' = [job EXCEPT ![w] = k]
    BY <1>9 DEF Goto
  <2>2. Reads(j)
    BY <1>2, <1>3, Zenon DEF Reads, Readdir
  <2>3. (IF plus(w) THEN res ELSE None) \in Attributes \cup {None}
    BY <1>9
  <2>4. /\ k \in Jobs /\ k.from = j.from /\ k.req = j.req /\ k.seen = j.seen
        /\ Readdir("readdir", k)
    BY <2>2, <2>3, FilledFacts, Zenon
  <2> HIDE DEF k, res
  <2> QED BY <1>1, <1>5, <1>6, <2>1, <2>4, OneWorker, Zenon DEF Stages
<1> QED BY <1>4, <1>8, <1>9

(* The invariant holds at first.                                           *)
LEMMA ListInit == Init => ListInv
<1> SUFFICES ASSUME Init PROVE ListInv
  OBVIOUS
<1>1. \A i \in Issuer : want[i] = NoRequest
  BY DEF Init
<1>2. \A w \in Worker : w \in Issuer /\ reply[w] = None /\ pc[w] = "idle" /\ job[w] = NoJob
  BY DEF Init, Issuer
<1>3. \A w \in Worker : JobInv(w) /\ FromInv(w) /\ WaitInv(w)
  BY <1>1, <1>2, Zenon DEF JobInv, FromInv, WaitInv
<1>4. Kinds \subseteq Kind /\ MaxChanges \in Nat
  BY ListingAssumption
<1>5. entry \in [Name -> Kind] /\ changes \in 0..MaxChanges
  BY <1>4 DEF Init
<1> QED BY <1>3, <1>5 DEF Init, ListInv, Stages

(* Every step keeps it.                                                    *)
LEMMA ListNext == ListInv /\ [Next]_vars => ListInv'
<1> SUFFICES ASSUME ListInv, [Next]_vars PROVE ListInv'
  OBVIOUS
<1>1. ASSUME NEW c \in Client, NEW r \in Requests, Ask(c, r) PROVE ListInv'
  BY <1>1, AskStep
<1>2. ASSUME NEW n \in Name, NEW kind \in ChangedKinds, Change(n, kind) PROVE ListInv'
  BY <1>2, ChangeStep
<1>3. ASSUME NEW w \in Worker, Step(w) PROVE ListInv'
  BY <1>3, ReplyStep, NestStep, ProcessPathStep, GetattrStep, OpendirStep, ReaddirStep, RealpathStep,
     StatStep DEF Step
<1>4. ASSUME NEW w \in Worker, NEW i \in Issuer, Receive(w, i) PROVE ListInv'
  BY <1>4, ReceiveStep
<1>5. CASE UNCHANGED vars
  BY <1>5, Zenon DEF vars, ListInv, JobInv, FromInv, WaitInv
<1> QED BY <1>1, <1>2, <1>3, <1>4, <1>5 DEF Next

(* It holds always.                                                        *)
LEMMA ListInvariant == Spec => []ListInv
BY ListInit, ListNext, PTL DEF Spec

(* Types, and path_buf never holds more than the name in hand, for any     *)
(* number of clients, workers, names and changes of the directory.         *)
THEOREM ListingTyped == Spec => []TypeOK
<1>1. ListInv => TypeOK
  <2> SUFFICES ASSUME ListInv PROVE TypeOK
    OBVIOUS
  <2>1. ASSUME NEW w \in Worker
        PROVE  /\ pc[w] \in Stages /\ (pc[w] = "idle") = (job[w] = NoJob)
               /\ job[w].path \in {<<>>, <<job[w].name>>}
               /\ job[w].loc \in Location \cup {ROOT, None}
    <3>1. JobInv(w) /\ pc[w] \in Stages
      BY DEF ListInv
    <3>2. CASE pc[w] = "idle"
      <4>1. job[w] = NoJob
        BY <3>1, <3>2, Zenon DEF JobInv
      <4>2. NoJob.path = <<>> /\ NoJob.loc = None
        BY DEF NoJob
      <4> QED BY <3>1, <3>2, <4>1, <4>2, Zenon
    <3>3. CASE pc[w] # "idle"
      <4>1. job[w] \in Jobs /\ (Getattr(pc[w], job[w]) \/ Readdir(pc[w], job[w]))
        BY <3>1, <3>3 DEF JobInv
      <4>2. job[w].from \in Issuer /\ NoJob.from = None
        BY <4>1, Zenon DEF Jobs, NoJob
      <4>3. job[w] # NoJob
        BY <4>2, ListingAssumption DEF Issuer
      <4>4. job[w].path \in {<<>>, <<job[w].name>>}
        BY <4>1, Zenon DEF Getattr, Readdir, InHand
      <4>5. job[w].loc \in Location \cup {ROOT, None}
        BY <4>1 DEF Jobs
      <4> QED BY <3>1, <3>3, <4>3, <4>4, <4>5
    <3> QED BY <3>2, <3>3, Zenon
  <2> QED BY <2>1, Zenon DEF ListInv, TypeOK, Stages
<1> QED BY <1>1, ListInvariant, PTL

(* A listing that succeeds has every entry that was there all the time and *)
(* none that never was; it fails with ENOENT only if an entry vanished     *)
(* under its hands and with EPERM or ELOOP only if a symlink led below the *)
(* mountpoint.  This is so for every directory, however many requests are  *)
(* served at once and whoever changes the directory meanwhile.             *)
THEOREM ListingsExact == Spec => []ListingExact
<1>1. ListInv => ListingExact
  <2> SUFFICES ASSUME ListInv, NEW w \in Worker, pc[w] = "done", Lists(job[w].req)
               PROVE  LET j == job[w]
                          names == {e.name : e \in j.listed}
                      IN  /\ j.res = OK =>
                               /\ \A n \in Name : "absent" \notin j.seen[n] => n \in names
                               /\ \A n \in names : j.seen[n] # {"absent"}
                          /\ j.res = "ENOENT" => \E n \in Name : "absent" \in j.seen[n] /\ j.seen[n] # {"absent"}
                          /\ j.res \in {"EPERM", "ELOOP"} => \E n \in Name : "below" \in j.seen[n]
    BY Zenon DEF ListingExact
  <2>1. JobInv(w)
    BY DEF ListInv
  <2>2. Readdir("done", job[w])
    BY <2>1, Zenon DEF JobInv, Getattr, Lists
  <2>3. \A kinds : There(kinds) => kinds # {"absent"}
    BY DEF There
  <2> QED BY <2>2, <2>3, Zenon DEF Readdir
<1> QED BY <1>1, ListInvariant, PTL
-----------------------------------------------------------------------------
(* Refuses and StatOf, for a given setting.                                *)
Refused(kind, resolve) ==
  kind \in {"absent", "unmappable"} \/ (resolve /\ kind \in {"loop", "toMount", "below"})
Shown(kind, resolve) == IF kind = "broken" \/ (kind \in Link /\ ~resolve) THEN "lnk" ELSE "reg"

(* d_type is true to what the entry has been.                              *)
Told(stream, seen) ==
  \A e \in stream :
    /\ e.link => \E kind \in seen[e.name] : kind \in Link
    /\ ~e.link => \E kind \in seen[e.name] : kind \notin Link

(* What has been listed so far agrees with bindfs_getattr.                 *)
Agreed(op, listed, seen, resolve) ==
  \A kind \in Kind : op = "readdirplus" /\ ~Refused(kind, resolve) =>
    \A e \in listed : seen[e.name] = {kind} => e.attr = Shown(kind, resolve)

(* lstat is about to look where bindfs_getattr would.                      *)
AtHand(step, op, name, loc, kinds, resolve) ==
  \A kind \in Kind : op = "readdirplus" /\ ~Refused(kind, resolve) /\ kinds = {kind} =>
    /\ step = "realpath" => resolve /\ kind \in Link
    /\ step = "stat" => loc = IF resolve /\ kind = "toFile" THEN FILE ELSE name

(* What is known of a listing besides.                                     *)
PlusJob(step, j, resolve) ==
  /\ Told(j.stream, j.seen)
  /\ Agreed(j.req.op, j.listed, j.seen, resolve)
  /\ step \in {"realpath", "stat"} => AtHand(step, j.req.op, j.name, j.loc, j.seen[j.name], resolve)

PlusInv ==
  \A w \in Worker : pc[w] # "idle" /\ Lists(job[w].req) =>
    PlusJob(pc[w], job[w], settings.resolve_symlinks)

(* One worker takes a step.                                                *)
LEMMA PlusFrame ==
  ASSUME ListInv, PlusInv, NEW w \in Worker, NEW to, NEW j,
         pc' = [pc EXCEPT ![w] = to], job' = [job EXCEPT ![w] = j], settings' = settings,
         to # "idle" /\ Lists(j.req) => PlusJob(to, j, settings.resolve_symlinks)
  PROVE  PlusInv'
<1>1. pc \in [Worker -> Stages] /\ job \in [Worker -> Jobs \cup {NoJob}]
  BY DEF ListInv
<1>2. pc'[w] = to /\ job'[w] = j
  BY <1>1, Zenon
<1>3. \A v \in Worker \ {w} : pc'[v] = pc[v] /\ job'[v] = job[v]
  BY <1>1, Zenon
<1> QED BY <1>2, <1>3, Zenon DEF PlusInv

(* A request for attributes is no matter of PlusInv.                       *)
LEMMA PlusGetattr ==
  ASSUME ListInv, PlusInv, NEW w \in Worker, process_path(w) \/ bindfs_getattr(w)
  PROVE  PlusInv'
<1>1. JobInv(w) /\ job \in [Worker -> Jobs \cup {NoJob}] /\ pc[w] \in {"process_path", "lstat"}
  BY DEF ListInv, process_path, bindfs_getattr
<1>2. job[w] \in Jobs /\ ~Lists(job[w].req)
  BY <1>1, Zenon DEF JobInv, Readdir, Getattr, Lists
<1>3. settings' = settings
  BY DEF process_path, bindfs_getattr, Realpath, Lstat
<1>4. PICK to, j : /\ pc' = [pc EXCEPT ![w] = to] /\ job' = [job EXCEPT ![w] = j]
                   /\ j.req = job[w].req
  <2>1. \A x : [job[w] EXCEPT !.res = x].req = job[w].req /\ [job[w] EXCEPT !.loc = x].req = job[w].req
    BY <1>2 DEF Jobs
  <2>2. UNCHANGED job => job' = [job EXCEPT ![w] = job[w]]
    BY <1>1
  <2>3. ASSUME NEW from, NEW res, Return(w, from, res)
        PROVE  pc' = [pc EXCEPT ![w] = "done"] /\ job' = [job EXCEPT ![w] = [job[w] EXCEPT !.res = res]]
    BY <2>3 DEF Return, Goto
  <2>4. ASSUME NEW v, job' = [job EXCEPT ![w].loc = v]
        PROVE  job' = [job EXCEPT ![w] = [job[w] EXCEPT !.loc = v]]
    BY <2>4
  <2>5. CASE bindfs_getattr(w)
    <3>1. PICK res : Return(w, "lstat", res)
      BY <2>5, Zenon DEF bindfs_getattr
    <3> DEFINE k == [job[w] EXCEPT !.res = res]
    <3>2. /\ pc' = [pc EXCEPT ![w] = "done"] /\ job' = [job EXCEPT ![w] = k]
          /\ k.req = job[w].req
      BY <3>1, <2>1, <2>3
    <3> HIDE DEF k
    <3> QED BY <3>2, Zenon
  <2>6. CASE process_path(w)
    <3>1. PICK v : \/ Goto(w, "process_path", "lstat") /\ UNCHANGED job
                   \/ Return(w, "process_path", v)
                   \/ Goto(w, "process_path", "lstat") /\ job' = [job EXCEPT ![w].loc = v]
      BY <2>6 DEF process_path
    <3>2. CASE Goto(w, "process_path", "lstat") /\ UNCHANGED job
      BY <3>2, <2>2, Zenon DEF Goto
    <3>3. CASE Return(w, "process_path", v)
      <4> DEFINE k == [job[w] EXCEPT !.res = v]
      <4>1. /\ pc' = [pc EXCEPT ![w] = "done"] /\ job' = [job EXCEPT ![w] = k]
            /\ k.req = job[w].req
        BY <3>3, <2>1, <2>3
      <4> HIDE DEF k
      <4> QED BY <4>1, Zenon
    <3>4. CASE Goto(w, "process_path", "lstat") /\ job' = [job EXCEPT ![w].loc = v]
      BY <3>4, <2>1, <2>4, Zenon DEF Goto
    <3> QED BY <3>1, <3>2, <3>3, <3>4
  <2> QED BY <2>5, <2>6
<1> QED BY <1>2, <1>3, <1>4, PlusFrame, Zenon

(* What is known of a listing stays true when the directory changes: an    *)
(* entry that is one thing all the time was that before.                   *)
LEMMA PlusChange ==
  ASSUME ListInv, PlusInv, NEW n \in Name, NEW kind \in ChangedKinds, Change(n, kind)
  PROVE  PlusInv'
<1> SUFFICES ASSUME NEW w \in Worker, pc'[w] # "idle", Lists(job'[w].req)
             PROVE  PlusJob(pc'[w], job'[w], settings'.resolve_symlinks)
  BY Zenon DEF PlusInv
<1> DEFINE j == job[w]
           k == job'[w]
           resolve == settings.resolve_symlinks
<1>1. pc' = pc /\ settings' = settings
  BY DEF Change
<1>2. JobInv(w) /\ kind \in Kind /\ pc[w] # "idle"
  BY <1>1, ListingAssumption DEF ListInv
<1>3. j \in Jobs /\ \A m \in Name : entry[m] \in j.seen[m]
  BY <1>2, Zenon DEF JobInv
<1>4. k = [j EXCEPT !.seen[n] = @ \cup {kind}]
  BY <1>2 DEF Change
<1>5. Grown(j, k, n, kind)
  BY <1>2, <1>3, <1>4, SeenMore
<1> HIDE DEF k
<1>6. /\ k \in Jobs /\ k.req = j.req /\ k.stream = j.stream /\ k.name = j.name /\ k.loc = j.loc
      /\ k.listed = j.listed
      /\ \A m \in Name : j.seen[m] \subseteq k.seen[m]
  BY <1>5, Zenon DEF Grown
<1>7. \A m \in Name : \A x : k.seen[m] = {x} => j.seen[m] = {x}
  BY <1>3, <1>6, Zenon
<1>8. \A e \in j.stream \cup j.listed : e.name \in Name
  BY <1>3, Zenon DEF Jobs, Entries, Listed
<1>9. PlusJob(pc[w], j, resolve)
  BY <1>2, <1>6, Zenon DEF PlusInv, k
<1>10. pc[w] \in {"realpath", "stat"} => j.name \in Name
  BY <1>2, Zenon DEF JobInv, Readdir, Getattr, InHand
<1>11. Told(k.stream, k.seen)
  BY <1>6, <1>8, <1>9, Zenon DEF PlusJob, Told
<1>12. Agreed(k.req.op, k.listed, k.seen, resolve)
  BY <1>6, <1>7, <1>8, <1>9, Zenon DEF PlusJob, Agreed
<1>13. ASSUME pc[w] \in {"realpath", "stat"}
       PROVE  AtHand(pc[w], k.req.op, k.name, k.loc, k.seen[k.name], resolve)
  <2>1. AtHand(pc[w], j.req.op, j.name, j.loc, j.seen[j.name], resolve)
    BY <1>9, <1>13, Zenon DEF PlusJob
  <2>2. \A x : k.seen[k.name] = {x} => j.seen[j.name] = {x}
    <3>1. k.name = j.name /\ j.name \in Name
      BY <1>6, <1>10, <1>13, Zenon
    <3>2. \A x : k.seen[j.name] = {x} => j.seen[j.name] = {x}
      BY <3>1, <1>7, Zenon
    <3> QED BY <3>1, <3>2, Zenon
  <2> QED BY <2>1, <2>2, <1>6, Zenon DEF AtHand
<1>14. PlusJob(pc[w], k, resolve)
  BY <1>11, <1>12, <1>13, Zenon DEF PlusJob
<1> QED BY <1>1, <1>14, Zenon DEF k

(* A new request has listed nothing.                                       *)
LEMMA PlusReceive ==
  ASSUME ListInv, PlusInv, NEW w \in Worker, NEW i \in Issuer, Receive(w, i)
  PROVE  PlusInv'
<1> DEFINE to == FirstStep(want[i])
           seen == [n \in Name |-> {entry[n]}]
           j == [NoJob EXCEPT !.from = i, !.req = want[i], !.loc = want[i].name, !.seen = seen]
<1>1. /\ want[i] # NoRequest /\ pc' = [pc EXCEPT ![w] = to] /\ job' = [job EXCEPT ![w] = j]
      /\ settings' = settings
  BY DEF Receive
<1>2. want[i] \in Requests /\ want[i].name \in Location \cup {ROOT} /\ seen \in [Name -> SUBSET Kind]
  BY <1>1 DEF ListInv, Requests, Location
<1>3. Fresh(j, i, want[i], seen)
  BY <1>2, NewJob, Zenon
<1> HIDE DEF j, seen
<1>4. j.stream = {} /\ j.listed = {}
  BY <1>3 DEF Fresh
<1>5. to \notin {"realpath", "stat"}
  BY DEF FirstStep
<1> HIDE DEF to
<1>6. PlusJob(to, j, settings.resolve_symlinks)
  BY <1>4, <1>5, Zenon DEF PlusJob, Told, Agreed
<1> QED BY <1>1, <1>6, PlusFrame, Zenon

(* A listing that ends keeps what it has.                                  *)
LEMMA PlusReturn ==
  ASSUME ListInv, PlusInv, NEW w \in Worker, pc[w] \in {"opendir", "readdir", "stat"},
         NEW from, NEW res, Return(w, from, res), settings' = settings
  PROVE  PlusInv'
<1> DEFINE j == job[w]
           k == [j EXCEPT !.res = res]
<1>1. JobInv(w)
  BY DEF ListInv
<1>2. j \in Jobs /\ Lists(j.req)
  BY <1>1, Zenon DEF JobInv, Getattr, Readdir
<1>3. k.req = j.req /\ k.stream = j.stream /\ k.listed = j.listed /\ k.seen = j.seen
  BY <1>2 DEF Jobs
<1>4. pc' = [pc EXCEPT ![w] = "done"] /\ job' = [job EXCEPT ![w] = k]
  BY DEF Return, Goto
<1>5. PlusJob(pc[w], j, settings.resolve_symlinks)
  BY <1>2, Zenon DEF PlusInv
<1> HIDE DEF k
<1>6. PlusJob("done", k, settings.resolve_symlinks)
  BY <1>3, <1>5, Zenon DEF PlusJob
<1> QED BY <1>4, <1>6, PlusFrame, Zenon

(* The stream of opendir has the d_type of the entries.                    *)
LEMMA PlusOpendir ==
  ASSUME ListInv, PlusInv, NEW w \in Worker, opendir(w)
  PROVE  PlusInv'
<1> DEFINE j == job[w]
           stream ==
             {[name |-> n, link |-> entry[n] \in Link] : n \in {m \in Name : entry[m] # "absent"}}
           k == [j EXCEPT !.stream = stream]
           resolve == settings.resolve_symlinks
<1>1. JobInv(w) /\ pc[w] = "opendir" /\ settings' = settings
  BY DEF ListInv, opendir
<1>2. j \in Jobs /\ Lists(j.req) /\ \A n \in Name : entry[n] \in j.seen[n]
  BY <1>1, Zenon DEF JobInv, Getattr, Readdir
<1>3. PlusJob("opendir", j, resolve)
  BY <1>1, <1>2 DEF PlusInv
<1>4. \A e \in stream : e.name \in Name /\ e.link = (entry[e.name] \in Link)
  OBVIOUS
<1>5. k.req = j.req /\ k.stream = stream /\ k.listed = j.listed /\ k.seen = j.seen
  BY <1>2 DEF Jobs
<1>6. CASE Goto(w, "opendir", "readdir") /\ job' = [job EXCEPT ![w].stream = stream]
  <2>1. pc' = [pc EXCEPT ![w] = "readdir"] /\ job' = [job EXCEPT ![w] = k]
    BY <1>6 DEF Goto
  <2> HIDE DEF stream, k
  <2>2. Told(stream, j.seen)
    BY <1>2, <1>4, Zenon DEF Told
  <2>3. PlusJob("readdir", k, resolve)
    BY <1>3, <1>5, <2>2, Zenon DEF PlusJob
  <2> QED BY <1>1, <2>1, <2>3, PlusFrame, Zenon
<1>7. CASE Return(w, "opendir", "EACCES")
  BY <1>1, <1>7, PlusReturn
<1> QED BY <1>6, <1>7 DEF opendir

(* The entry taken from the stream is resolved exactly if it is a symlink. *)
LEMMA PlusReaddir ==
  ASSUME ListInv, PlusInv, NEW w \in Worker, readdir(w)
  PROVE  PlusInv'
<1> DEFINE j == ResetErrno(job[w])
           resolve == settings.resolve_symlinks
<1>1. JobInv(w) /\ pc[w] = "readdir" /\ settings' = settings
  BY Zenon DEF ListInv, readdir
<1>2. job[w] \in Jobs /\ Readdir("readdir", job[w]) /\ Lists(job[w].req)
  BY <1>1, Zenon DEF JobInv, Getattr, Readdir
<1>3. PlusJob("readdir", job[w], resolve)
  BY <1>1, <1>2, Zenon DEF PlusInv
<1>4. j.stream = job[w].stream
  BY <1>2 DEF ResetErrno, Jobs
<1>5. ASSUME NEW e \in j.stream, NEW k, k = [j EXCEPT !.stream = @ \ {e}, !.name = e.name],
             \/ /\ ~Resolves(e) /\ ~plus(w)
                /\ Goto(w, "readdir", "readdir")
                /\ job' = [job EXCEPT ![w] = Filled(k, None)]
             \/ /\ Resolves(e) \/ plus(w)
                /\ Goto(w, "readdir", IF Resolves(e) THEN "realpath" ELSE "stat")
                /\ job' = [job EXCEPT ![w] = Appended(k)]
      PROVE  PlusInv'
  <2>1. /\ Reads(k) /\ k.req = job[w].req /\ k.seen = job[w].seen /\ k.path = <<>>
        /\ k.name = e.name /\ k.stream = job[w].stream \ {e} /\ k.listed = job[w].listed
    BY <1>2, <1>4, <1>5, TakenFacts, Zenon
  <2>2. CASE ~plus(w) /\ Goto(w, "readdir", "readdir") /\ job' = [job EXCEPT ![w] = Filled(k, None)]
    <3> DEFINE f == Filled(k, None)
    <3>1. f.req = k.req /\ f.seen = k.seen /\ f.stream = k.stream
      BY <2>1 DEF Reads, Jobs, Filled
    <3>2. pc' = [pc EXCEPT ![w] = "readdir"] /\ job' = [job EXCEPT ![w] = f]
      BY <2>2 DEF Goto
    <3> HIDE DEF f
    <3>3. PlusJob("readdir", f, resolve)
      BY <1>3, <2>1, <2>2, <3>1, Zenon DEF PlusJob, Told, Agreed, plus
    <3> QED BY <1>1, <3>2, <3>3, PlusFrame, Zenon
  <2>3. CASE /\ Goto(w, "readdir", IF Resolves(e) THEN "realpath" ELSE "stat")
             /\ job' = [job EXCEPT ![w] = Appended(k)]
    <3> DEFINE f == Appended(k)
               step == IF Resolves(e) THEN "realpath" ELSE "stat"
    <3>1. /\ f.req = k.req /\ f.seen = k.seen /\ f.name = k.name /\ f.loc = k.name
          /\ f.stream = k.stream /\ f.listed = k.listed
      BY <2>1, AppendedFacts, Zenon
    <3>2. pc' = [pc EXCEPT ![w] = step] /\ job' = [job EXCEPT ![w] = f]
      BY <2>3, Zenon DEF Goto
    <3> HIDE DEF f
    <3>3. /\ e.link => \E kind \in k.seen[e.name] : kind \in Link
          /\ ~e.link => \E kind \in k.seen[e.name] : kind \notin Link
      BY <1>3, <1>4, <2>1, Zenon DEF PlusJob, Told
    <3>4. "toFile" \in Link
      BY DEF Link
    <3>5. \A kind : step = "realpath" /\ f.seen[f.name] = {kind} => resolve /\ kind \in Link
      BY <2>1, <3>1, <3>3 DEF Resolves
    <3>6. \A kind : step = "stat" /\ f.seen[f.name] = {kind} => ~(resolve /\ kind = "toFile")
      BY <2>1, <3>1, <3>3, <3>4 DEF Resolves
    <3> HIDE DEF step
    <3>7. Told(f.stream, f.seen)
      BY <1>3, <2>1, <3>1, Zenon DEF PlusJob, Told
    <3>8. Agreed(f.req.op, f.listed, f.seen, resolve)
      BY <1>3, <2>1, <3>1, Zenon DEF PlusJob
    <3>9. AtHand(step, f.req.op, f.name, f.loc, f.seen[f.name], resolve)
      BY <3>1, <3>5, <3>6, Zenon DEF AtHand
    <3>10. PlusJob(step, f, resolve)
      BY <3>7, <3>8, <3>9, Zenon DEF PlusJob
    <3> QED BY <1>1, <3>2, <3>10, PlusFrame, Zenon
  <2> QED BY <1>5, <2>2, <2>3
<1>6. ASSUME NEW res, Return(w, "readdir", res) PROVE PlusInv'
  BY <1>1, <1>6, PlusReturn
<1> QED BY <1>5, <1>6, Zenon DEF readdir

(* realpath of a symlink that is not refused fails, or leads to a file.    *)
LEMMA PlusRealpath ==
  ASSUME ListInv, PlusInv, NEW w \in Worker, readdir_realpath(w)
  PROVE  PlusInv'
<1> DEFINE j == job[w]
           resolve == settings.resolve_symlinks
<1>1. JobInv(w) /\ WaitInv(w) /\ pc[w] = "realpath" /\ entry \in [Name -> Kind]
  BY DEF ListInv, readdir_realpath
<1>2. j \in Jobs /\ Readdir("realpath", j) /\ Lists(j.req) /\ \A n \in Name : entry[n] \in j.seen[n]
  BY <1>1, Zenon DEF JobInv, Getattr, Readdir
<1>3. j.loc = j.name /\ j.name \in Name
  BY <1>2, Zenon DEF Readdir, InHand
<1>4. PICK v \in Location \cup Error :
        /\ Realpath(w, j.loc, v)
        /\ Goto(w, "realpath", "stat")
        /\ job' = [job EXCEPT ![w] = IF v \in Error THEN [@ EXCEPT !.errno = v]
                                     ELSE [@ EXCEPT !.loc = v]]
  BY Zenon DEF readdir_realpath
<1> DEFINE k == IF v \in Error THEN [j EXCEPT !.errno = v] ELSE [j EXCEPT !.loc = v]
<1>5. pc' = [pc EXCEPT ![w] = "stat"] /\ job' = [job EXCEPT ![w] = k] /\ settings' = settings
  BY <1>4 DEF Goto, Realpath
<1>6. /\ k.req = j.req /\ k.seen = j.seen /\ k.name = j.name
      /\ k.stream = j.stream /\ k.listed = j.listed
      /\ k.loc = IF v \in Error THEN j.loc ELSE v
  BY <1>2 DEF Jobs
<1> HIDE DEF k
<1>7. PlusJob("realpath", j, resolve)
  BY <1>1, <1>2, Zenon DEF PlusInv
<1>8. ASSUME j.req.op = "readdirplus", NEW kind \in Kind, ~Refused(kind, resolve), j.seen[j.name] = {kind}
      PROVE  k.loc = IF resolve /\ kind = "toFile" THEN FILE ELSE j.name
  <2>1. resolve /\ kind \in Link
    BY <1>7, <1>8, Zenon DEF PlusJob, AtHand
  <2>2. kind \in {"broken", "toFile"}
    BY <1>8, <2>1, Zenon DEF Refused, Link
  <2>3. KindAt(j.loc) = kind
    BY <1>2, <1>3, <1>8 DEF KindAt
  <2>4. reply[w] = None
    <3> SUFFICES ASSUME reply[w] # None PROVE FALSE
      OBVIOUS
    <3>1. "below" \in j.seen[j.name]
      BY <1>1, <1>3, Zenon DEF WaitInv, Waits
    <3> QED BY <3>1, <1>8, <2>2
  <2>5. v = RealpathOf(kind, j.loc)
    BY <1>4, <2>3, <2>4 DEF Realpath
  <2>6. CASE kind = "broken"
    <3>1. v = "ENOENT"
      BY <2>5, <2>6 DEF RealpathOf
    <3> QED BY <3>1, <2>6, <1>3, <1>6, Zenon DEF Error
  <2>7. CASE kind = "toFile"
    <3>1. v = FILE
      BY <2>5, <2>7 DEF RealpathOf
    <3>2. FILE \notin Error
      BY DEF FILE, Error
    <3> QED BY <3>1, <3>2, <2>1, <2>7, <1>6
  <2> QED BY <2>2, <2>6, <2>7
<1>9. PlusJob("stat", k, resolve)
  <2>1. Told(k.stream, k.seen) /\ Agreed(k.req.op, k.listed, k.seen, resolve)
    BY <1>6, <1>7, Zenon DEF PlusJob
  <2>2. AtHand("stat", k.req.op, k.name, k.loc, k.seen[k.name], resolve)
    BY <1>6, <1>8, Zenon DEF AtHand
  <2> QED BY <2>1, <2>2, Zenon DEF PlusJob
<1> QED BY <1>5, <1>9, PlusFrame, Zenon

(* lstat reports what bindfs_getattr would.                                *)
LEMMA PlusStat ==
  ASSUME ListInv, PlusInv, NEW w \in Worker, readdir_stat(w)
  PROVE  PlusInv'
<1> DEFINE j == job[w]
           resolve == settings.resolve_symlinks
<1>1. JobInv(w) /\ pc[w] = "stat" /\ settings' = settings /\ entry \in [Name -> Kind]
  BY DEF ListInv, readdir_stat, Lstat
<1>2. j \in Jobs /\ Readdir("stat", j) /\ Lists(j.req) /\ \A n \in Name : entry[n] \in j.seen[n]
  BY <1>1, Zenon DEF JobInv, Getattr, Readdir
<1>3. InHand("stat", j) /\ j.name \in Name /\ Reads(j)
  BY <1>2, Zenon DEF Readdir, InHand, Reads
<1>4. PICK v \in Attributes \cup Error :
        LET res == IF v \in Attributes /\ plus(w) THEN getattr_common(j.loc, v) ELSE v
        IN  /\ Lstat(w, j.loc, v)
            /\ \/ res \notin Attributes /\ Return(w, "stat", res)
               \/ /\ res \in Attributes
                  /\ Goto(w, "stat", "readdir")
                  /\ job' = [job EXCEPT ![w] = Filled(@, IF plus(w) THEN res ELSE None)]
  BY Zenon DEF readdir_stat
<1> DEFINE res == IF v \in Attributes /\ plus(w) THEN getattr_common(j.loc, v) ELSE v
<1>5. PlusJob("stat", j, resolve)
  BY <1>1, <1>2, Zenon DEF PlusInv
<1>6. CASE Return(w, "stat", res)
  BY <1>1, <1>6, PlusReturn, Zenon
<1>7. CASE /\ res \in Attributes /\ Goto(w, "stat", "readdir")
           /\ job' = [job EXCEPT ![w] = Filled(@, IF plus(w) THEN res ELSE None)]
  <2> DEFINE attr == IF plus(w) THEN res ELSE None
             e0 == [name |-> j.name, attr |-> attr]
             k == [j EXCEPT !.listed = @ \cup {e0}, !.path = <<>>]
  <2>1. pc' = [pc EXCEPT ![w] = "readdir"] /\ job' = [job EXCEPT ![w] = k]
    BY <1>7 DEF Goto, Filled
  <2>2. e0.name = j.name /\ e0.attr = attr
    OBVIOUS
  <2>3. ASSUME plus(w), NEW kind \in Kind, ~Refused(kind, resolve), j.seen[j.name] = {kind}
        PROVE  attr = Shown(kind, resolve)
    <3>1. j.loc = IF resolve /\ kind = "toFile" THEN FILE ELSE j.name
      BY <1>5, <2>3, Zenon DEF PlusJob, AtHand, plus
    <3>2. attr = v /\ v \in Attributes
      BY <1>7, <2>3, Zenon DEF getattr_common, Attributes
    <3>3. CASE resolve /\ kind = "toFile"
      <4>1. j.loc = FILE /\ FILE \notin Name \cup {ROOT, MOUNT, BELOW}
        BY <3>1, <3>3, ListingAssumption DEF FILE, MOUNT, BELOW
      <4>2. v = LstatOf(FILE) /\ KindAt(FILE) = "file"
        BY <4>1, <1>4, Zenon DEF Lstat, KindAt
      <4>3. v = "reg"
        BY <4>1, <4>2 DEF LstatOf, Link
      <4> QED BY <3>2, <3>3, <4>3 DEF Shown
    <3>4. CASE ~(resolve /\ kind = "toFile")
      <4>1. j.loc = j.name /\ j.name \notin {ROOT, MOUNT, BELOW}
        BY <1>3, <3>1, <3>4, ListingAssumption, Zenon
      <4>2. KindAt(j.name) = kind
        BY <1>2, <1>3, <2>3, Zenon DEF KindAt
      <4>3. v = LstatOf(j.name)
        BY <4>1, <1>4, Zenon DEF Lstat
      <4>4. kind # "absent"
        BY <2>3 DEF Refused
      <4>5. v = IF kind \in Link THEN "lnk" ELSE "reg"
        BY <4>1, <4>2, <4>3, <4>4 DEF LstatOf
      <4>6. kind \in Link /\ resolve => kind = "broken"
        BY <2>3, <3>4 DEF Refused, Link
      <4>7. "broken" \in Link
        BY DEF Link
      <4> QED BY <3>2, <4>5, <4>6, <4>7 DEF Shown
    <3> QED BY <3>3, <3>4
  <2> HIDE DEF attr, e0, res
  <2>4. /\ k.req = j.req /\ k.seen = j.seen /\ k.stream = j.stream
        /\ k.listed = j.listed \cup {e0}
    BY <1>2 DEF Jobs
  <2> HIDE DEF k
  <2>5. Told(k.stream, k.seen)
    BY <1>5, <2>4, Zenon DEF PlusJob
  <2>6. ASSUME k.req.op = "readdirplus", NEW kind \in Kind, ~Refused(kind, resolve), NEW x \in k.listed,
               k.seen[x.name] = {kind}
        PROVE  x.attr = Shown(kind, resolve)
    <3>1. CASE x = e0
      BY <2>2, <2>3, <2>4, <2>6, <3>1, Zenon DEF plus
    <3>2. CASE x \in j.listed
      BY <1>5, <2>4, <2>6, <3>2, Zenon DEF PlusJob, Agreed
    <3> QED BY <2>4, <3>1, <3>2, Zenon
  <2>7. PlusJob("readdir", k, resolve)
    BY <2>5, <2>6, Zenon DEF PlusJob, Agreed
  <2> QED BY <1>1, <2>1, <2>7, PlusFrame, Zenon
<1> QED BY <1>4, <1>6, <1>7

(* Every step keeps the agreement.                                         *)
LEMMA PlusNext == ListInv /\ PlusInv /\ [Next]_vars => PlusInv'
<1> SUFFICES ASSUME ListInv, PlusInv, [Next]_vars PROVE PlusInv'
  OBVIOUS
<1>1. CASE UNCHANGED <<settings, pc, job>>
  BY <1>1 DEF PlusInv
<1>2. ASSUME NEW n \in Name, NEW kind \in ChangedKinds, Change(n, kind) PROVE PlusInv'
  BY <1>2, PlusChange
<1>3. ASSUME NEW w \in Worker, NEW i \in Issuer, Receive(w, i) PROVE PlusInv'
  BY <1>3, PlusReceive
<1>4. ASSUME NEW w \in Worker, Reply(w) PROVE PlusInv'
  BY <1>4, PlusFrame, Zenon DEF Reply, Goto
<1>5. ASSUME NEW w \in Worker, Step(w) PROVE PlusInv'
  BY <1>1, <1>4, <1>5, PlusGetattr, PlusOpendir, PlusReaddir, PlusRealpath, PlusStat, Zenon
     DEF Step, Nest, LookInto
<1> QED BY <1>1, <1>2, <1>3, <1>5 DEF Next, Ask, vars

(* readdirplus lists an entry that does not change meanwhile with the      *)
(* attributes that bindfs_getattr would report, for every directory and    *)
(* any number of requests at once.                                         *)
THEOREM PlusAgrees == Spec => []PlusAgreesWithStat
<1>1. Init => PlusInv
  BY DEF Init, PlusInv
<1>2. ListInv /\ PlusInv => PlusAgreesWithStat
  <2> SUFFICES ASSUME ListInv, PlusInv, NEW w \in Worker, NEW e \in job[w].listed, NEW kind \in Kind,
                      plus(w), job[w].seen[e.name] = {kind}, ~Refuses(kind)
               PROVE  e.attr = StatOf(kind)
    BY Zenon DEF PlusAgreesWithStat
  <2>1. JobInv(w)
    BY Zenon DEF ListInv
  <2>2. pc[w] # "idle" /\ Lists(job[w].req)
    <3>1. NoJob.listed = {}
      BY Zenon DEF NoJob
    <3> QED BY <2>1, <3>1, Zenon DEF JobInv, plus, Lists
  <2>3. ~Refused(kind, settings.resolve_symlinks)
    BY DEF Refuses, Refused
  <2>4. Agreed(job[w].req.op, job[w].listed, job[w].seen, settings.resolve_symlinks)
    BY <2>2, Zenon DEF PlusInv, PlusJob
  <2>5. e.attr = Shown(kind, settings.resolve_symlinks)
    BY <2>3, <2>4, Zenon DEF Agreed, plus
  <2> QED BY <2>5 DEF Shown, StatOf
<1> QED BY <1>1, <1>2, ListInvariant, PlusNext, PTL DEF Spec
=============================================================================
