---------------------------- MODULE IdMapProofs ----------------------------
(***************************************************************************)
(* Theorems about IdMap, for every width of a uid_t, every list of mapping *)
(* entries and every offset.  The entries must not name (uid_t)-1, which   *)
(* usermap_add mistakes for an absent entry.                               *)
(***************************************************************************)
EXTENDS IdMap, TLAPS

USE IdMapAssumption DEF Mounter, EIO, Nobody

NamesNoId(f) == \A i \in DOMAIN f : f[i].from # NoId /\ f[i].to # NoId

Paired(f, g) ==
  /\ HasUniqueKeys(f) /\ HasUniqueKeys(g)
  /\ IsInverse(f, g) /\ IsInverse(g, f)
  /\ NamesNoId(f) /\ NamesNoId(g)

(* The source owner o that the reverse map and the offset make of uid u.   *)
Reaches(u, o) ==
  /\ o # EIO
  /\ o = unapply_uid_offset(usermap_get_or_default(usermap_reverse, u, u))

AskedReached == asked # Nobody => Reaches(asked, owner)

(* The inductive invariant: until main gives up, each usermap_add pair     *)
(* keeps the two maps inverse; and an owner that was asked for and set     *)
(* is the one that the reverse map and the offset make of it.              *)
Inv ==
  /\ TypeOK
  /\ stage # "exited" => Paired(usermap, usermap_reverse)
  /\ stage # "mounted" => asked = Nobody
  /\ AskedReached

(* In a map with unique keys a lookup finds the entry of its key.          *)
LEMMA LookupFinds ==
  ASSUME NEW f \in Seq(Entry), HasUniqueKeys(f), NEW i \in DOMAIN f, NEW deflt
  PROVE  usermap_get_or_default(f, f[i].from, deflt) = f[i].to
<1>1. f[i].from \in Keys(f)
  BY DEF Keys
<1>2. \A j \in 1..(i - 1) : f[j].from # f[i].from
  BY DEF HasUniqueKeys
<1>3. \A k \in DOMAIN f : f[k].from = f[i].from => k = i
  BY DEF HasUniqueKeys
<1>4. First(f, f[i].from) = i
  BY <1>2, <1>3 DEF First
<1> QED
  BY <1>1, <1>4 DEF usermap_get_or_default

(* A lookup of an id that the map does not have gives the default.         *)
LEMMA LookupDefaults ==
  ASSUME NEW f, NEW u, u \notin Keys(f), NEW deflt
  PROVE  usermap_get_or_default(f, u, deflt) = deflt
BY DEF usermap_get_or_default

(* usermap_add accepts an entry only for a key that the map does not have. *)
LEMMA AcceptedIsNew ==
  ASSUME NEW f \in Seq(Entry), HasUniqueKeys(f), NamesNoId(f),
         NEW from, NEW to, from # to, Accepts(f, from, to)
  PROVE  from \notin Keys(f)
<1> SUFFICES ASSUME from \in Keys(f) PROVE FALSE
  OBVIOUS
<1>1. PICK i \in DOMAIN f : f[i].from = from
  BY DEF Keys
<1>2. usermap_get_or_default(f, from, NoId) = f[i].to
  BY <1>1, LookupFinds
<1>3. f[i].to # NoId
  BY DEF NamesNoId
<1> QED
  BY <1>2, <1>3 DEF Accepts, IsDuplicate

(* usermap_add keeps the type of a map.                                    *)
LEMMA AddTyped ==
  ASSUME NEW f \in Seq(Entry), NEW from \in Uid, NEW to \in Uid
  PROVE  usermap_add(f, from, to) \in Seq(Entry)
<1>1. [from |-> from, to |-> to] \in Entry
  BY DEF Entry
<1> QED
  BY <1>1 DEF usermap_add

(* What the maps hold after an accepted pair of usermap_add calls.         *)
LEMMA AddPaired ==
  ASSUME NEW f \in Seq(Entry), NEW g \in Seq(Entry), Paired(f, g),
         NEW from \in MapId, NEW to \in MapId, NoId \notin MapId,
         Accepts(f, from, to), Accepts(g, to, from)
  PROVE  Paired(usermap_add(f, from, to), usermap_add(g, to, from))
<1>1. CASE from = to
  BY <1>1 DEF usermap_add
<1>2. CASE from # to
  <2> DEFINE e == [from |-> from, to |-> to]
             d == [from |-> to, to |-> from]
             ff == Append(f, e)
             gg == Append(g, d)
  <2>1. from \notin Keys(f) /\ to \notin Keys(g)
    BY <1>2, AcceptedIsNew DEF Paired
  <2>2. e \in Entry /\ d \in Entry
    BY DEF Entry
  <2>3. /\ ff \in Seq(Entry) /\ gg \in Seq(Entry)
        /\ DOMAIN ff = 1..(Len(f) + 1) /\ DOMAIN gg = 1..(Len(g) + 1)
        /\ \A i \in DOMAIN f : i \in DOMAIN ff /\ ff[i] = f[i]
        /\ \A i \in DOMAIN g : i \in DOMAIN gg /\ gg[i] = g[i]
        /\ ff[Len(f) + 1] = e /\ gg[Len(g) + 1] = d
        /\ DOMAIN f = 1..Len(f) /\ DOMAIN g = 1..Len(g)
        /\ Len(f) \in Nat /\ Len(g) \in Nat
    BY <2>2
  <2> HIDE DEF ff, gg
  <2>4. \A i \in DOMAIN f : f[i].from # from
    BY <2>1 DEF Keys
  <2>5. \A i \in DOMAIN g : g[i].from # to
    BY <2>1 DEF Keys
  <2>6. HasUniqueKeys(ff)
    BY <2>3, <2>4 DEF Paired, HasUniqueKeys
  <2>7. HasUniqueKeys(gg)
    BY <2>3, <2>5 DEF Paired, HasUniqueKeys
  <2>8. IsInverse(ff, gg)
    <3> SUFFICES ASSUME NEW i \in DOMAIN ff
                 PROVE  \E j \in DOMAIN gg : gg[j] = [from |-> ff[i].to, to |-> ff[i].from]
      BY DEF IsInverse
    <3>1. CASE i = Len(f) + 1
      BY <3>1, <2>3
    <3>2. CASE i \in DOMAIN f
      BY <3>2, <2>3 DEF Paired, IsInverse
    <3> QED
      BY <3>1, <3>2, <2>3
  <2>9. IsInverse(gg, ff)
    <3> SUFFICES ASSUME NEW i \in DOMAIN gg
                 PROVE  \E j \in DOMAIN ff : ff[j] = [from |-> gg[i].to, to |-> gg[i].from]
      BY DEF IsInverse
    <3>1. CASE i = Len(g) + 1
      BY <3>1, <2>3
    <3>2. CASE i \in DOMAIN g
      BY <3>2, <2>3 DEF Paired, IsInverse
    <3> QED
      BY <3>1, <3>2, <2>3
  <2>10. NamesNoId(ff) /\ NamesNoId(gg)
    <3>1. from # NoId /\ to # NoId
      OBVIOUS
    <3>2. \A i \in DOMAIN f : f[i].from # NoId /\ f[i].to # NoId
      BY DEF Paired, NamesNoId
    <3>3. \A i \in DOMAIN g : g[i].from # NoId /\ g[i].to # NoId
      BY DEF Paired, NamesNoId
    <3>4. NamesNoId(ff)
      BY <3>1, <3>2, <2>3 DEF NamesNoId
    <3>5. NamesNoId(gg)
      BY <3>1, <3>3, <2>3 DEF NamesNoId
    <3> QED
      BY <3>4, <3>5
  <2>11. usermap_add(f, from, to) = ff /\ usermap_add(g, to, from) = gg
    BY <1>2 DEF usermap_add, ff, gg
  <2> QED
    BY <2>6, <2>7, <2>8, <2>9, <2>10, <2>11 DEF Paired
<1> QED
  BY <1>1, <1>2

(* bounded_add gives EIO or an id below (uid_t)-1.                         *)
LEMMA NumberFacts ==
  /\ NoId \in Nat /\ UID_T_MAX < NoId /\ 0 < NoId
  /\ \A u : u \in Uid <=> u \in Nat /\ u <= NoId
  /\ \A a, b \in Int : bounded_add(a, b, UID_T_MAX) \in (Uid \ {NoId}) \cup {EIO}
BY DEF NoId, Uid, bounded_add

(* The entry of either mapping step: types, and the maps stay paired       *)
(* unless main exits.                                                      *)
LEMMA AddBothStep ==
  ASSUME NEW f \in Seq(Entry), NEW g \in Seq(Entry), Paired(f, g),
         NEW from \in MapId, NEW to \in MapId, NoId \notin MapId
  PROVE  /\ usermap_add(f, from, to) \in Seq(Entry)
         /\ usermap_add(g, to, from) \in Seq(Entry)
         /\ Accepts(f, from, to) /\ Accepts(g, to, from) =>
              Paired(usermap_add(f, from, to), usermap_add(g, to, from))
<1>1. from \in Uid /\ to \in Uid
  OBVIOUS
<1> QED
  BY <1>1, AddTyped, AddPaired

(* The pairing does not depend on which map comes first.                   *)
LEMMA PairedSymmetric ==
  ASSUME NEW f, NEW g, Paired(f, g) PROVE Paired(g, f)
BY DEF Paired

(* What each entry of an option does to the rest of the state.             *)
LEMMA GivenTyped ==
  ASSUME TypeOK, NEW opt \in {"passwd", "passwd_rev", "map"},
         NEW from \in MapId, NEW to \in MapId, Given(opt, from, to)
  PROVE  /\ given' \in Seq(GivenEntry) /\ stage = opt
         /\ UNCHANGED <<od_map, uid_offset, settings, owner, asked>>
<1>1. from \in Uid /\ to \in Uid
  OBVIOUS
<1>2. [opt |-> opt, from |-> from, to |-> to] \in GivenEntry
  BY <1>1 DEF GivenEntry
<1>3. given \in Seq(GivenEntry)
  BY DEF TypeOK
<1>4. given' = Append(given, [opt |-> opt, from |-> from, to |-> to])
  BY DEF Given
<1>5. given' \in Seq(GivenEntry)
  BY <1>2, <1>3, <1>4
<1> QED
  BY <1>5 DEF Given

(* An entry of any mapping option keeps the invariant.                     *)
LEMMA ParseStep ==
  ASSUME Inv, NoId \notin MapId, parse_map_file \/ parse_user_map
  PROVE  Inv'
<1>0. TypeOK
  BY DEF Inv
<1>1. PICK from \in MapId, to \in MapId, opt \in {"passwd", "passwd_rev", "map"} :
        /\ Given(opt, from, to) \/ Given(opt, to, from)
        /\ AddBoth(usermap, usermap_reverse, from, to) \/ AddBoth(usermap_reverse, usermap, from, to)
  BY DEF parse_map_file, parse_user_map
<1>2. /\ given' \in Seq(GivenEntry) /\ stage = opt
      /\ UNCHANGED <<od_map, uid_offset, settings, owner, asked>>
  BY <1>0, <1>1, GivenTyped
<1>3. /\ Paired(usermap, usermap_reverse) /\ Paired(usermap_reverse, usermap)
      /\ usermap \in Seq(Entry) /\ usermap_reverse \in Seq(Entry)
  BY <1>2, PairedSymmetric DEF Inv, TypeOK
<1>4. /\ usermap' \in Seq(Entry) /\ usermap_reverse' \in Seq(Entry)
      /\ stage' \in {stage, "exited"}
      /\ stage' # "exited" => Paired(usermap', usermap_reverse')
  <2>1. CASE AddBoth(usermap, usermap_reverse, from, to)
    BY <1>3, <2>1, AddBothStep DEF AddBoth
  <2>2. CASE AddBoth(usermap_reverse, usermap, from, to)
    BY <1>3, <2>2, AddBothStep, PairedSymmetric DEF AddBoth
  <2> QED
    BY <1>1, <2>1, <2>2
<1>5. TypeOK'
  BY <1>0, <1>2, <1>4 DEF TypeOK, Stage
<1>6. AskedReached' /\ (stage' # "mounted" => asked' = Nobody)
  BY <1>2, <1>4 DEF Inv, AskedReached
<1> QED
  BY <1>4, <1>5, <1>6 DEF Inv

(* The other steps of main leave the maps alone and store no owner.        *)
LEMMA OptionStep ==
  ASSUME Inv, Malformed \/ NextOption \/ ParseOffset
  PROVE  Inv'
<1>1. /\ stage # "exited" /\ stage # "mounted" /\ stage' \in Stage
      /\ uid_offset' \in {uid_offset} \cup Offset /\ od_map' \in BOOLEAN
      /\ UNCHANGED <<usermap, usermap_reverse, settings, owner, given, asked>>
  BY DEF Inv, TypeOK, Malformed, NextOption, ParseOffset, Stage, maps
<1>2. TypeOK'
  BY <1>1 DEF Inv, TypeOK
<1>3. Paired(usermap', usermap_reverse')
  BY <1>1 DEF Inv
<1>4. asked' = Nobody
  BY <1>1 DEF Inv
<1> QED
  BY <1>2, <1>3, <1>4 DEF Inv, AskedReached

(* A handler that leaves an owner asked for leaves the file with the       *)
(* owner that the reverse map and the offset make of it.                   *)
LEMMA HandlerStep ==
  ASSUME Inv, bindfs_chown \/ chown_new_file \/ SourceChown
  PROVE  Inv'
<1>0. /\ stage = "mounted" /\ settings \in Options /\ Paired(usermap, usermap_reverse)
      /\ usermap_reverse \in Seq(Entry)
  BY DEF Inv, TypeOK, bindfs_chown, chown_new_file, SourceChown
<1>1. /\ UNCHANGED <<stage, usermap, usermap_reverse, od_map, uid_offset, settings, given>>
  BY DEF bindfs_chown, chown_new_file, SourceChown, maps
<1>2. Mounter \in Uid \ {NoId} /\ \A u \in Uid \ {NoId} : u # Nobody
  BY NumberFacts
<1>3. \A u : unapply_uid_offset(u) # EIO => unapply_uid_offset(u) \in Uid \ {NoId}
  BY NumberFacts DEF unapply_uid_offset, bounded_add, Uid, NoId
<1>4. /\ owner' \in Uid \ {NoId}
      /\ asked' \in {Nobody} \cup (Uid \ {NoId})
      /\ asked' # Nobody => Reaches(asked', owner')
  <2>1. CASE bindfs_chown
    <3>1. PICK uid \in Uid \ {NoId} : Chowned(uid) \/ UNCHANGED <<owner, asked>>
      BY <2>1 DEF bindfs_chown
    <3>2. CASE UNCHANGED <<owner, asked>>
      BY <1>0, <3>2 DEF Inv, TypeOK, AskedReached
    <3>3. CASE Chowned(uid) /\ ~UNCHANGED <<owner, asked>>
      BY <1>2, <1>3, <3>3 DEF Chowned, Reaches
    <3> QED
      BY <3>1, <3>2, <3>3
  <2>2. CASE chown_new_file
    <3> DEFINE source(user) == IF FileOwner(user) = NoId THEN NoId
                               ELSE unapply_uid_offset(FileOwner(user))
    <3>1. PICK user \in Uid \ {NoId} :
            \/ settings.create_for_uid # NoId /\ owner' = settings.create_for_uid /\ asked' = Nobody
            \/ source(user) \notin {EIO, NoId} /\ owner' = source(user) /\ asked' = user
            \/ owner' = Mounter /\ asked' = Nobody
      BY <2>2 DEF chown_new_file
    <3>2. settings.create_for_uid \in Uid
      BY <1>0 DEF Options
    <3>3. CASE source(user) \notin {EIO, NoId} /\ owner' = source(user) /\ asked' = user
      <4>1. FileOwner(user) # NoId /\ owner' = unapply_uid_offset(FileOwner(user))
        BY <3>3
      <4>2. FileOwner(user) = usermap_get_or_default(usermap_reverse, user, user)
        BY <4>1 DEF FileOwner, usermap_get_or_default
      <4> QED
        BY <1>2, <1>3, <3>3, <4>1, <4>2 DEF Reaches
    <3> QED
      BY <1>2, <3>1, <3>2, <3>3
  <2>3. CASE SourceChown
    BY <2>3 DEF SourceChown
  <2> QED
    BY <2>1, <2>2, <2>3
<1>5. TypeOK'
  BY <1>1, <1>4 DEF Inv, TypeOK
<1>6. AskedReached'
  BY <1>1, <1>4 DEF AskedReached, Reaches, unapply_uid_offset
<1>7. Paired(usermap', usermap_reverse') /\ stage' = "mounted"
  BY <1>0, <1>1
<1> QED
  BY <1>5, <1>6, <1>7 DEF Inv

(* The invariant holds before main looks at its options.                   *)
LEMMA InitHolds == ASSUME Init PROVE Inv
<1>1. TypeOK
  <2>1. Mounter \in Uid \ {NoId}
    BY NumberFacts
  <2>2. \A S : <<>> \in Seq(S)
    OBVIOUS
  <2>3. usermap \in Seq(Entry) /\ usermap_reverse \in Seq(Entry) /\ given \in Seq(GivenEntry)
    BY <2>2 DEF Init
  <2>4. od_map \in BOOLEAN /\ settings \in Settings /\ stage \in Stage
    BY DEF Init, Stage
  <2>5. uid_offset \in Int
    BY DEF Init
  <2>6. owner \in Uid \ {NoId} /\ asked \in {Nobody} \cup (Uid \ {NoId})
    BY <2>1 DEF Init
  <2> QED
    BY <2>3, <2>4, <2>5, <2>6 DEF TypeOK
<1>2. Paired(usermap, usermap_reverse)
  BY DEF Init, Paired, HasUniqueKeys, IsInverse, NamesNoId
<1> QED
  BY <1>1, <1>2 DEF Init, Inv, AskedReached

(* Every step of main and of the handlers keeps the invariant.             *)
LEMMA StepHolds == ASSUME Inv, NoId \notin MapId, [Next]_vars PROVE Inv'
<1>1. CASE UNCHANGED vars
  <2>1. UNCHANGED <<stage, usermap, usermap_reverse, od_map, uid_offset, settings, owner, given, asked>>
    BY <1>1 DEF vars, maps
  <2> QED
    BY <2>1 DEF Inv, TypeOK, AskedReached, Reaches, unapply_uid_offset
<1>2. CASE parse_map_file \/ parse_user_map
  BY <1>2, ParseStep
<1>3. CASE Malformed \/ NextOption \/ ParseOffset
  BY <1>3, OptionStep
<1>4. CASE bindfs_chown \/ chown_new_file \/ SourceChown
  BY <1>4, HandlerStep
<1> QED
  BY <1>1, <1>2, <1>3, <1>4 DEF Next

(* The invariant above holds in every reachable state.                     *)
THEOREM Invariance == ASSUME NoId \notin MapId PROVE Spec => []Inv
<1>1. Init => Inv
  BY InitHolds
<1>2. Inv /\ [Next]_vars => Inv'
  BY StepHolds
<1> QED
  BY <1>1, <1>2, PTL DEF Spec

(* The types hold for every width of uid_t: in particular no handler makes *)
(* (uid_t)-1 the owner of a file.                                          *)
THEOREM TypeCorrect == ASSUME NoId \notin MapId PROVE Spec => []TypeOK
<1>1. Inv => TypeOK
  BY DEF Inv
<1> QED
  BY <1>1, Invariance, PTL

(* When bindfs is mounted, usermap and usermap_reverse are inverse partial *)
(* functions, whatever entries the mapping options had and in which order. *)
THEOREM MapsAreInverse == ASSUME NoId \notin MapId PROVE Spec => []MapsInverse
<1>1. Inv => MapsInverse
  BY DEF Inv, MapsInverse, Paired
<1> QED
  BY <1>1, Invariance, PTL

(* The lookup in the one map undoes the lookup in the other, for an id     *)
(* that is not shown as another one.                                       *)
LEMMA LookupUndone ==
  ASSUME NEW f \in Seq(Entry), NEW g \in Seq(Entry), Paired(f, g), NEW u,
         u \in Keys(f) => u \in Keys(g)
  PROVE  LET o == usermap_get_or_default(g, u, u)
         IN  usermap_get_or_default(f, o, o) = u
<1> DEFINE o == usermap_get_or_default(g, u, u)
<1>1. CASE u \in Keys(g)
  <2>1. PICK i \in DOMAIN g : g[i].from = u
    BY <1>1 DEF Keys
  <2>2. o = g[i].to
    BY <2>1, LookupFinds DEF Paired
  <2>3. PICK j \in DOMAIN f : f[j] = [from |-> g[i].to, to |-> g[i].from]
    BY DEF Paired, IsInverse
  <2>4. f[j].from = o /\ f[j].to = u
    BY <2>1, <2>2, <2>3
  <2>5. usermap_get_or_default(f, f[j].from, o) = f[j].to
    BY LookupFinds DEF Paired
  <2> QED
    BY <2>4, <2>5
<1>2. CASE u \notin Keys(g)
  BY <1>2, LookupDefaults
<1> QED
  BY <1>1, <1>2

(* What a chown or a creation through the mount asked for is what getattr  *)
(* shows, on the terms that ChownRoundTrip states, for every map.          *)
THEOREM OwnerRoundTrip == ASSUME NoId \notin MapId PROVE Spec => []ChownRoundTrip
<1>1. Inv => ChownRoundTrip
  <2> SUFFICES ASSUME Inv, NEW user \in Uid \ settings.mirrored,
                      stage = "mounted", asked # Nobody, asked <= UID_T_MAX,
                      asked \in Keys(usermap) => asked \in Keys(usermap_reverse),
                      usermap = <<>> \/ uid_offset = 0,
                      settings.new_uid = NoId
               PROVE  getattr_common(user) = asked
    BY DEF ChownRoundTrip
  <2> DEFINE o == usermap_get_or_default(usermap_reverse, asked, asked)
  <2>1. /\ Paired(usermap, usermap_reverse) /\ Reaches(asked, owner)
        /\ usermap \in Seq(Entry) /\ usermap_reverse \in Seq(Entry)
        /\ uid_offset \in Int /\ owner \in Nat /\ asked \in Nat
    BY NumberFacts DEF Inv, TypeOK, AskedReached
  <2>2. usermap_get_or_default(usermap, o, o) = asked
    BY <2>1, LookupUndone
  <2>3. owner = bounded_add(o, -uid_offset, UID_T_MAX) /\ owner # EIO
    BY <2>1 DEF Reaches, unapply_uid_offset
  <2>4. o \in Int
    <3>1. CASE asked \in Keys(usermap_reverse)
      <4>1. PICK i \in DOMAIN usermap_reverse : usermap_reverse[i].from = asked
        BY <3>1 DEF Keys
      <4>2. o = usermap_reverse[i].to
        BY <2>1, <4>1, LookupFinds DEF Paired
      <4>3. usermap_reverse[i] \in Entry
        BY <2>1
      <4> QED
        BY <4>2, <4>3 DEF Entry, Uid, NoId
    <3>2. CASE asked \notin Keys(usermap_reverse)
      BY <2>1, <3>2, LookupDefaults
    <3> QED
      BY <3>1, <3>2
  <2>5. owner = o - uid_offset
    BY <2>1, <2>3, <2>4 DEF bounded_add
  <2>6. apply_uid_offset(usermap_get_or_default(usermap, owner, owner)) = asked
    <3>1. CASE uid_offset = 0
      <4>1. usermap_get_or_default(usermap, owner, owner) = asked
        BY <2>2, <2>4, <2>5, <3>1
      <4> QED
        BY <2>1, <3>1, <4>1 DEF apply_uid_offset, bounded_add
    <3>2. CASE usermap = <<>>
      <4>1. Keys(usermap) = {} /\ \A u : u \notin Keys(usermap)
        BY <3>2 DEF Keys
      <4>2. \A u : usermap_get_or_default(usermap, u, u) = u
        BY <4>1 DEF usermap_get_or_default
      <4>3. o = asked
        BY <2>2, <4>2
      <4> QED
        BY <2>1, <2>5, <4>2, <4>3 DEF apply_uid_offset, bounded_add
    <3> QED
      BY <3>1, <3>2
  <2> QED
    BY <2>1, <2>6 DEF getattr_common
<1> QED
  BY <1>1, Invariance, PTL
=============================================================================
