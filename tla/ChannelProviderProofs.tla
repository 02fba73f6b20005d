------------------------- MODULE ChannelProviderProofs -------------------------
(***************************************************************************)
(* The provision ledger, and the Provider service around it, keep what     *)
(* they promise for any devices, generations, operation ids, manifests,    *)
(* policies and handles, and whatever fails or crashes.                    *)
(*                                                                         *)
(* The ledger.  The row that holds a handle is of its device's newest      *)
(* generation (HeldIsLatest), so an admitted request that is not stale     *)
(* meets held rows of its own generation or of older ones only, and those  *)
(* are exactly the rows the transaction ends.                              *)
(*                                                                         *)
(* The service.  What an operation checked before it awaited the adapter   *)
(* still holds when it commits, because nobody writes the ledger while the *)
(* lock is taken (LockedOp, LockedSession).  And a room is deleted, or a listener         *)
(* dropped, only for a device that holds nothing or holds exactly the      *)
(* generation whose revocation the Hub is still waiting for.               *)
(***************************************************************************)
EXTENDS ChannelProvider, TLAPS

LedgerInv ==
    /\ TypeOK
    /\ OneHeldPerDevice
    /\ HeldIsLatest
    /\ RevocationIsFinal
    /\ PolicyNeverRegresses
    /\ HandleOnlyWhileHeld

-----------------------------------------------------------------------------
\* Generations are strictly and totally ordered, as tuples are.
LEMMA OlderTotal ==
    ASSUME NEW g \in Generations, NEW h \in Generations
    PROVE  Older(g, h) \/ Older(h, g) \/ g = h
BY LedgerAssumption DEF Older, GenerationShape

\* No generation is older than itself, nor are two older than each other.
LEMMA OlderAsymmetric ==
    ASSUME NEW g \in Generations, NEW h \in Generations, Older(g, h)
    PROVE  ~Older(h, g) /\ g # h
BY LedgerAssumption DEF Older, GenerationShape

\* The sweep changes no row but for active rows it makes expired: what is
\* stored and what is held stays so.
LEMMA SweepKeeps ==
    ASSUME rows \in [Keys -> Row], NEW due \in SUBSET ActiveRows(rows)
    PROVE  /\ Expired(rows, due) \in [Keys -> Row]
           /\ \A k \in Keys :
                 /\ Stored(Expired(rows, due), k) <=> Stored(rows, k)
                 /\ Held(Expired(rows, due), k) <=> Held(rows, k)
                 /\ Expired(rows, due)[k].decl = rows[k].decl
                 /\ Expired(rows, due)[k].handle = rows[k].handle
<1> DEFINE rs == Expired(rows, due)
<1>1. ASSUME NEW k \in Keys
      PROVE  /\ rs[k] \in Row
             /\ Stored(rs, k) <=> Stored(rows, k)
             /\ Held(rs, k) <=> Held(rows, k)
             /\ rs[k].decl = rows[k].decl
             /\ rs[k].handle = rows[k].handle
  <2>1. rows[k] \in Row
    OBVIOUS
  <2>2. CASE k \in due
    <3>1. rs[k] = [rows[k] EXCEPT !.status = "expired"] /\ rows[k].status = "active"
      BY <2>2 DEF Expired, ActiveRows
    <3> QED
      BY <2>1, <3>1 DEF Row, Statuses, Stored, Held
  <2>3. CASE k \notin due
    BY <2>1, <2>3 DEF Expired, Stored, Held
  <2> QED
    BY <2>2, <2>3
<1>2. rs \in [Keys -> Row]
  BY <1>1 DEF Expired
<1> QED
  BY <1>1, <1>2

\* Ending rows leaves them stored, unheld, without handle, and touches no other.
LEMMA EndedKeeps ==
    ASSUME NEW rs \in [Keys -> Row], NEW K, NEW status \in {"fenced", "revoked"}
    PROVE  /\ Ended(rs, K, status) \in [Keys -> Row]
           /\ \A k \in Keys :
                 /\ k \notin K => Ended(rs, K, status)[k] = rs[k]
                 /\ k \in K => /\ ~Held(Ended(rs, K, status), k)
                               /\ Stored(Ended(rs, K, status), k)
                               /\ Ended(rs, K, status)[k].handle = NoHandle
                 /\ Ended(rs, K, status)[k].decl = rs[k].decl
<1> DEFINE es == Ended(rs, K, status)
<1>1. ASSUME NEW k \in Keys
      PROVE  /\ es[k] \in Row
             /\ k \notin K => es[k] = rs[k]
             /\ k \in K => /\ es[k].status = status
                           /\ es[k].handle = NoHandle
             /\ es[k].decl = rs[k].decl
  <2>1. rs[k] \in Row
    OBVIOUS
  <2>2. CASE k \in K
    <3>1. es[k] = [rs[k] EXCEPT !.status = status, !.handle = NoHandle]
      BY <2>2 DEF Ended
    <3> QED
      BY <2>1, <2>2, <3>1 DEF Row, Statuses
  <2>3. CASE k \notin K
    BY <2>1, <2>3 DEF Ended
  <2> QED
    BY <2>2, <2>3
<1>2. es \in [Keys -> Row]
  BY <1>1 DEF Ended
<1> QED
  BY <1>1, <1>2 DEF Held, Stored

-----------------------------------------------------------------------------
\* The invariants' parts that do not mention the current transaction, for any
\* table: what `Granted` and `Revoked` may assume of the swept table.
TableOK(rs) ==
    /\ rs \in [Keys -> Row]
    /\ \A k \in Keys : /\ Stored(rs, k) /\ Grants(k) => rs[k].decl \in Declarations
                       /\ Held(rs, k) => Grants(k)
                       /\ Held(rs, k) <=> rs[k].handle # NoHandle
    /\ \A k, l \in Keys :
          /\ Held(rs, k) /\ Held(rs, l) /\ k.dev = l.dev => k = l
          /\ Held(rs, k) /\ Stored(rs, l) /\ k.dev = l.dev => ~Older(k.gen, l.gen)
          /\ Stored(rs, k) /\ k.kind = "revoke" /\ Held(rs, l) /\ l.dev = k.dev
                => Older(k.gen, l.gen)
          /\ Held(rs, k) /\ Stored(rs, l) /\ Grants(l) /\ k.dev = l.dev /\ k.gen = l.gen
                => PolicyKept(rs[l].decl.policy, rs[k].decl.policy)

\* The invariant says of the rows what TableOK says of any table.
LEMMA InvIsTableOK == LedgerInv <=> TableOK(rows)
BY DEF LedgerInv, TableOK, TypeOK, OneHeldPerDevice, HeldIsLatest,
       RevocationIsFinal, PolicyNeverRegresses, HandleOnlyWhileHeld, PolicyKept

\* The same of the rows after a step.
LEMMA InvIsTableOKNext == LedgerInv' <=> TableOK(rows')
BY DEF LedgerInv, TableOK, TypeOK, OneHeldPerDevice, HeldIsLatest, Stored, Held,
       RevocationIsFinal, PolicyNeverRegresses, HandleOnlyWhileHeld, PolicyKept

\* A sweep of active rows leaves a correct table.
LEMMA SweepKeepsTable ==
    ASSUME TableOK(rows), NEW due \in SUBSET ActiveRows(rows)
    PROVE  TableOK(Expired(rows, due))
<1>1. rows \in [Keys -> Row]
  BY DEF TableOK
<1>2. /\ Expired(rows, due) \in [Keys -> Row]
      /\ \A k \in Keys :
            /\ Stored(Expired(rows, due), k) <=> Stored(rows, k)
            /\ Held(Expired(rows, due), k) <=> Held(rows, k)
            /\ Expired(rows, due)[k].decl = rows[k].decl
            /\ Expired(rows, due)[k].handle = rows[k].handle
  BY <1>1, SweepKeeps
<1> HIDE DEF Expired
<1> QED
  BY <1>2 DEF TableOK

\* The transaction that admits a grant meets no held row it would not end.
LEMMA SupersedesAllHeld ==
    ASSUME NEW rs, TableOK(rs), NEW k \in Keys, Grants(k),
           ~Stale(rs, k.dev, k.gen),
           k.kind = "provision" => GenerationRows(rs, k.dev, k.gen) = {},
           k.kind = "refresh" => \E p \in GenerationRows(rs, k.dev, k.gen) : Grants(p),
           NEW l \in Keys, l.dev = k.dev, Held(rs, l)
    PROVE  l \in Superseded(rs, k)
<1>1. /\ k.gen \in Generations /\ l.gen \in Generations
      /\ k.kind \in {"provision", "refresh"}
  BY DEF Keys, Kinds, Grants
<1>2. Stored(rs, l) /\ l \in StoredOf(rs, k.dev)
  BY DEF Stored, Held, StoredOf
<1>3. ~Older(k.gen, l.gen)
  BY <1>2 DEF Stale
<1>4. CASE Advances(rs, k.dev, k.gen)
  BY <1>2, <1>4 DEF Superseded, Advances, HeldOlder
<1>5. CASE ~Advances(rs, k.dev, k.gen)
  <2>1. PICK m \in StoredOf(rs, k.dev) : ~Older(m.gen, k.gen)
    BY <1>2, <1>5 DEF Advances
  <2>2. m \in Keys /\ m.gen \in Generations /\ Stored(rs, m) /\ m.dev = k.dev
    BY <2>1 DEF StoredOf, Keys
  <2>3. m.gen = k.gen
    BY <1>1, <2>1, <2>2, OlderTotal DEF Stale
  <2>4. m \in GenerationRows(rs, k.dev, k.gen)
    BY <2>1, <2>3 DEF GenerationRows
  <2>5. k.kind = "refresh"
    BY <1>1, <2>4
  <2>6. ~Older(l.gen, m.gen)
    BY <2>2 DEF TableOK
  <2>7. l.gen = k.gen
    BY <1>1, <1>3, <2>3, <2>6, OlderTotal
  <2> QED
    BY <1>5, <2>5, <2>7 DEF Superseded, HeldSame
<1> QED
  BY <1>4, <1>5

\* Only rows of the request's own device are ended by it.
LEMMA SupersedesOwnDevice ==
    ASSUME NEW rs, NEW k \in Keys
    PROVE  Superseded(rs, k) \subseteq {l \in Keys : l.dev = k.dev /\ Held(rs, l)}
BY DEF Superseded, HeldOlder, HeldSame

\* What a committed grant does to each row: the new row is active, the rows its
\* device held are ended, every other row is as it was.
LEMMA GrantedRows ==
    ASSUME NEW rs, TableOK(rs), NEW k \in Keys, Grants(k),
           NEW decl \in Declarations, NEW handle \in Handles, NEW observed,
           ~Stale(rs, k.dev, k.gen), ~Stored(rs, k),
           Admissible(rs, k, decl, observed)
    PROVE  LET new == Granted(rs, k, decl, handle) IN
           /\ new \in [Keys -> Row]
           /\ new[k] = [status |-> "active", decl |-> decl, handle |-> handle]
           /\ \A l \in Keys \ {k} :
                 /\ new[l].decl = rs[l].decl
                 /\ l.dev = k.dev /\ Held(rs, l) =>
                       Stored(new, l) /\ ~Held(new, l) /\ new[l].handle = NoHandle
                 /\ ~(l.dev = k.dev /\ Held(rs, l)) => new[l] = rs[l]
<1> DEFINE es == Ended(rs, Superseded(rs, k), "fenced")
           new == Granted(rs, k, decl, handle)
<1>1. rs \in [Keys -> Row]
  BY DEF TableOK
<1>2. /\ es \in [Keys -> Row]
      /\ \A l \in Keys :
            /\ l \notin Superseded(rs, k) => es[l] = rs[l]
            /\ l \in Superseded(rs, k) =>
                  ~Held(es, l) /\ Stored(es, l) /\ es[l].handle = NoHandle
            /\ es[l].decl = rs[l].decl
  BY <1>1, EndedKeeps
<1>3. \A l \in Keys : l \in Superseded(rs, k) => Held(rs, l) /\ l.dev = k.dev
  BY SupersedesOwnDevice
<1>4. \A l \in Keys : Held(rs, l) /\ l.dev = k.dev => l \in Superseded(rs, k)
  <2>1. k.kind = "provision" => GenerationRows(rs, k.dev, k.gen) = {}
    BY DEF Admissible
  <2>2. k.kind = "refresh" => \E p \in GenerationRows(rs, k.dev, k.gen) : Grants(p)
    BY DEF Admissible
  <2> QED
    BY <2>1, <2>2, SupersedesAllHeld
<1>5. new = [es EXCEPT ![k] = [status |-> "active", decl |-> decl, handle |-> handle]]
  BY DEF Granted
<1>6. /\ new \in [Keys -> Row]
      /\ new[k] = [status |-> "active", decl |-> decl, handle |-> handle]
      /\ \A l \in Keys : l # k => new[l] = es[l]
  BY <1>2, <1>5 DEF Row, Statuses
<1> HIDE DEF es, new
<1>7. \A l \in Keys \ {k} :
         /\ new[l].decl = rs[l].decl
         /\ l.dev = k.dev /\ Held(rs, l) =>
               Stored(new, l) /\ ~Held(new, l) /\ new[l].handle = NoHandle
         /\ ~(l.dev = k.dev /\ Held(rs, l)) => new[l] = rs[l]
  BY <1>2, <1>3, <1>4, <1>6 DEF Stored, Held
<1> QED
  BY <1>6, <1>7 DEF new

\* A committed grant keeps the table's invariants: afterwards the new row is
\* the only one its device holds.
LEMMA GrantedKeepsTable ==
    ASSUME NEW rs, TableOK(rs), NEW k \in Keys, Grants(k),
           NEW decl \in Declarations, NEW handle \in Handles, NEW observed,
           ~Stale(rs, k.dev, k.gen), ~Stored(rs, k),
           Admissible(rs, k, decl, observed)
    PROVE  TableOK(Granted(rs, k, decl, handle))
<1> DEFINE new == Granted(rs, k, decl, handle)
<1>1. /\ new \in [Keys -> Row]
      /\ new[k] = [status |-> "active", decl |-> decl, handle |-> handle]
      /\ \A l \in Keys \ {k} :
            /\ new[l].decl = rs[l].decl
            /\ l.dev = k.dev /\ Held(rs, l) =>
                  Stored(new, l) /\ ~Held(new, l) /\ new[l].handle = NoHandle
            /\ ~(l.dev = k.dev /\ Held(rs, l)) => new[l] = rs[l]
  BY GrantedRows
<1> HIDE DEF new
<1>2. \A l \in Keys :
         /\ Held(new, l) <=> l = k \/ (l.dev # k.dev /\ Held(rs, l))
         /\ Stored(new, l) <=> l = k \/ Stored(rs, l)
         /\ l # k => new[l].decl = rs[l].decl
         /\ l # k => (Held(new, l) <=> new[l].handle # NoHandle)
  BY <1>1 DEF Held, Stored, TableOK
<1>3. \A l \in Keys : Stored(rs, l) /\ l.dev = k.dev => ~Older(k.gen, l.gen)
  BY DEF Stale, StoredOf
<1>4. ~Older(k.gen, k.gen)
  BY OlderAsymmetric DEF Keys
<1>5. ASSUME NEW r \in Keys, Stored(rs, r), r.kind = "revoke", r.dev = k.dev
       PROVE  Older(r.gen, k.gen)
  <2>1. r.gen \in Generations /\ k.gen \in Generations /\ k.kind \in {"provision", "refresh"}
    BY DEF Keys, Kinds, Grants
  <2>2. CASE r.gen = k.gen
    <3>1. r \in GenerationRows(rs, k.dev, k.gen)
      BY <1>5, <2>2 DEF GenerationRows, StoredOf
    <3>2. PICK p \in GenerationRows(rs, k.dev, k.gen) :
             Grants(p) /\ Renewable(rs, p, decl, observed)
      BY <2>1, <3>1 DEF Admissible
    <3>3. p \in Keys /\ p.dev = k.dev /\ p.gen = k.gen /\ Held(rs, p)
      BY <3>2 DEF GenerationRows, StoredOf, Renewable, Held
    <3>4. Older(r.gen, p.gen)
      BY <1>5, <3>3 DEF TableOK
    <3> QED
      BY <2>1, <2>2, <3>3, <3>4, OlderAsymmetric
  <2> QED
    BY <1>3, <1>5, <2>1, <2>2, OlderTotal
<1>6. ASSUME NEW l \in Keys, Stored(rs, l), Grants(l), l.dev = k.dev, l.gen = k.gen
       PROVE  PolicyKept(rs[l].decl.policy, decl.policy)
  BY <1>6 DEF Admissible, GenerationRows, StoredOf
<1>7. PolicyKept(decl.policy, decl.policy)
  BY DEF PolicyKept
<1>8. ASSUME NEW l \in Keys
       PROVE  /\ Stored(new, l) /\ Grants(l) => new[l].decl \in Declarations
              /\ Held(new, l) => Grants(l)
              /\ Held(new, l) <=> new[l].handle # NoHandle
  BY <1>1, <1>2, LedgerAssumption DEF TableOK
<1>9. ASSUME NEW l \in Keys, NEW m \in Keys
       PROVE  /\ Held(new, l) /\ Held(new, m) /\ l.dev = m.dev => l = m
              /\ Held(new, l) /\ Stored(new, m) /\ l.dev = m.dev => ~Older(l.gen, m.gen)
              /\ Stored(new, l) /\ l.kind = "revoke" /\ Held(new, m) /\ m.dev = l.dev
                    => Older(l.gen, m.gen)
              /\ Held(new, l) /\ Stored(new, m) /\ Grants(m) /\ l.dev = m.dev /\ l.gen = m.gen
                    => PolicyKept(new[m].decl.policy, new[l].decl.policy)
  <2>1. Held(new, l) /\ Held(new, m) /\ l.dev = m.dev => l = m
    BY <1>2 DEF TableOK
  <2>2. Held(new, l) /\ Stored(new, m) /\ l.dev = m.dev => ~Older(l.gen, m.gen)
    BY <1>2, <1>3, <1>4 DEF TableOK
  <2>3. Stored(new, l) /\ l.kind = "revoke" /\ Held(new, m) /\ m.dev = l.dev
           => Older(l.gen, m.gen)
    BY <1>2, <1>5 DEF TableOK, Grants
  <2>4. Held(new, l) /\ Stored(new, m) /\ Grants(m) /\ l.dev = m.dev /\ l.gen = m.gen
           => PolicyKept(new[m].decl.policy, new[l].decl.policy)
    BY <1>1, <1>2, <1>6, <1>7 DEF TableOK
  <2> QED
    BY <2>1, <2>2, <2>3, <2>4
<1> QED
  BY <1>1, <1>8, <1>9 DEF TableOK, new

\* A committed revocation leaves its device holding nothing.
LEMMA RevocationEndsAllHeld ==
    ASSUME NEW rs, TableOK(rs), NEW k \in Keys, ~Stale(rs, k.dev, k.gen),
           NEW l \in Keys, l.dev = k.dev, Held(rs, l)
    PROVE  \/ Advances(rs, k.dev, k.gen) /\ l \in HeldOlder(rs, k.dev, k.gen)
           \/ l \in HeldSame(rs, k.dev, k.gen)
<1>1. k.gen \in Generations /\ l.gen \in Generations
  BY DEF Keys
<1>2. l \in StoredOf(rs, k.dev) /\ ~Older(k.gen, l.gen)
  BY DEF Stored, Held, StoredOf, Stale
<1>3. CASE Advances(rs, k.dev, k.gen)
  BY <1>2, <1>3 DEF Advances, HeldOlder
<1>4. CASE ~Advances(rs, k.dev, k.gen)
  <2>1. PICK m \in StoredOf(rs, k.dev) : ~Older(m.gen, k.gen)
    BY <1>2, <1>4 DEF Advances
  <2>2. m \in Keys /\ m.gen \in Generations /\ Stored(rs, m) /\ m.dev = k.dev
    BY <2>1 DEF StoredOf, Keys
  <2>3. m.gen = k.gen
    BY <1>1, <2>1, <2>2, OlderTotal DEF Stale
  <2>4. ~Older(l.gen, m.gen)
    BY <2>2 DEF TableOK
  <2>5. l.gen = k.gen
    BY <1>1, <1>2, <2>3, <2>4, OlderTotal
  <2> QED
    BY <2>5 DEF HeldSame
<1> QED
  BY <1>3, <1>4

\* What a committed revocation does to each row: it records itself, and every
\* row its device held is ended.
LEMMA RevokedRows ==
    ASSUME NEW rs, TableOK(rs), NEW k \in Keys, k.kind = "revoke",
           ~Stale(rs, k.dev, k.gen), ~Stored(rs, k)
    PROVE  LET new == Revoked(rs, k) IN
           /\ new \in [Keys -> Row]
           /\ new[k] = [status |-> "completed", decl |-> NoDecl, handle |-> NoHandle]
           /\ \A l \in Keys \ {k} :
                 /\ new[l].decl = rs[l].decl
                 /\ l.dev = k.dev /\ Held(rs, l) =>
                       Stored(new, l) /\ ~Held(new, l) /\ new[l].handle = NoHandle
                 /\ ~(l.dev = k.dev /\ Held(rs, l)) => new[l] = rs[l]
<1> DEFINE older == IF Advances(rs, k.dev, k.gen) THEN HeldOlder(rs, k.dev, k.gen) ELSE {}
           fs == Ended(rs, older, "fenced")
           es == Ended(fs, HeldSame(rs, k.dev, k.gen), "revoked")
           new == Revoked(rs, k)
<1>1. rs \in [Keys -> Row]
  BY DEF TableOK
<1>2. /\ fs \in [Keys -> Row]
      /\ \A l \in Keys :
            /\ l \notin older => fs[l] = rs[l]
            /\ l \in older => ~Held(fs, l) /\ Stored(fs, l) /\ fs[l].handle = NoHandle
            /\ fs[l].decl = rs[l].decl
  BY <1>1, EndedKeeps
<1> HIDE DEF fs
<1>3. /\ es \in [Keys -> Row]
      /\ \A l \in Keys :
            /\ l \notin HeldSame(rs, k.dev, k.gen) => es[l] = fs[l]
            /\ l \in HeldSame(rs, k.dev, k.gen) =>
                  ~Held(es, l) /\ Stored(es, l) /\ es[l].handle = NoHandle
            /\ es[l].decl = fs[l].decl
  BY <1>2, EndedKeeps
<1>4. new = [es EXCEPT ![k] =
               [status |-> "completed", decl |-> NoDecl, handle |-> NoHandle]]
  BY DEF Revoked, fs
<1> HIDE DEF es, new
<1>5. /\ new \in [Keys -> Row]
      /\ new[k] = [status |-> "completed", decl |-> NoDecl, handle |-> NoHandle]
      /\ \A l \in Keys : l # k => new[l] = es[l]
  BY <1>3, <1>4 DEF Row, Statuses
<1>6. \A l \in Keys : l \in older \cup HeldSame(rs, k.dev, k.gen)
                         => Held(rs, l) /\ l.dev = k.dev
  BY DEF HeldOlder, HeldSame
<1>7. \A l \in Keys : Held(rs, l) /\ l.dev = k.dev
                         => l \in older \cup HeldSame(rs, k.dev, k.gen)
  BY RevocationEndsAllHeld
<1>8. ASSUME NEW l \in Keys \ {k}
      PROVE  /\ new[l].decl = rs[l].decl
             /\ l.dev = k.dev /\ Held(rs, l) =>
                   Stored(new, l) /\ ~Held(new, l) /\ new[l].handle = NoHandle
             /\ ~(l.dev = k.dev /\ Held(rs, l)) => new[l] = rs[l]
  <2> HIDE DEF older
  <2>1. CASE l \in HeldSame(rs, k.dev, k.gen)
    BY <2>1, <1>2, <1>3, <1>5, <1>6 DEF Held, Stored
  <2>2. CASE l \notin HeldSame(rs, k.dev, k.gen) /\ l \in older
    BY <2>2, <1>2, <1>3, <1>5, <1>6 DEF Held, Stored
  <2>3. CASE l \notin HeldSame(rs, k.dev, k.gen) /\ l \notin older
    BY <2>3, <1>2, <1>3, <1>5, <1>7
  <2> QED
    BY <2>1, <2>2, <2>3
<1> QED
  BY <1>5, <1>8 DEF new

\* A revocation that is neither stale nor known leaves a correct table.
LEMMA RevokedKeepsTable ==
    ASSUME NEW rs, TableOK(rs), NEW k \in Keys, k.kind = "revoke",
           ~Stale(rs, k.dev, k.gen), ~Stored(rs, k)
    PROVE  TableOK(Revoked(rs, k))
<1> DEFINE new == Revoked(rs, k)
<1>1. /\ new \in [Keys -> Row]
      /\ new[k] = [status |-> "completed", decl |-> NoDecl, handle |-> NoHandle]
      /\ \A l \in Keys \ {k} :
            /\ new[l].decl = rs[l].decl
            /\ l.dev = k.dev /\ Held(rs, l) =>
                  Stored(new, l) /\ ~Held(new, l) /\ new[l].handle = NoHandle
            /\ ~(l.dev = k.dev /\ Held(rs, l)) => new[l] = rs[l]
  BY RevokedRows
<1> HIDE DEF new
<1>2. ASSUME NEW l \in Keys
      PROVE  /\ Held(new, l) <=> l.dev # k.dev /\ Held(rs, l)
             /\ Stored(new, l) <=> l = k \/ Stored(rs, l)
             /\ l # k => new[l].decl = rs[l].decl
             /\ Held(new, l) <=> new[l].handle # NoHandle
  BY <1>1 DEF Held, Stored, TableOK
<1>3. ~Grants(k)
  BY DEF Grants
<1>4. ASSUME NEW l \in Keys, NEW m \in Keys
      PROVE  /\ Held(new, l) /\ Held(new, m) /\ l.dev = m.dev => l = m
             /\ Held(new, l) /\ Stored(new, m) /\ l.dev = m.dev => ~Older(l.gen, m.gen)
             /\ Stored(new, l) /\ l.kind = "revoke" /\ Held(new, m) /\ m.dev = l.dev
                   => Older(l.gen, m.gen)
             /\ Held(new, l) /\ Stored(new, m) /\ Grants(m) /\ l.dev = m.dev /\ l.gen = m.gen
                   => PolicyKept(new[m].decl.policy, new[l].decl.policy)
  BY <1>2 DEF TableOK
<1>5. ASSUME NEW l \in Keys
      PROVE  /\ Stored(new, l) /\ Grants(l) => new[l].decl \in Declarations
             /\ Held(new, l) => Grants(l)
             /\ Held(new, l) <=> new[l].handle # NoHandle
  BY <1>2, <1>3 DEF TableOK
<1> QED
  BY <1>1, <1>4, <1>5 DEF TableOK, new

-----------------------------------------------------------------------------
\* An empty ledger is correct.
LEMMA InitLedgerInv == Init => LedgerInv
<1> SUFFICES ASSUME Init PROVE TableOK(rows)
  BY InvIsTableOK
<1>1. Absent \in Row
  BY DEF Absent, Row, Statuses
<1>2. rows \in [Keys -> Row] /\ \A k \in Keys : rows[k] = Absent
  BY <1>1 DEF Init
<1>3. \A k \in Keys : ~Stored(rows, k) /\ ~Held(rows, k) /\ rows[k].handle = NoHandle
  BY <1>2 DEF Absent, Stored, Held
<1> QED
  BY <1>2, <1>3 DEF TableOK

\* Each transaction of the ledger keeps the invariant.
LEMMA NextLedgerInv == LedgerInv /\ [Next]_rows => LedgerInv'
<1> SUFFICES ASSUME TableOK(rows), [Next]_rows
             PROVE  TableOK(rows')
  BY InvIsTableOK, InvIsTableOKNext
<1>1. CASE UNCHANGED rows
  BY <1>1
<1>2. ASSUME NEW due \in SUBSET ActiveRows(rows), ExpireCredentials(due)
      PROVE  TableOK(rows')
  BY <1>2, SweepKeepsTable DEF ExpireCredentials
<1>3. ASSUME NEW due \in SUBSET ActiveRows(rows),
             NEW k \in Keys, NEW decl \in Declarations, NEW h \in Handles,
             NEW seen \in Observations, CreateProvision(k, decl, h, seen, due)
      PROVE  TableOK(rows')
  <2> DEFINE rs == Expired(rows, due)
  <2>1. TableOK(rs)
    BY SweepKeepsTable
  <2>2. CASE Stored(rs, k) /\ rows' = rs
    BY <2>1, <2>2
  <2>3. CASE /\ ~Stored(rs, k) /\ Admissible(rs, k, decl, seen)
             /\ rows' = Granted(rs, k, decl, h)
    BY <1>3, <2>1, <2>3, GrantedKeepsTable DEF CreateProvision
  <2> QED
    BY <1>3, <2>2, <2>3 DEF CreateProvision
<1>4. ASSUME NEW due \in SUBSET ActiveRows(rows), NEW k \in Keys,
             CompleteRevocation(k, due)
      PROVE  TableOK(rows')
  <2> DEFINE rs == Expired(rows, due)
  <2>1. TableOK(rs)
    BY SweepKeepsTable
  <2> QED
    BY <1>4, <2>1, RevokedKeepsTable DEF CompleteRevocation
<1> QED
  BY <1>1, <1>2, <1>3, <1>4 DEF Next

\* Every reachable table satisfies the ledger's inductive invariant.
THEOREM LedgerCorrect == Spec => []LedgerInv
BY InitLedgerInv, NextLedgerInv, PTL DEF Spec

\* Rows are well typed: a credential row carries a declaration, and only
\* credential rows are ever held.
THEOREM LedgerTypeCorrect == Spec => []TypeOK
BY LedgerCorrect, PTL DEF LedgerInv

\* However provisions, refreshes, revocations, replays and expiries mix, no
\* device ever holds two handles (the store's index covers active rows only).
THEOREM LedgerOneHeld == Spec => []OneHeldPerDevice
BY LedgerCorrect, PTL DEF LedgerInv

\* No older credential outlives a newer generation, nor a revocation of its own.
THEOREM LedgerRevocationFinal == Spec => [](HeldIsLatest /\ RevocationIsFinal)
BY LedgerCorrect, PTL DEF LedgerInv

\* Within a generation the held credential has the newest output policy.
THEOREM LedgerPolicyNeverRegresses == Spec => []PolicyNeverRegresses
BY LedgerCorrect, PTL DEF LedgerInv

-----------------------------------------------------------------------------
\* The ledger implements ChannelGrant: a transaction is seen, through PhasesOf,
\* as one step of the abstract lifecycle.  The invariant is what makes the
\* mapping meaningful: a generation has at most one held row, so its phase is
\* that row's status.

\* The grants a sweep lapses.
Lapsing(due) == {<<k.dev, k.gen>> : k \in due}

\* What a phase says about the rows.
LEMMA PhaseMeans ==
    ASSUME NEW rs, TableOK(rs), NEW d \in Devices, NEW g \in Generations
    PROVE  /\ PhaseOf(rs, d, g) = "live" <=>
                 \E k \in Keys : k.dev = d /\ k.gen = g /\ rs[k].status = "active"
           /\ PhaseOf(rs, d, g) = "lapsed" <=>
                 \E k \in Keys : k.dev = d /\ k.gen = g /\ rs[k].status = "expired"
           /\ PhaseOf(rs, d, g) = "none" <=>
                 ~\E k \in Keys : k.dev = d /\ k.gen = g /\ Stored(rs, k)
           /\ PhaseOf(rs, d, g) \in {"none", "live", "lapsed", "over"}
<1>1. \A k \in Keys : k \in GenerationRows(rs, d, g)
                         <=> k.dev = d /\ k.gen = g /\ Stored(rs, k)
  BY DEF GenerationRows, StoredOf
<1>2. GenerationRows(rs, d, g) \subseteq Keys
  BY DEF GenerationRows, StoredOf
<1>3. ~\E k, l \in Keys : /\ k.dev = d /\ k.gen = g /\ rs[k].status = "active"
                          /\ l.dev = d /\ l.gen = g /\ rs[l].status = "expired"
  BY DEF TableOK, Held
<1>4. \A k \in Keys : rs[k].status \in {"active", "expired"} => Stored(rs, k)
  BY DEF Stored
<1> QED
  BY <1>1, <1>2, <1>3, <1>4 DEF PhaseOf

\* What a sweep does to the rows is, of the grants, a lapse of live ones.
LEMMA SweepIsLapse ==
    ASSUME TableOK(rows), NEW due \in SUBSET ActiveRows(rows)
    PROVE  /\ Lapsing(due) \in SUBSET Grant!Live
           /\ PhasesOf(Expired(rows, due)) = Grant!Swept(Lapsing(due))
<1> DEFINE rs == Expired(rows, due)
<1>1. TableOK(rs)
  BY SweepKeepsTable
<1>2. \A k \in Keys :
         /\ k \in due => rows[k].status = "active" /\ rs[k].status = "expired"
         /\ k \notin due => rs[k] = rows[k]
         /\ Stored(rs, k) <=> Stored(rows, k)
  <2>1. \A k \in Keys : rows[k] \in Row
    BY DEF TableOK
  <2> QED
    BY <2>1, SweepKeeps DEF Expired, ActiveRows, TableOK, Row
<1>3. due \subseteq Keys
  BY DEF ActiveRows
<1> HIDE DEF rs
<1>4. ASSUME NEW d \in Devices, NEW g \in Generations
      PROVE  PhaseOf(rs, d, g) =
                IF <<d, g>> \in Lapsing(due) THEN "lapsed" ELSE PhaseOf(rows, d, g)
  <2>1. CASE <<d, g>> \in Lapsing(due)
    <3>1. PICK k \in due : <<d, g>> = <<k.dev, k.gen>>
      BY <2>1 DEF Lapsing
    <3>2. k \in Keys /\ k.dev = d /\ k.gen = g /\ rs[k].status = "expired"
      BY <1>2, <1>3, <3>1
    <3> QED
      BY <1>1, <2>1, <3>2, PhaseMeans
  <2>2. CASE <<d, g>> \notin Lapsing(due)
    <3>1. \A k \in Keys : k.dev = d /\ k.gen = g => k \notin due
      BY <2>2 DEF Lapsing
    <3>2. \A k \in Keys : k.dev = d /\ k.gen = g => rs[k] = rows[k]
      BY <1>2, <3>1
    <3>3. /\ (PhaseOf(rs, d, g) = "live") <=> (PhaseOf(rows, d, g) = "live")
          /\ (PhaseOf(rs, d, g) = "lapsed") <=> (PhaseOf(rows, d, g) = "lapsed")
          /\ (PhaseOf(rs, d, g) = "none") <=> (PhaseOf(rows, d, g) = "none")
      BY <1>1, <1>2, <3>2, PhaseMeans
    <3> QED
      BY <1>1, <2>2, <3>3, PhaseMeans
  <2> QED
    BY <2>1, <2>2
<1>5. PhasesOf(rs) = Grant!Swept(Lapsing(due))
  BY <1>4 DEF PhasesOf, Grant!Swept
<1>6. Lapsing(due) \subseteq Grant!Live
  <2> SUFFICES ASSUME NEW k \in due
               PROVE  <<k.dev, k.gen>> \in Grant!Live
    BY DEF Lapsing
  <2>1. k \in Keys /\ k.dev \in Devices /\ k.gen \in Generations /\ rows[k].status = "active"
    BY <1>2, <1>3 DEF Keys
  <2>2. PhaseOf(rows, k.dev, k.gen) = "live"
    BY <2>1, PhaseMeans
  <2> QED
    BY <2>1, <2>2 DEF Grant!Live, PhasesOf
<1> QED
  BY <1>5, <1>6 DEF rs

\* Rows that keep their status keep the phase of their generation.
LEMMA PhaseUnchanged ==
    ASSUME NEW rs, TableOK(rs), NEW new, TableOK(new),
           NEW d \in Devices, NEW g \in Generations,
           \A l \in Keys : l.dev = d /\ l.gen = g => new[l] = rs[l]
    PROVE  PhaseOf(new, d, g) = PhaseOf(rs, d, g)
<1>1. /\ (PhaseOf(new, d, g) = "live") <=> (PhaseOf(rs, d, g) = "live")
      /\ (PhaseOf(new, d, g) = "lapsed") <=> (PhaseOf(rs, d, g) = "lapsed")
      /\ (PhaseOf(new, d, g) = "none") <=> (PhaseOf(rs, d, g) = "none")
  BY PhaseMeans DEF Stored
<1> QED
  BY <1>1, PhaseMeans

\* A transaction on row k that ends what k's device held, and leaves k with
\* status st, moves the device's phases as the abstract Reaches does.
LEMMA TransactionPhases ==
    ASSUME NEW rs, TableOK(rs), NEW new, TableOK(new), NEW k \in Keys,
           NEW p \in {"live", "over"},
           ~Stale(rs, k.dev, k.gen), Stored(new, k),
           p = "live" => new[k].status = "active",
           p = "over" => ~Held(new, k),
           \A l \in Keys \ {k} :
              /\ l.dev = k.dev /\ Held(rs, l) => Stored(new, l) /\ ~Held(new, l)
              /\ ~(l.dev = k.dev /\ Held(rs, l)) => new[l] = rs[l],
           NEW d \in Devices, NEW g \in Generations
    PROVE  PhaseOf(new, d, g) =
              IF d # k.dev THEN PhaseOf(rs, d, g)
              ELSE IF g = k.gen THEN p
              ELSE IF Older(g, k.gen) /\ PhaseOf(rs, d, g) \in {"live", "lapsed"} THEN "over"
              ELSE PhaseOf(rs, d, g)
<1>1. CASE d # k.dev
  BY <1>1, PhaseUnchanged
<1>2. CASE d = k.dev /\ g = k.gen
  <2>1. CASE p = "live"
    BY <1>2, <2>1, PhaseMeans
  <2>2. CASE p = "over"
    <3>1. \A l \in Keys : l.dev = d => ~Held(new, l)
      BY <1>2, <2>2 DEF Held
    <3>2. PhaseOf(new, d, g) \notin {"live", "lapsed", "none"}
      BY <1>2, <3>1, PhaseMeans DEF Held
    <3> QED
      BY <2>2, <1>2, <3>2, PhaseMeans
  <2> QED
    BY <2>1, <2>2
<1>3. CASE d = k.dev /\ g # k.gen
  <2>1. CASE PhaseOf(rs, d, g) \in {"live", "lapsed"}
    <3>1. PICK l \in Keys : l.dev = d /\ l.gen = g /\ Held(rs, l)
      BY <2>1, PhaseMeans DEF Held
    <3>2. Older(g, k.gen)
      <4>1. Stored(rs, l)
        BY <3>1 DEF Held, Stored
      <4>2. ~Older(k.gen, g)
        BY <1>3, <3>1, <4>1 DEF Stale, StoredOf
      <4> QED
        BY <1>3, <4>2, OlderTotal DEF Keys
    <3>3. \A m \in Keys : m.dev = d /\ m.gen = g => ~Held(new, m)
      BY <1>3 DEF Held
    <3>4. Stored(new, l)
      BY <1>3, <3>1
    <3>5. PhaseOf(new, d, g) \notin {"live", "lapsed", "none"}
      BY <3>1, <3>3, <3>4, PhaseMeans DEF Held
    <3> QED
      BY <1>3, <2>1, <3>2, <3>5, PhaseMeans
  <2>2. CASE PhaseOf(rs, d, g) \notin {"live", "lapsed"}
    <3>1. \A l \in Keys : l.dev = d /\ l.gen = g => ~Held(rs, l)
      BY <2>2, PhaseMeans DEF Held
    <3>2. \A l \in Keys : l.dev = d /\ l.gen = g => new[l] = rs[l]
      BY <1>3, <3>1
    <3> QED
      BY <1>3, <2>2, <3>2, PhaseUnchanged
  <2> QED
    BY <2>1, <2>2
<1> QED
  BY <1>1, <1>2, <1>3

\* The same, after the transaction's sweep and in the words of ChannelGrant.
LEMMA TransactionReaches ==
    ASSUME TableOK(rows), NEW due \in SUBSET ActiveRows(rows), NEW new, TableOK(new),
           NEW k \in Keys, NEW p \in {"live", "over"},
           ~Stale(Expired(rows, due), k.dev, k.gen), Stored(new, k),
           p = "live" => new[k].status = "active",
           p = "over" => ~Held(new, k),
           \A l \in Keys \ {k} :
              /\ l.dev = k.dev /\ Held(Expired(rows, due), l)
                    => Stored(new, l) /\ ~Held(new, l)
              /\ ~(l.dev = k.dev /\ Held(Expired(rows, due), l))
                    => new[l] = Expired(rows, due)[l]
    PROVE  PhasesOf(new) = Grant!Reaches(Lapsing(due), k.dev, k.gen, p)
<1> DEFINE rs == Expired(rows, due)
<1>1. TableOK(rs)
  BY SweepKeepsTable
<1>2. PhasesOf(rs) = Grant!Swept(Lapsing(due))
  BY SweepIsLapse
<1>3. \A d \in Devices, g \in Generations :
         PhaseOf(new, d, g) =
              IF d # k.dev THEN PhaseOf(rs, d, g)
              ELSE IF g = k.gen THEN p
              ELSE IF Older(g, k.gen) /\ PhaseOf(rs, d, g) \in {"live", "lapsed"} THEN "over"
              ELSE PhaseOf(rs, d, g)
  BY <1>1, TransactionPhases
<1>4. k.dev \in Devices /\ k.gen \in Generations
  BY DEF Keys
<1>5. \A d \in Devices, g \in Generations :
         PhaseOf(rs, d, g) \in {"live", "lapsed"} <=> Grant!Standing(d, g)
  <2> SUFFICES ASSUME NEW d \in Devices, NEW g \in Generations
               PROVE  PhaseOf(rs, d, g) \in {"live", "lapsed"}
                         <=> PhaseOf(rows, d, g) \in {"live", "lapsed"}
    BY DEF Grant!Standing, PhasesOf
  <2>1. \A l \in Keys : Held(rs, l) <=> Held(rows, l)
    BY SweepKeeps DEF TableOK
  <2> HIDE DEF rs
  <2> QED
    BY <1>1, <2>1, PhaseMeans DEF Held
<1> HIDE DEF rs
<1>6. \A d \in Devices, g \in Generations :
         PhaseOf(rs, d, g) = Grant!Swept(Lapsing(due))[d][g]
  BY <1>2 DEF PhasesOf
<1> DEFINE sw == Grant!Swept(Lapsing(due))
           of(d, h) == IF h = k.gen THEN p
                       ELSE IF Older(h, k.gen) /\ Grant!Standing(d, h) THEN "over"
                       ELSE sw[d][h]
<1>7. Grant!Reaches(Lapsing(due), k.dev, k.gen, p) =
         [sw EXCEPT ![k.dev] = [h \in Generations |-> of(k.dev, h)]]
  BY DEF Grant!Reaches, Older, Grant!Older
<1>8. sw = [d \in Devices |-> [g \in Generations |-> PhaseOf(rs, d, g)]]
  BY <1>2 DEF PhasesOf
<1>9. \A h \in Generations : PhaseOf(new, k.dev, h) = of(k.dev, h)
  BY <1>3, <1>4, <1>5, <1>6
<1>10. \A d \in Devices : d # k.dev =>
          \A h \in Generations : PhaseOf(new, d, h) = PhaseOf(rs, d, h)
  BY <1>3
<1> HIDE DEF sw, of
<1>11. [sw EXCEPT ![k.dev] = [h \in Generations |-> of(k.dev, h)]]
         = [d \in Devices |-> IF d = k.dev THEN [h \in Generations |-> of(k.dev, h)]
                              ELSE [h \in Generations |-> PhaseOf(rs, d, h)]]
  BY <1>4, <1>8
<1>12. \A d \in Devices :
          [h \in Generations |-> PhaseOf(new, d, h)]
            = IF d = k.dev THEN [h \in Generations |-> of(k.dev, h)]
              ELSE [h \in Generations |-> PhaseOf(rs, d, h)]
  BY <1>9, <1>10
<1> QED
  BY <1>7, <1>11, <1>12 DEF PhasesOf

-----------------------------------------------------------------------------
\* No generation newer than the request's was ever started.
LEMMA NotStaleMeansNothingNewer ==
    ASSUME TableOK(rows), NEW due \in SUBSET ActiveRows(rows), NEW k \in Keys,
           ~Stale(Expired(rows, due), k.dev, k.gen)
    PROVE  Grant!NothingNewer(k.dev, k.gen)
<1>1. k.dev \in Devices /\ k.gen \in Generations
  BY DEF Keys
<1>2. \A l \in Keys : Stored(rows, l) /\ l.dev = k.dev => ~Older(k.gen, l.gen)
  BY SweepKeeps DEF TableOK, Stale, StoredOf
<1>3. \A h \in Generations : Older(k.gen, h) => PhaseOf(rows, k.dev, h) = "none"
  BY <1>1, <1>2, PhaseMeans
<1> QED
  BY <1>1, <1>3 DEF Grant!NothingNewer, PhasesOf, Older, Grant!Older

\* A provision that is admitted starts the grant of its generation, or renews it.
LEMMA ProvisionStarts ==
    ASSUME TableOK(rows), NEW due \in SUBSET ActiveRows(rows),
           NEW k \in Keys, NEW decl \in Declarations, NEW h \in Handles,
           NEW seen \in Observations,
           CreateProvision(k, decl, h, seen, due),
           ~Stored(Expired(rows, due), k)
    PROVE  \/ Grant!Start(Lapsing(due), k.dev, k.gen)
           \/ Grant!Renew(Lapsing(due), k.dev, k.gen)
<1> DEFINE rs == Expired(rows, due)
           new == Granted(rs, k, decl, h)
<1>1. /\ Grants(k) /\ ~Stale(rs, k.dev, k.gen) /\ ~Stored(rs, k)
      /\ Admissible(rs, k, decl, seen) /\ rows' = new
  BY DEF CreateProvision
<1>2. TableOK(rs) /\ TableOK(new)
  BY <1>1, SweepKeepsTable, GrantedKeepsTable
<1>3. PhasesOf(rows)' = PhasesOf(new)
  BY <1>1 DEF PhasesOf, PhaseOf, GenerationRows, StoredOf, Stored
<1>4. Grant!NothingNewer(k.dev, k.gen)
  BY <1>1, NotStaleMeansNothingNewer
<1>5. \A l \in Keys :
         /\ Stored(rs, l) <=> Stored(rows, l)
         /\ Held(rs, l) <=> Held(rows, l)
  BY SweepKeeps DEF TableOK
<1>6. /\ new[k].status = "active"
      /\ \A l \in Keys \ {k} :
            /\ l.dev = k.dev /\ Held(rs, l) => Stored(new, l) /\ ~Held(new, l)
            /\ ~(l.dev = k.dev /\ Held(rs, l)) => new[l] = rs[l]
  <2> HIDE DEF rs, new
  <2>0. TableOK(rs) => LET nw == Granted(rs, k, decl, h) IN
           /\ nw \in [Keys -> Row]
           /\ nw[k] = [status |-> "active", decl |-> decl, handle |-> h]
           /\ \A l \in Keys \ {k} :
                 /\ nw[l].decl = rs[l].decl
                 /\ l.dev = k.dev /\ Held(rs, l) =>
                       Stored(nw, l) /\ ~Held(nw, l) /\ nw[l].handle = NoHandle
                 /\ ~(l.dev = k.dev /\ Held(rs, l)) => nw[l] = rs[l]
    BY <1>1, GrantedRows
  <2>1. new[k] = [status |-> "active", decl |-> decl, handle |-> h]
    BY <1>2, <2>0 DEF new
  <2>2. \A l \in Keys \ {k} :
           /\ new[l].decl = rs[l].decl
           /\ l.dev = k.dev /\ Held(rs, l) =>
                 Stored(new, l) /\ ~Held(new, l) /\ new[l].handle = NoHandle
           /\ ~(l.dev = k.dev /\ Held(rs, l)) => new[l] = rs[l]
    BY <1>2, <2>0 DEF new
  <2> QED
    BY <2>1, <2>2
<1> HIDE DEF new
<1>7. PhasesOf(new) = Grant!Reaches(Lapsing(due), k.dev, k.gen, "live")
  BY <1>1, <1>2, <1>6, TransactionReaches DEF Stored
<1> HIDE DEF rs
<1>8. k.dev \in Devices /\ k.gen \in Generations /\ k.kind \in {"provision", "refresh"}
  BY <1>1 DEF Keys, Kinds, Grants
<1>9. CASE k.kind = "provision"
  <2>1. GenerationRows(rs, k.dev, k.gen) = {}
    BY <1>1, <1>9 DEF Admissible
  <2>2. ~\E l \in Keys : l.dev = k.dev /\ l.gen = k.gen /\ Stored(rows, l)
    <3> SUFFICES ASSUME NEW l \in Keys, l.dev = k.dev, l.gen = k.gen, Stored(rows, l)
                 PROVE  FALSE
      OBVIOUS
    <3>1. Stored(rs, l)
      BY <1>5
    <3>2. l \in GenerationRows(rs, k.dev, k.gen)
      BY <3>1 DEF GenerationRows, StoredOf
    <3> QED
      BY <2>1, <3>2
  <2>3. PhasesOf(rows)[k.dev][k.gen] = "none"
    BY <1>8, <2>2, PhaseMeans DEF PhasesOf
  <2> QED
    BY <1>7, <1>4, <1>3, <2>3 DEF Grant!Start
<1>10. CASE k.kind = "refresh"
  <2>1. PICK q \in GenerationRows(rs, k.dev, k.gen) : Renewable(rs, q, decl, seen)
    BY <1>1, <1>10 DEF Admissible
  <2>2. q \in Keys /\ q.dev = k.dev /\ q.gen = k.gen /\ Held(rs, q)
    BY <2>1 DEF GenerationRows, StoredOf, Renewable, Held
  <2>3. PhaseOf(rows, k.dev, k.gen) \in {"live", "lapsed"}
    <3>1. Held(rows, q)
      BY <1>5, <2>2
    <3> QED
      BY <1>8, <2>2, <3>1, PhaseMeans DEF Held
  <2>4. Grant!Standing(k.dev, k.gen)
    BY <1>8, <2>3 DEF Grant!Standing, PhasesOf
  <2> QED
    BY <1>7, <1>4, <1>3, <2>4 DEF Grant!Renew
<1> QED
  BY <1>8, <1>9, <1>10

\* A revocation that is admitted revokes the grant of its generation.
LEMMA RevocationRevokes ==
    ASSUME TableOK(rows), NEW due \in SUBSET ActiveRows(rows), NEW k \in Keys,
           CompleteRevocation(k, due), ~Stored(Expired(rows, due), k)
    PROVE  Grant!Revoke(Lapsing(due), k.dev, k.gen)
<1> DEFINE rs == Expired(rows, due)
           new == Revoked(rs, k)
<1>1. k.kind = "revoke" /\ ~Stale(rs, k.dev, k.gen) /\ ~Stored(rs, k) /\ rows' = new
  BY DEF CompleteRevocation
<1>2. TableOK(rs) /\ TableOK(new)
  BY <1>1, SweepKeepsTable, RevokedKeepsTable
<1>3. /\ new[k].status = "completed"
      /\ \A l \in Keys \ {k} :
            /\ l.dev = k.dev /\ Held(rs, l) => Stored(new, l) /\ ~Held(new, l)
            /\ ~(l.dev = k.dev /\ Held(rs, l)) => new[l] = rs[l]
  BY <1>1, <1>2, RevokedRows
<1> HIDE DEF new
<1>4. PhasesOf(new) = Grant!Reaches(Lapsing(due), k.dev, k.gen, "over")
  BY <1>1, <1>2, <1>3, TransactionReaches DEF Stored, Held
<1>5. Grant!NothingNewer(k.dev, k.gen)
  BY <1>1, NotStaleMeansNothingNewer
<1>6. PhasesOf(rows)' = PhasesOf(new)
  BY <1>1 DEF PhasesOf, PhaseOf, GenerationRows, StoredOf, Stored
<1> QED
  BY <1>4, <1>5, <1>6 DEF Grant!Revoke

\* A step that only sweeps lets grants lapse.
LEMMA SweepLapses ==
    ASSUME TableOK(rows), NEW due \in SUBSET ActiveRows(rows),
           rows' = Expired(rows, due)
    PROVE  Grant!Lapse(Lapsing(due))
<1> DEFINE new == Expired(rows, due)
<1>1. PhasesOf(new) = Grant!Swept(Lapsing(due))
  BY SweepIsLapse
<1> HIDE DEF new
<1>2. PhasesOf(rows)' = PhasesOf(new)
  BY DEF new, PhasesOf, PhaseOf, GenerationRows, StoredOf, Stored
<1> QED
  BY <1>1, <1>2 DEF Grant!Lapse

\* An empty ledger has no grant.
LEMMA InitGrant == Init => Grant!GrantInit
<1> SUFFICES ASSUME Init PROVE PhasesOf(rows) = [d \in Devices |-> [g \in Generations |-> "none"]]
  BY DEF Grant!GrantInit
<1>1. \A k \in Keys : ~Stored(rows, k)
  BY DEF Init, Absent, Stored
<1>2. TableOK(rows)
  BY InitLedgerInv, InvIsTableOK
<1>3. \A d \in Devices, g \in Generations : PhaseOf(rows, d, g) = "none"
  BY <1>1, <1>2, PhaseMeans
<1> QED
  BY <1>3 DEF PhasesOf

\* Each transaction of the ledger is a step of the grants, or changes none.
LEMMA StepGrant ==
    LedgerInv /\ [Next]_rows => [Grant!GrantNext]_(PhasesOf(rows))
<1> SUFFICES ASSUME TableOK(rows), [Next]_rows
             PROVE  Grant!GrantNext \/ PhasesOf(rows)' = PhasesOf(rows)
  BY InvIsTableOK
<1>1. CASE UNCHANGED rows
  BY <1>1 DEF PhasesOf, PhaseOf, GenerationRows, StoredOf, Stored
<1>2. ASSUME NEW due \in SUBSET ActiveRows(rows), ExpireCredentials(due)
      PROVE  Grant!GrantNext
  BY <1>2, SweepLapses, SweepIsLapse DEF ExpireCredentials, Grant!GrantNext
<1>3. ASSUME NEW due \in SUBSET ActiveRows(rows),
             NEW k \in Keys, NEW decl \in Declarations, NEW h \in Handles,
             NEW seen \in Observations, CreateProvision(k, decl, h, seen, due)
      PROVE  Grant!GrantNext
  <2>1. k.dev \in Devices /\ k.gen \in Generations
    BY DEF Keys
  <2>2. Lapsing(due) \in SUBSET Grant!Live
    BY SweepIsLapse
  <2>3. CASE Stored(Expired(rows, due), k)
    BY <1>3, <2>2, <2>3, SweepLapses DEF CreateProvision, Grant!GrantNext
  <2>4. CASE ~Stored(Expired(rows, due), k)
    BY <1>3, <2>1, <2>2, <2>4, ProvisionStarts DEF Grant!GrantNext
  <2> QED
    BY <2>3, <2>4
<1>4. ASSUME NEW due \in SUBSET ActiveRows(rows), NEW k \in Keys,
             CompleteRevocation(k, due)
      PROVE  Grant!GrantNext
  <2>1. k.dev \in Devices /\ k.gen \in Generations
    BY DEF Keys
  <2>2. Lapsing(due) \in SUBSET Grant!Live
    BY SweepIsLapse
  <2>3. CASE Stored(Expired(rows, due), k)
    BY <1>4, <2>2, <2>3, SweepLapses DEF CompleteRevocation, Grant!GrantNext
  <2>4. CASE ~Stored(Expired(rows, due), k)
    BY <1>4, <2>1, <2>2, <2>4, RevocationRevokes DEF Grant!GrantNext
  <2> QED
    BY <2>3, <2>4
<1> QED
  BY <1>1, <1>2, <1>3, <1>4 DEF Next

\* The store implements the abstract generation lifecycle: every transaction
\* starts, lapses, renews or ends generations the way ChannelGrant allows.
THEOREM LedgerImplementsGrant == Spec => ImplementsGrant
<1>1. Init => Grant!GrantInit
  BY InitGrant
<1>2. LedgerInv /\ [Next]_rows => [Grant!GrantNext]_(PhasesOf(rows))
  BY StepGrant
<1> QED
  BY <1>1, <1>2, LedgerCorrect, PTL DEF Spec, ImplementsGrant, Grant!GrantSpec

-----------------------------------------------------------------------------
\* The service

\* The types of what the service keeps beside its ledger.
ServiceTypeOK ==
    /\ up \in BOOLEAN /\ crashes \in 0 .. MaxCrashes
    /\ op \in Operation \cup {Idle} /\ asked \in Request \cup {Idle}
    /\ room \in [Devices -> BOOLEAN] /\ talk \in [Devices -> BOOLEAN]
    /\ watch \in [Devices -> Watch \cup {NoWatch}]
    /\ adrift \in [Devices -> {"none", "joining", "joined"}]
    /\ revoking \subseteq Keys

\* What the operation under the lock found in the ledger before it awaited the
\* adapter is what its transaction will find.
LockedOp ==
    /\ ~up => op = Idle
    /\ op # Idle =>
          /\ ~Stale(rows, op.key.dev, op.key.gen)
          /\ ~Stored(rows, op.key)
          /\ op.what = "open" => Grants(op.key) /\ op.decl \in Declarations
          /\ op.what = "close" => /\ op.key.kind = "revoke"
                                  /\ op.key \in revoking
                                  /\ ActiveOf(rows, op.key.dev, op.key.gen) # {}

\* So does what a session request found: nothing else is under way, and the
\* channel a conversation is to be opened on is still active.
LockedSession ==
    asked # Idle => /\ up /\ op = Idle
                    /\ asked.on => ActiveOf(rows, asked.dev, asked.gen) # {}

ProviderInv ==
    /\ LedgerInv
    /\ ServiceTypeOK
    /\ LockedOp
    /\ LockedSession
    /\ HeldChannelIsReachable

-----------------------------------------------------------------------------
\* An idle lock is not an operation, and an operation has its fields.
LEMMA OperationFields ==
    ASSUME ServiceTypeOK, op # Idle
    PROVE  /\ op \in Operation
           /\ op.what \in {"open", "close"} /\ op.key \in Keys
           /\ op.key.dev \in Devices /\ op.key.gen \in Generations
           /\ op.decl \in Declarations \cup {NoDecl}
BY DEF ServiceTypeOK, Operation, Keys

\* A sweep of nothing leaves the table alone: the transaction that ends an
\* operation finds its rows swept.
LEMMA EmptySweep ==
    ASSUME TableOK(rows)
    PROVE  {} \in SUBSET ActiveRows(rows) /\ Expired(rows, {}) = rows
BY DEF TableOK, Expired

\* What the adapter reports on the current row is something it may report.
LEMMA ObservedIsObservation ==
    ASSUME TableOK(rows), NEW k \in Keys, NEW seen \in ObservedBy(k)
    PROVE  seen \in Observations
<1>1. CASE seen = {}
  BY <1>1 DEF Observations
<1>2. CASE seen # {}
  <2>1. PICK h \in HeldOf(rows, k.dev) : seen = {[op |-> h.op, handle |-> rows[h].handle]}
    BY <1>2 DEF ObservedBy
  <2>2. h \in Keys /\ h.op \in OpIds /\ Held(rows, h)
    BY <2>1 DEF HeldOf, Keys
  <2>3. rows[h].handle \in Handles
    BY <2>2 DEF TableOK, Row
  <2> QED
    BY <2>1, <2>2, <2>3 DEF Observations
<1> QED
  BY <1>1, <1>2

-----------------------------------------------------------------------------
\* Each step of the service is a transaction of the ledger, or leaves it alone.

\* The commit of a grant is create_provision on a row that is still new.
LEMMA CommitIsTransaction ==
    ASSUME ProviderInv, NEW handle \in Handles, ProvisionCommit(handle)
    PROVE  \E seen \in Observations : CreateProvision(op.key, op.decl, handle, seen, {})
<1>1. TableOK(rows)
  BY InvIsTableOK DEF ProviderInv
<1>2. op # Idle /\ op.what = "open"
  BY DEF ProvisionCommit, Holding
<1>3. op.key \in Keys
  BY <1>2, OperationFields DEF ProviderInv
<1>4. PICK seen \in ObservedBy(op.key) : Admissible(rows, op.key, op.decl, seen)
  BY DEF ProvisionCommit
<1>5. seen \in Observations
  BY <1>1, <1>3, <1>4, ObservedIsObservation
<1>6. Expired(rows, {}) = rows
  BY <1>1, EmptySweep
<1>7. /\ Grants(op.key) /\ ~Stale(rows, op.key.dev, op.key.gen) /\ ~Stored(rows, op.key)
      /\ rows' = Granted(rows, op.key, op.decl, handle)
  BY <1>2 DEF ProviderInv, LockedOp, ProvisionCommit
<1> QED
  BY <1>4, <1>5, <1>6, <1>7 DEF CreateProvision

\* The commit of a revocation is complete_revocation on a row that is still new.
LEMMA RevokeIsTransaction ==
    ASSUME ProviderInv, RevokeCommit
    PROVE  op.key \in Keys /\ CompleteRevocation(op.key, {})
<1>1. TableOK(rows)
  BY InvIsTableOK DEF ProviderInv
<1>2. op # Idle /\ op.what = "close" /\ rows' = Revoked(rows, op.key)
  BY DEF RevokeCommit, Holding
<1>3. op.key \in Keys
  BY <1>2, OperationFields DEF ProviderInv
<1>4. Expired(rows, {}) = rows
  BY <1>1, EmptySweep
<1> QED
  BY <1>2, <1>3, <1>4 DEF ProviderInv, LockedOp, CompleteRevocation

\* The actions that only sweep.
Sweeps(due) ==
    \/ SomeProvision(due)
    \/ \E k \in Keys : RevokeStart(k, due) \/ RevokeReplay(k, due)
    \/ SomeSession(due)
    \/ Read(due)
    \/ Restart(due)

\* Those actions change the table as a sweep does.
LEMMA SweepsSweep ==
    ASSUME NEW due \in SUBSET ActiveRows(rows), Sweeps(due)
    PROVE  rows' = Expired(rows, due)
BY DEF Sweeps, SomeProvision, ProvisionStart, ProvisionReplay, RevokeStart,
       RevokeReplay, SomeSession, DeviceAsks, DeviceStops, HubOpens, HubCloses,
       Opens, Closes, Read, ExpireCredentials, Restart

\* The actions that do not touch the ledger.
Aside ==
    \/ ProvisionRefused
    \/ ProvisionFailed
    \/ RevokeFailed
    \/ SessionDone
    \/ SessionFailed
    \/ \E d \in Devices : Joins(d) \/ Settles(d) \/ JoinFails(d) \/ LosesConnection(d)
    \/ \E d \in Devices, how \in {"joined", "none"} : AdriftEnds(d, how)
    \/ Crash

\* And those do not change it at all.
LEMMA AsideKeeps == Aside => UNCHANGED rows
BY DEF Aside, ProvisionRefused, ProvisionFailed, RevokeFailed, SessionDone,
       SessionFailed, Joins, Settles, JoinFails, LosesConnection, AdriftEnds, Crash

\* A step sweeps, ends an operation with its transaction, or leaves the ledger alone.
LEMMA StepKinds ==
    ASSUME [ProviderNext]_providerVars
    PROVE  \/ \E due \in SUBSET ActiveRows(rows) : Sweeps(due)
           \/ \E due \in SUBSET ActiveRows(rows), k \in Keys : RevokeUnopened(k, due)
           \/ \E handle \in Handles : ProvisionCommit(handle)
           \/ RevokeCommit
           \/ Aside
           \/ UNCHANGED providerVars
BY Zenon DEF ProviderNext, Sweeps, SomeRevoke, Aside

\* Every step of the service is a step of the ledger, or leaves it alone.
LEMMA StepUsesLedger ==
    ProviderInv /\ [ProviderNext]_providerVars => [Next]_rows
<1> SUFFICES ASSUME ProviderInv, [ProviderNext]_providerVars
             PROVE  [Next]_rows
  OBVIOUS
<1>1. TableOK(rows)
  BY InvIsTableOK DEF ProviderInv
<1>2. {} \in SUBSET ActiveRows(rows)
  OBVIOUS
<1>3. ASSUME NEW due \in SUBSET ActiveRows(rows), Sweeps(due)
      PROVE  Next
  BY <1>3, SweepsSweep DEF Next, ExpireCredentials
<1>4. ASSUME NEW due \in SUBSET ActiveRows(rows), NEW k \in Keys, RevokeUnopened(k, due)
      PROVE  Next
  <2>1. CompleteRevocation(k, due)
    BY <1>4 DEF RevokeUnopened, CompleteRevocation
  <2> QED
    BY <2>1 DEF Next
<1>5. ASSUME NEW handle \in Handles, ProvisionCommit(handle)
      PROVE  Next
  <2>1. PICK seen \in Observations : CreateProvision(op.key, op.decl, handle, seen, {})
    BY <1>5, CommitIsTransaction
  <2>2. op.key \in Keys /\ op.decl \in Declarations
    BY <1>5, OperationFields DEF ProviderInv, LockedOp, ProvisionCommit, Holding
  <2> QED
    BY <1>2, <2>1, <2>2 DEF Next
<1>6. CASE RevokeCommit
  BY <1>2, <1>6, RevokeIsTransaction DEF Next
<1>7. CASE Aside
  BY <1>7, AsideKeeps
<1>8. CASE UNCHANGED providerVars
  BY <1>8 DEF providerVars
<1> QED
  BY <1>3, <1>4, <1>5, <1>6, <1>7, <1>8, StepKinds

-----------------------------------------------------------------------------
\* The helpers of the adapter, device by device.

\* accept_requests leaves the device with a listener, and touches no other.
LEMMA AcceptedListens ==
    ASSUME ServiceTypeOK, NEW d \in Devices, NEW g \in Generations, NEW rev \in Nat
    PROVE  /\ Accepted(d, g, rev) \in [Devices -> Watch \cup {NoWatch}]
           /\ Accepted(d, g, rev)[d] # NoWatch
           /\ \A e \in Devices : e # d => Accepted(d, g, rev)[e] = watch[e]
<1>1. watch \in [Devices -> Watch \cup {NoWatch}] /\ NoWatch \notin Watch
  BY ProviderAssumption DEF ServiceTypeOK
<1>2. [gen |-> g, rev |-> rev, conn |-> "joining"] \in Watch
  BY DEF Watch, Connection
<1>3. watch[d] # NoWatch => [gen |-> g, rev |-> rev, conn |-> watch[d].conn] \in Watch
  BY <1>1 DEF Watch
<1>4. CASE watch[d] = NoWatch
  BY <1>1, <1>2, <1>4 DEF Accepted
<1>5. CASE watch[d] # NoWatch /\ rev >= watch[d].rev
  BY <1>1, <1>3, <1>5 DEF Accepted
<1>6. CASE watch[d] # NoWatch /\ ~(rev >= watch[d].rev)
  BY <1>1, <1>6 DEF Accepted
<1> QED
  BY <1>4, <1>5, <1>6

\* The state of its connection is all that changes of a listener.
LEMMA Reconnected ==
    ASSUME ServiceTypeOK, NEW d \in Devices, watch[d] # NoWatch, NEW conn \in Connection,
           watch' = [watch EXCEPT ![d].conn = conn]
    PROVE  /\ watch' \in [Devices -> Watch \cup {NoWatch}]
           /\ \A e \in Devices : watch[e] # NoWatch => watch'[e] # NoWatch
<1>1. watch \in [Devices -> Watch \cup {NoWatch}] /\ NoWatch \notin Watch
  BY ProviderAssumption DEF ServiceTypeOK
<1>2. [watch[d] EXCEPT !.conn = conn] \in Watch
  <2>1. watch[d] \in Watch
    BY <1>1
  <2> QED
    BY <2>1 DEF Watch
<1>3. watch' = [watch EXCEPT ![d] = [watch[d] EXCEPT !.conn = conn]]
  OBVIOUS
<1> QED
  BY <1>1, <1>2, <1>3

\* What becomes of the listener's connection is that state's business alone.
ConnectionStep(d) == Joins(d) \/ Settles(d) \/ JoinFails(d) \/ LosesConnection(d)

LEMMA ConnectionSteps ==
    ASSUME ServiceTypeOK, NEW d \in Devices, ConnectionStep(d)
    PROVE  /\ watch' \in [Devices -> Watch \cup {NoWatch}]
           /\ \A e \in Devices : watch[e] # NoWatch => watch'[e] # NoWatch
           /\ UNCHANGED <<rows, up, crashes, op, asked, room, adrift, talk, revoking>>
<1>1. UNCHANGED <<rows, up, crashes, op, asked, room, adrift, talk, revoking>>
  BY DEF ConnectionStep, Joins, Settles, JoinFails, LosesConnection
<1>2. watch[d] # NoWatch /\ watch[d] \in Watch
  BY DEF ConnectionStep, Joins, Settles, JoinFails, LosesConnection, Hears, ServiceTypeOK
<1>3. watch \in [Devices -> Watch \cup {NoWatch}]
  BY DEF ServiceTypeOK
<1>4. \E conn \in Connection : watch' = [watch EXCEPT ![d].conn = conn]
  <2>1. CASE Joins(d)
    BY <2>1 DEF Joins, Connection
  <2>2. CASE Settles(d)
    BY <1>2, <1>3, <2>2 DEF Settles, Connection
  <2>3. CASE JoinFails(d)
    BY <2>3 DEF JoinFails, Connection
  <2>4. CASE LosesConnection(d)
    <3>1. Lost(watch[d].conn) \in Connection
      BY <1>2 DEF Watch, Connection, Lost
    <3>2. watch' = [watch EXCEPT ![d].conn = Lost(watch[d].conn)]
      BY <1>2, <1>3, <2>4 DEF LosesConnection
    <3> QED
      BY <3>1, <3>2
  <2> QED
    BY <2>1, <2>2, <2>3, <2>4 DEF ConnectionStep
<1>5. PICK conn \in Connection : watch' = [watch EXCEPT ![d].conn = conn]
  BY <1>4
<1> QED
  BY <1>1, <1>2, <1>5, Reconnected

\* Deleting a room drops its connections, and no listener.
LEMMA RoomGoneKeeps ==
    ASSUME ServiceTypeOK, NEW d \in Devices, RoomGone(d)
    PROVE  /\ room' \in [Devices -> BOOLEAN] /\ talk' \in [Devices -> BOOLEAN]
           /\ watch' \in [Devices -> Watch \cup {NoWatch}]
           /\ adrift' \in [Devices -> {"none", "joining", "joined"}]
           /\ \A e \in Devices : /\ e # d => room'[e] = room[e]
                                 /\ watch[e] # NoWatch => watch'[e] # NoWatch
                                 /\ talk'[e] => talk[e]
<1>1. /\ watch \in [Devices -> Watch \cup {NoWatch}] /\ NoWatch \notin Watch
      /\ room \in [Devices -> BOOLEAN] /\ talk \in [Devices -> BOOLEAN]
      /\ adrift \in [Devices -> {"none", "joining", "joined"}]
  BY ProviderAssumption DEF ServiceTypeOK
<1>2. /\ room' = [room EXCEPT ![d] = FALSE] /\ talk' = [talk EXCEPT ![d] = FALSE]
      /\ adrift' = [adrift EXCEPT ![d] = IF @ = "joined" THEN "none" ELSE @]
      /\ watch' = Dropped(watch, d)
  BY DEF RoomGone
<1>3. watch' \in [Devices -> Watch \cup {NoWatch}]
      /\ \A e \in Devices : watch[e] # NoWatch => watch'[e] # NoWatch
  <2>1. CASE watch[d] = NoWatch
    BY <1>1, <1>2, <2>1 DEF Dropped
  <2>2. CASE watch[d] # NoWatch
    <3>1. watch[d] \in Watch
      BY <1>1, <2>2
    <3>2. Lost(watch[d].conn) \in Connection
      BY <3>1 DEF Watch, Connection, Lost
    <3>3. watch' = [watch EXCEPT ![d].conn = Lost(watch[d].conn)]
      BY <1>1, <1>2, <2>2 DEF Dropped
    <3> QED
      BY <2>2, <3>2, <3>3, Reconnected
  <2> QED
    BY <2>1, <2>2
<1> QED
  BY <1>1, <1>2, <1>3

\* A restart listens to exactly the devices that hold a channel.
LEMMA ResumedListens ==
    ASSUME NEW rs, TableOK(rs)
    PROVE  /\ Resumed(rs) \in [Devices -> Watch \cup {NoWatch}]
           /\ \A k \in Keys : Held(rs, k) => Resumed(rs)[k.dev] # NoWatch
<1>1. ASSUME NEW k \in Keys, Held(rs, k)
      PROVE  Rejoining(rs, k) \in Watch
  <2>1. k.gen \in Generations /\ rs[k].decl \in Declarations
    BY <1>1 DEF TableOK, Keys, Held, Stored
  <2>2. rs[k].decl.policy.revision \in Nat
    BY <2>1, LedgerAssumption DEF Declarations
  <2> QED
    BY <2>1, <2>2 DEF Rejoining, Watch, Connection
<1>2. ASSUME NEW d \in Devices, HeldOf(rs, d) # {}
      PROVE  Rejoining(rs, CHOOSE k \in HeldOf(rs, d) : TRUE) \in Watch
  <2>1. (CHOOSE k \in HeldOf(rs, d) : TRUE) \in HeldOf(rs, d)
    BY <1>2
  <2> QED
    BY <1>1, <2>1 DEF HeldOf
<1>3. ASSUME NEW d \in Devices
      PROVE  /\ Resumed(rs)[d] \in Watch \cup {NoWatch}
             /\ HeldOf(rs, d) # {} => Resumed(rs)[d] # NoWatch
  BY <1>2, ProviderAssumption DEF Resumed
<1>4. \A k \in Keys : Held(rs, k) => k.dev \in Devices /\ HeldOf(rs, k.dev) # {}
  BY DEF HeldOf, Keys
<1>5. Resumed(rs) \in [Devices -> Watch \cup {NoWatch}]
  BY <1>3 DEF Resumed
<1> QED
  BY <1>3, <1>4, <1>5

\* A session request is checked, and its table swept, when it takes the lock.
LEMMA SessionBegins ==
    ASSUME ServiceTypeOK, NEW due, SomeSession(due)
    PROVE  /\ Ready /\ rows' = Expired(rows, due)
           /\ asked' \in Request
           /\ asked'.on => ActiveOf(rows', asked'.dev, asked'.gen) # {}
           /\ UNCHANGED <<up, crashes, op, room, watch, adrift, talk, revoking>>
<1>1. ASSUME NEW d \in Devices, NEW g \in Generations, Opens(d, g, due) \/ Closes(d, g, due)
      PROVE  /\ Ready /\ rows' = Expired(rows, due)
             /\ asked' \in Request
             /\ asked'.on => ActiveOf(rows', asked'.dev, asked'.gen) # {}
             /\ UNCHANGED <<up, crashes, op, room, watch, adrift, talk, revoking>>
  <2>1. CASE Opens(d, g, due)
    <3>1. asked' = [dev |-> d, gen |-> g, on |-> TRUE]
      BY <2>1 DEF Opens
    <3>2. asked' \in Request /\ asked'.dev = d /\ asked'.gen = g
      BY <3>1 DEF Request
    <3>3. ActiveOf(rows', d, g) # {}
      BY <2>1 DEF Opens
    <3> QED
      BY <2>1, <3>2, <3>3 DEF Opens
  <2>2. CASE Closes(d, g, due)
    <3>1. asked' = [dev |-> d, gen |-> g, on |-> FALSE]
      BY <2>2 DEF Closes
    <3>2. asked' \in Request /\ ~asked'.on
      BY <3>1 DEF Request
    <3> QED
      BY <2>2, <3>2 DEF Closes
  <2> QED
    BY <1>1, <2>1, <2>2
<1>2. PICK d \in Devices, g \in Generations : Opens(d, g, due) \/ Closes(d, g, due)
  <2>1. \A d \in Devices : Hears(d) => watch[d].gen \in Generations
    BY DEF Hears, ServiceTypeOK, Watch
  <2> QED
    BY <2>1 DEF SomeSession, DeviceAsks, DeviceStops, HubOpens, HubCloses
<1> QED
  BY <1>1, <1>2

-----------------------------------------------------------------------------
\* The types are kept.
LEMMA StepServiceType ==
    ASSUME ProviderInv, [ProviderNext]_providerVars
    PROVE  ServiceTypeOK'
<1> USE DEF ServiceTypeOK
<1>0. TableOK(rows) /\ ServiceTypeOK
  BY InvIsTableOK DEF ProviderInv
<1>1. ASSUME NEW due \in SUBSET ActiveRows(rows), NEW k \in Keys, NEW decl \in Declarations,
             ProvisionStart(k, decl, due)
      PROVE  ServiceTypeOK'
  BY <1>0, <1>1 DEF ProvisionStart, Operation
<1>2. ASSUME NEW due \in SUBSET ActiveRows(rows), NEW k \in Keys, NEW decl \in Declarations,
             ProvisionReplay(k, decl, due)
      PROVE  ServiceTypeOK'
  <2>1. CASE UNCHANGED watch
    BY <1>0, <1>2, <2>1 DEF ProvisionReplay
  <2>2. CASE watch # watch'
    <3> DEFINE rs == Expired(rows, due)
    <3>1. PICK a \in ActiveOf(rs, k.dev, k.gen) :
             watch' = Accepted(a.dev, a.gen, rs[a].decl.policy.revision)
      BY <1>2, <2>2 DEF ProvisionReplay
    <3>2. TableOK(rs)
      BY <1>0, SweepKeepsTable
    <3>3. a \in Keys /\ a.dev \in Devices /\ a.gen \in Generations /\ Held(rs, a)
      BY <3>1 DEF ActiveOf, Keys, Held
    <3>4. rs[a].decl.policy.revision \in Nat
      BY <3>2, <3>3, LedgerAssumption DEF TableOK, Held, Stored, Declarations
    <3>5. watch' \in [Devices -> Watch \cup {NoWatch}]
      BY <1>0, <3>1, <3>3, <3>4, AcceptedListens
    <3> QED
      BY <1>0, <1>2, <3>5 DEF ProvisionReplay
  <2> QED
    BY <2>1, <2>2
<1>3. ASSUME NEW handle \in Handles, ProvisionCommit(handle)
      PROVE  ServiceTypeOK'
  <2>1. op.key.dev \in Devices /\ op.key.gen \in Generations /\ op.decl \in Declarations
    BY <1>0, <1>3, OperationFields DEF ProvisionCommit, Holding, ProviderInv, LockedOp
  <2>2. op.decl.policy.revision \in Nat
    BY <2>1, LedgerAssumption DEF Declarations
  <2>3. watch' \in [Devices -> Watch \cup {NoWatch}]
    BY <1>0, <1>3, <2>1, <2>2, AcceptedListens DEF ProvisionCommit
  <2> QED
    BY <1>0, <1>3, <2>3 DEF ProvisionCommit
<1>4. CASE ProvisionRefused
  <2>1. op.key.dev \in Devices
    BY <1>0, <1>4, OperationFields DEF ProvisionRefused, Holding
  <2>2. CASE RoomGone(op.key.dev)
    BY <1>0, <1>4, <2>1, <2>2, RoomGoneKeeps DEF ProvisionRefused
  <2>3. CASE ~RoomGone(op.key.dev)
    BY <1>0, <1>4, <2>3 DEF ProvisionRefused
  <2> QED
    BY <2>2, <2>3
<1>5. CASE ProvisionFailed
  BY <1>0, <1>5 DEF ProvisionFailed
<1>6. ASSUME NEW due \in SUBSET ActiveRows(rows), NEW k \in Keys, RevokeStart(k, due)
      PROVE  ServiceTypeOK'
  <2>1. op' \in Operation /\ revoking' \subseteq Keys
    BY <1>0, <1>6 DEF RevokeStart, Operation
  <2>2. \A c \in DOMAIN Unstored : Unstored[c] \in {"none", "joining", "joined"}
    BY DEF Unstored
  <2>3. adrift' \in [Devices -> {"none", "joining", "joined"}]
    BY <1>0, <1>6, <2>2 DEF RevokeStart, StopAccepting
  <2>4. watch' \in [Devices -> Watch \cup {NoWatch}]
    BY <1>0, <1>6 DEF RevokeStart, StopAccepting
  <2> QED
    BY <1>0, <1>6, <2>1, <2>3, <2>4 DEF RevokeStart
<1>7. ASSUME NEW due \in SUBSET ActiveRows(rows), NEW k \in Keys,
             RevokeUnopened(k, due) \/ RevokeReplay(k, due)
      PROVE  ServiceTypeOK'
  BY <1>0, <1>7 DEF RevokeUnopened, RevokeReplay
<1>8. CASE RevokeCommit
  <2>1. op.key.dev \in Devices
    BY <1>0, <1>8, OperationFields DEF RevokeCommit, Holding
  <2> QED
    BY <1>0, <1>8, <2>1, RoomGoneKeeps DEF RevokeCommit
<1>9. CASE RevokeFailed
  <2>1. op.key.dev \in Devices
    BY <1>0, <1>9, OperationFields DEF RevokeFailed, Holding
  <2>2. CASE RoomGone(op.key.dev)
    BY <1>0, <1>9, <2>1, <2>2, RoomGoneKeeps DEF RevokeFailed
  <2>3. CASE ~RoomGone(op.key.dev)
    BY <1>0, <1>9, <2>3 DEF RevokeFailed
  <2> QED
    BY <2>2, <2>3
<1>10. ASSUME NEW due \in SUBSET ActiveRows(rows), SomeSession(due) \/ Read(due)
       PROVE  ServiceTypeOK'
  BY <1>0, <1>10, SessionBegins DEF Read, serviceVars
<1>11. ASSUME NEW due \in SUBSET ActiveRows(rows), Restart(due)
       PROVE  ServiceTypeOK'
  <2>1. TableOK(Expired(rows, due))
    BY <1>0, SweepKeepsTable
  <2>2. watch' \in [Devices -> Watch \cup {NoWatch}]
    BY <1>11, <2>1, ResumedListens DEF Restart
  <2> QED
    BY <1>0, <1>11, <2>2 DEF Restart
<1>12. ASSUME NEW d \in Devices, ConnectionStep(d)
       PROVE  ServiceTypeOK'
  BY <1>0, <1>12, ConnectionSteps
<1>13. ASSUME NEW d \in Devices, NEW how \in {"joined", "none"}, AdriftEnds(d, how)
       PROVE  ServiceTypeOK'
  BY <1>0, <1>13 DEF AdriftEnds
<1>14. CASE Crash
  <2>0. asked # Idle => asked.dev \in Devices /\ asked.on \in BOOLEAN
    BY <1>0 DEF Request
  <2>1. /\ up' \in BOOLEAN /\ op' \in Operation \cup {Idle} /\ asked' \in Request \cup {Idle}
        /\ watch' \in [Devices -> Watch \cup {NoWatch}]
        /\ adrift' \in [Devices -> {"none", "joining", "joined"}]
        /\ revoking' \subseteq Keys
    BY <1>0, <1>14 DEF Crash
  <2>2. crashes' \in 0 .. MaxCrashes
    BY <1>0, <1>14, ProviderAssumption DEF Crash
  <2>3. room' \in [Devices -> BOOLEAN] /\ talk' \in [Devices -> BOOLEAN]
    BY <1>0, <1>14, <2>0 DEF Crash, Served
  <2> QED
    BY <2>1, <2>2, <2>3
<1>15. CASE UNCHANGED providerVars
  BY <1>0, <1>15 DEF providerVars, serviceVars
<1>16. CASE SessionDone \/ SessionFailed
  <2>1. asked # Idle => asked.dev \in Devices /\ asked.on \in BOOLEAN
    BY <1>0 DEF Request
  <2> QED
    BY <1>0, <1>16, <2>1 DEF SessionDone, SessionFailed, Served
<1> QED
  BY <1>1, <1>2, <1>3, <1>4, <1>5, <1>6, <1>7, <1>8, <1>9, <1>10, <1>11, <1>12, <1>13,
     <1>14, <1>15, <1>16 DEF ProviderNext, SomeProvision, SomeRevoke, ConnectionStep

-----------------------------------------------------------------------------
\* What a locked operation has checked stays true until it ends.
LEMMA StepLockedOp ==
    ASSUME ProviderInv, [ProviderNext]_providerVars
    PROVE  LockedOp'
<1>0. ServiceTypeOK
  BY DEF ProviderInv
<1>1. ASSUME NEW due \in SUBSET ActiveRows(rows), NEW k \in Keys, NEW decl \in Declarations,
             ProvisionStart(k, decl, due)
      PROVE  LockedOp'
  BY <1>1 DEF ProvisionStart, LockedOp, Ready, Stale, Stored, StoredOf, ProviderInv
<1>2. ASSUME NEW due \in SUBSET ActiveRows(rows), NEW k \in Keys, RevokeStart(k, due)
      PROVE  LockedOp'
  BY <1>2 DEF RevokeStart, LockedOp, Ready, Stale, Stored, StoredOf, ActiveOf
<1>3. CASE op' = Idle
  BY <1>3 DEF LockedOp
<1>4. CASE UNCHANGED <<rows, op, up, revoking>>
  BY <1>4 DEF LockedOp, ProviderInv, Stale, Stored, StoredOf, ActiveOf
<1>5. ASSUME NEW due \in SUBSET ActiveRows(rows),
             \/ \E k \in Keys, decl \in Declarations : ProvisionReplay(k, decl, due)
             \/ \E k \in Keys : RevokeUnopened(k, due) \/ RevokeReplay(k, due)
             \/ SomeSession(due) \/ Read(due)
      PROVE  op' = Idle
  BY <1>0, <1>5, SessionBegins DEF ProvisionReplay, RevokeUnopened, RevokeReplay, Read,
                                   serviceVars, Ready
<1>6. ASSUME NEW due \in SUBSET ActiveRows(rows), Restart(due)
      PROVE  op' = Idle
  BY <1>6 DEF Restart, ProviderInv, LockedOp
<1>7. ASSUME \/ \E handle \in Handles : ProvisionCommit(handle)
             \/ ProvisionRefused \/ ProvisionFailed \/ RevokeCommit \/ RevokeFailed \/ Crash
      PROVE  op' = Idle
  BY <1>7 DEF ProvisionCommit, ProvisionRefused, ProvisionFailed, RevokeCommit,
              RevokeFailed, Crash
<1>8. ASSUME \/ \E d \in Devices : ConnectionStep(d)
             \/ \E d \in Devices, how \in {"joined", "none"} : AdriftEnds(d, how)
             \/ SessionDone \/ SessionFailed
             \/ UNCHANGED providerVars
      PROVE  UNCHANGED <<rows, op, up, revoking>>
  BY <1>0, <1>8, ConnectionSteps
     DEF AdriftEnds, SessionDone, SessionFailed, providerVars, serviceVars
<1> QED
  BY <1>1, <1>2, <1>3, <1>4, <1>5, <1>6, <1>7, <1>8
     DEF ProviderNext, SomeProvision, SomeRevoke, ConnectionStep

\* What a session request has found stays true until the adapter is done.
LEMMA StepLockedSession ==
    ASSUME ProviderInv, [ProviderNext]_providerVars
    PROVE  LockedSession'
<1>0. ServiceTypeOK /\ LockedSession
  BY DEF ProviderInv
<1>1. CASE asked' = Idle
  BY <1>1 DEF LockedSession
<1>2. CASE UNCHANGED <<rows, up, op, asked>>
  BY <1>0, <1>2 DEF LockedSession, ActiveOf
<1>3. ASSUME NEW due \in SUBSET ActiveRows(rows), SomeSession(due)
      PROVE  LockedSession'
  BY <1>0, <1>3, SessionBegins DEF LockedSession, Ready, ActiveOf
<1>4. ASSUME NEW due \in SUBSET ActiveRows(rows),
             SomeProvision(due) \/ SomeRevoke(due) \/ Read(due) \/ Restart(due)
      PROVE  asked' = Idle
  BY <1>0, <1>4 DEF SomeProvision, ProvisionStart, ProvisionReplay, SomeRevoke, RevokeStart,
        RevokeUnopened, RevokeReplay, Read, Restart, serviceVars, Ready, LockedSession
<1>5. ASSUME \/ \E handle \in Handles : ProvisionCommit(handle)
             \/ ProvisionRefused \/ ProvisionFailed \/ RevokeCommit \/ RevokeFailed
      PROVE  asked' = Idle
  BY <1>0, <1>5 DEF ProvisionCommit, ProvisionRefused, ProvisionFailed, RevokeCommit,
        RevokeFailed, Holding, LockedSession
<1>6. ASSUME SessionDone \/ SessionFailed \/ Crash
      PROVE  asked' = Idle
  BY <1>6 DEF SessionDone, SessionFailed, Crash
<1>7. ASSUME \/ \E d \in Devices : ConnectionStep(d)
             \/ \E d \in Devices, how \in {"joined", "none"} : AdriftEnds(d, how)
             \/ UNCHANGED providerVars
      PROVE  UNCHANGED <<rows, up, op, asked>>
  BY <1>0, <1>7, ConnectionSteps DEF AdriftEnds, providerVars, serviceVars
<1> QED
  BY <1>1, <1>2, <1>3, <1>4, <1>5, <1>6, <1>7 DEF ProviderNext, ConnectionStep

-----------------------------------------------------------------------------
\* Held channels stay reachable.

\* A step that acts on device d keeps the channels of the others, and owes an
\* account of d's own alone.
LEMMA OnlyOneDevice ==
    ASSUME ProviderInv, NEW d \in Devices,
           \A k \in Keys : Held(rows', k) /\ k.dev # d => Held(rows, k),
           \A r \in revoking : r.dev # d => r \in revoking',
           \A e \in Devices \ {d} : room[e] => room'[e],
           up' => up /\ \A e \in Devices \ {d} : watch[e] # NoWatch => watch'[e] # NoWatch,
           \A k \in Keys : Held(rows', k) /\ k.dev = d /\ ~BeingRevoked(k)' =>
                              room'[d] /\ (up' => watch'[d] # NoWatch)
    PROVE  HeldChannelIsReachable'
<1> SUFFICES ASSUME NEW k \in Keys, Held(rows', k), ~BeingRevoked(k)'
             PROVE  room'[k.dev] /\ (up' => watch'[k.dev] # NoWatch)
  BY DEF HeldChannelIsReachable, Held
<1>1. CASE k.dev = d
  BY <1>1
<1>2. CASE k.dev # d
  <2>1. k.dev \in Devices /\ Held(rows, k)
    BY <1>2 DEF Keys
  <2>2. ~BeingRevoked(k)
    BY <1>2 DEF BeingRevoked
  <2> QED
    BY <1>2, <2>1, <2>2 DEF ProviderInv, HeldChannelIsReachable
<1> QED
  BY <1>1, <1>2

\* A step that takes nothing away keeps every channel reachable.
LEMMA NothingLost ==
    ASSUME HeldChannelIsReachable,
           \A k \in Keys : Held(rows', k) => Held(rows, k),
           revoking \subseteq revoking',
           \A d \in Devices : room[d] => room'[d],
           up' => up /\ \A d \in Devices : watch[d] # NoWatch => watch'[d] # NoWatch
    PROVE  HeldChannelIsReachable'
<1> SUFFICES ASSUME NEW k \in Keys, Held(rows', k), ~BeingRevoked(k)'
             PROVE  room'[k.dev] /\ (up' => watch'[k.dev] # NoWatch)
  BY DEF HeldChannelIsReachable, Held
<1>1. k.dev \in Devices /\ Held(rows, k) /\ ~BeingRevoked(k)
  BY DEF BeingRevoked, Keys
<1> QED
  BY <1>1 DEF HeldChannelIsReachable

\* While a channel is being closed, what its device holds is that very channel.
LEMMA ClosingIsRevoking ==
    ASSUME ProviderInv, op # Idle, op.what = "close",
           NEW k \in Keys, Held(rows, k), k.dev = op.key.dev
    PROVE  BeingRevoked(k)
<1>1. op.key \in revoking /\ ActiveOf(rows, op.key.dev, op.key.gen) # {}
  BY DEF ProviderInv, LockedOp
<1>2. PICK a \in Keys : a.dev = op.key.dev /\ a.gen = op.key.gen /\ Held(rows, a)
  BY <1>1 DEF ActiveOf, Held
<1>3. a = k
  BY <1>2 DEF ProviderInv, LedgerInv, OneHeldPerDevice
<1> QED
  BY <1>1, <1>2, <1>3 DEF BeingRevoked

\* Nothing but held rows is held after a sweep.
LEMMA SweepHolds ==
    ASSUME TableOK(rows), NEW due \in SUBSET ActiveRows(rows), rows' = Expired(rows, due)
    PROVE  \A k \in Keys : Held(rows', k) <=> Held(rows, k)
BY SweepKeeps DEF TableOK

\* A grant changes rows of its own device only.
LEMMA GrantedElsewhere ==
    ASSUME NEW rs, TableOK(rs), NEW k \in Keys, Grants(k),
           NEW decl \in Declarations, NEW handle \in Handles, NEW observed,
           ~Stale(rs, k.dev, k.gen), ~Stored(rs, k),
           Admissible(rs, k, decl, observed)
    PROVE  \A l \in Keys : l.dev # k.dev => Granted(rs, k, decl, handle)[l] = rs[l]
<1> DEFINE new == Granted(rs, k, decl, handle)
<1>1. /\ new \in [Keys -> Row]
      /\ new[k] = [status |-> "active", decl |-> decl, handle |-> handle]
      /\ \A l \in Keys \ {k} :
            /\ new[l].decl = rs[l].decl
            /\ l.dev = k.dev /\ Held(rs, l) =>
                  Stored(new, l) /\ ~Held(new, l) /\ new[l].handle = NoHandle
            /\ ~(l.dev = k.dev /\ Held(rs, l)) => new[l] = rs[l]
  BY GrantedRows
<1> HIDE DEF new
<1>2. \A l \in Keys : l.dev # k.dev => new[l] = rs[l]
  BY <1>1
<1> QED
  BY <1>2 DEF new

\* The case analysis: every step keeps held channels reachable.
LEMMA StepReachable ==
    ASSUME ProviderInv, [ProviderNext]_providerVars
    PROVE  HeldChannelIsReachable'
<1>0. TableOK(rows) /\ ServiceTypeOK /\ HeldChannelIsReachable
  BY InvIsTableOK DEF ProviderInv
<1>1. ASSUME NEW due \in SUBSET ActiveRows(rows), NEW k \in Keys, NEW decl \in Declarations,
             ProvisionStart(k, decl, due)
      PROVE  HeldChannelIsReachable'
  BY <1>0, <1>1, SweepHolds, NothingLost DEF ProvisionStart
<1>2. ASSUME NEW due \in SUBSET ActiveRows(rows), NEW k \in Keys, NEW decl \in Declarations,
             ProvisionReplay(k, decl, due)
      PROVE  HeldChannelIsReachable'
  <2>1. \A j \in Keys : Held(rows', j) => Held(rows, j)
    BY <1>0, <1>2, SweepHolds DEF ProvisionReplay
  <2>2. \A d \in Devices : watch[d] # NoWatch => watch'[d] # NoWatch
    <3>1. CASE UNCHANGED watch
      BY <3>1
    <3>2. CASE watch # watch'
      <4> DEFINE rs == Expired(rows, due)
      <4>1. PICK a \in ActiveOf(rs, k.dev, k.gen) :
               watch' = Accepted(a.dev, a.gen, rs[a].decl.policy.revision)
        BY <1>2, <3>2 DEF ProvisionReplay
      <4>2. TableOK(rs)
        BY <1>0, SweepKeepsTable
      <4>3. a \in Keys /\ a.dev \in Devices /\ a.gen \in Generations /\ Held(rs, a)
        BY <4>1 DEF ActiveOf, Keys, Held
      <4>4. rs[a].decl.policy.revision \in Nat
        BY <4>2, <4>3, LedgerAssumption DEF TableOK, Held, Stored, Declarations
      <4> QED
        BY <1>0, <4>1, <4>3, <4>4, AcceptedListens
    <3> QED
      BY <3>1, <3>2
  <2> QED
    BY <1>0, <1>2, <2>1, <2>2, NothingLost DEF ProvisionReplay
<1>3. ASSUME NEW handle \in Handles, ProvisionCommit(handle)
      PROVE  HeldChannelIsReachable'
  <2>1. /\ op.key \in Keys /\ op.key.dev \in Devices /\ op.key.gen \in Generations
        /\ op.decl \in Declarations
    BY <1>0, <1>3, OperationFields DEF ProvisionCommit, Holding, ProviderInv, LockedOp
  <2>2. op.decl.policy.revision \in Nat
    BY <2>1, LedgerAssumption DEF Declarations
  <2>3. /\ watch'[op.key.dev] # NoWatch
        /\ \A e \in Devices : e # op.key.dev => watch'[e] = watch[e]
    BY <1>0, <1>3, <2>1, <2>2, AcceptedListens DEF ProvisionCommit
  <2>4. room'[op.key.dev] /\ \A e \in Devices : e # op.key.dev => room'[e] = room[e]
    BY <1>0, <1>3, <2>1 DEF ProvisionCommit, ServiceTypeOK
  <2>5. PICK seen \in ObservedBy(op.key) : Admissible(rows, op.key, op.decl, seen)
    BY <1>3 DEF ProvisionCommit
  <2>6. Grants(op.key) /\ ~Stale(rows, op.key.dev, op.key.gen) /\ ~Stored(rows, op.key)
    BY <1>3 DEF ProvisionCommit, Holding, ProviderInv, LockedOp
  <2>7. \A l \in Keys : l.dev # op.key.dev => Granted(rows, op.key, op.decl, handle)[l] = rows[l]
    BY <1>0, <1>3, <2>1, <2>5, <2>6, GrantedElsewhere
  <2>8. \A l \in Keys : Held(rows', l) /\ l.dev # op.key.dev => Held(rows, l)
    BY <1>3, <2>7 DEF ProvisionCommit, Held
  <2> QED
    BY <1>3, <2>1, <2>3, <2>4, <2>8, OnlyOneDevice DEF ProvisionCommit
<1>4. CASE ProvisionRefused
  <2>1. op.key.dev \in Devices
    BY <1>0, <1>4, OperationFields DEF ProvisionRefused, Holding
  <2>2. CASE HeldOf(rows, op.key.dev) = {} /\ RoomGone(op.key.dev)
    <3>1. \A k \in Keys : k.dev = op.key.dev => ~Held(rows, k)
      BY <2>2 DEF HeldOf
    <3>2. UNCHANGED <<rows, up, revoking>>
      BY <1>4 DEF ProvisionRefused
    <3> QED
      BY <1>0, <2>1, <2>2, <3>1, <3>2, RoomGoneKeeps, OnlyOneDevice
  <2>3. CASE room' = [room EXCEPT ![op.key.dev] = TRUE] /\ UNCHANGED <<watch, adrift, talk>>
    BY <1>0, <1>4, <2>3, NothingLost DEF ProvisionRefused, ServiceTypeOK
  <2> QED
    BY <1>4, <2>2, <2>3 DEF ProvisionRefused
<1>5. CASE ProvisionFailed
  BY <1>0, <1>5, NothingLost DEF ProvisionFailed, ServiceTypeOK
<1>6. ASSUME NEW due \in SUBSET ActiveRows(rows), NEW k \in Keys, RevokeStart(k, due)
      PROVE  HeldChannelIsReachable'
  <2>1. k.dev \in Devices
    BY DEF Keys
  <2>2. \A l \in Keys : Held(rows', l) <=> Held(rows, l)
    BY <1>0, <1>6, SweepHolds DEF RevokeStart
  <2>3. \A e \in Devices : e # k.dev => watch'[e] = watch[e]
    BY <1>0, <1>6 DEF RevokeStart, StopAccepting, ServiceTypeOK
  <2>4. ASSUME NEW l \in Keys, Held(rows', l), l.dev = k.dev
        PROVE  BeingRevoked(l)'
    <3>1. PICK a \in Keys : a.dev = k.dev /\ a.gen = k.gen /\ Held(rows', a)
      BY <1>6 DEF RevokeStart, ActiveOf, Held
    <3>2. a = l
      BY <1>0, <2>2, <2>4, <3>1 DEF TableOK
    <3> QED
      BY <1>6, <3>1, <3>2 DEF BeingRevoked, RevokeStart
  <2> QED
    BY <1>6, <2>1, <2>2, <2>3, <2>4, OnlyOneDevice DEF RevokeStart
<1>7. ASSUME NEW due \in SUBSET ActiveRows(rows), NEW k \in Keys, RevokeUnopened(k, due)
      PROVE  HeldChannelIsReachable'
  <2> DEFINE rs == Expired(rows, due)
  <2>1. k.dev \in Devices /\ TableOK(rs)
    BY <1>0, SweepKeepsTable DEF Keys
  <2>2. rows' = Revoked(rs, k)
    BY <1>7 DEF RevokeUnopened
  <2>3. \A l \in Keys \ {k} :
           /\ l.dev = k.dev /\ Held(rs, l) => ~Held(rows', l)
           /\ ~(l.dev = k.dev /\ Held(rs, l)) => rows'[l] = rs[l]
    BY <1>7, <2>1, <2>2, RevokedRows DEF RevokeUnopened
  <2>4. ~Held(rows', k)
    BY <1>7, <2>1, <2>2, RevokedRows DEF RevokeUnopened, Held
  <2>5. \A l \in Keys : Held(rs, l) <=> Held(rows, l)
    BY <1>0, SweepKeeps DEF TableOK
  <2> HIDE DEF rs
  <2>6. \A l \in Keys : /\ l.dev = k.dev => ~Held(rows', l)
                        /\ Held(rows', l) => Held(rows, l)
    BY <2>3, <2>4, <2>5 DEF Held
  <2> QED
    BY <1>7, <2>1, <2>6, OnlyOneDevice DEF RevokeUnopened
<1>8. ASSUME NEW due \in SUBSET ActiveRows(rows), NEW k \in Keys, RevokeReplay(k, due)
      PROVE  HeldChannelIsReachable'
  <2>1. k.dev \in Devices /\ k.gen \in Generations
    BY DEF Keys
  <2>2. \A l \in Keys : Held(rows', l) <=> Held(rows, l)
    BY <1>0, <1>8, SweepHolds DEF RevokeReplay
  <2>3. Stored(rows, k) /\ k.kind = "revoke"
    BY <1>0, <1>8, SweepKeeps DEF RevokeReplay, TableOK
  <2>4. ASSUME NEW l \in Keys, Held(rows, l), l.dev = k.dev
        PROVE  l.gen # k.gen
    BY <1>0, <2>1, <2>3, <2>4, OlderAsymmetric DEF TableOK
  <2>5. ASSUME NEW l \in Keys, Held(rows', l), l.dev = k.dev, ~BeingRevoked(l)'
        PROVE  ~BeingRevoked(l)
    BY <1>8, <2>2, <2>4, <2>5 DEF BeingRevoked, RevokeReplay
  <2> QED
    BY <1>0, <1>8, <2>1, <2>2, <2>5, OnlyOneDevice DEF RevokeReplay, HeldChannelIsReachable
<1>9. CASE RevokeCommit
  <2>1. /\ op.key \in Keys /\ op.key.dev \in Devices
        /\ op.key.kind = "revoke"
        /\ ~Stale(rows, op.key.dev, op.key.gen) /\ ~Stored(rows, op.key)
    BY <1>0, <1>9, OperationFields DEF RevokeCommit, Holding, ProviderInv, LockedOp
  <2>2. rows' = Revoked(rows, op.key)
    BY <1>9 DEF RevokeCommit
  <2>3. \A l \in Keys \ {op.key} :
           /\ l.dev = op.key.dev /\ Held(rows, l) => ~Held(rows', l)
           /\ ~(l.dev = op.key.dev /\ Held(rows, l)) => rows'[l] = rows[l]
    BY <1>0, <2>1, <2>2, RevokedRows
  <2>4. ~Held(rows', op.key)
    BY <1>0, <2>1, <2>2, RevokedRows DEF Held
  <2>5. \A l \in Keys : /\ l.dev = op.key.dev => ~Held(rows', l)
                        /\ Held(rows', l) => Held(rows, l)
    BY <2>3, <2>4 DEF Held
  <2> QED
    BY <1>0, <1>9, <2>1, <2>5, RoomGoneKeeps, OnlyOneDevice DEF RevokeCommit
<1>10. CASE RevokeFailed
  <2>1. op # Idle /\ op.what = "close" /\ op.key.dev \in Devices
    BY <1>0, <1>10, OperationFields DEF RevokeFailed, Holding
  <2>2. UNCHANGED <<rows, up, revoking>>
    BY <1>10 DEF RevokeFailed
  <2>3. \A k \in Keys : Held(rows, k) /\ k.dev = op.key.dev => BeingRevoked(k)'
    BY <2>1, <2>2, ClosingIsRevoking DEF BeingRevoked
  <2>4. CASE RoomGone(op.key.dev)
    BY <1>0, <2>1, <2>2, <2>3, <2>4, RoomGoneKeeps, OnlyOneDevice
  <2>5. CASE UNCHANGED <<room, talk, adrift, watch>>
    BY <1>0, <2>2, <2>5, NothingLost
  <2> QED
    BY <1>10, <2>4, <2>5 DEF RevokeFailed
<1>11. ASSUME NEW due \in SUBSET ActiveRows(rows), SomeSession(due) \/ Read(due)
       PROVE  HeldChannelIsReachable'
  <2>1. rows' = Expired(rows, due) /\ UNCHANGED <<up, room, watch, revoking>>
    BY <1>0, <1>11, SessionBegins DEF Read, ExpireCredentials, serviceVars
  <2> QED
    BY <1>0, <2>1, SweepHolds, NothingLost
<1>12. ASSUME NEW due \in SUBSET ActiveRows(rows), Restart(due)
       PROVE  HeldChannelIsReachable'
  <2>1. TableOK(Expired(rows, due))
    BY <1>0, SweepKeepsTable
  <2>2. \A k \in Keys : Held(rows', k) => Held(rows, k) /\ watch'[k.dev] # NoWatch
    BY <1>0, <1>12, <2>1, SweepHolds, ResumedListens DEF Restart
  <2>3. \A k \in Keys : BeingRevoked(k)' <=> BeingRevoked(k)
    BY <1>12 DEF Restart, BeingRevoked
  <2> QED
    BY <1>0, <1>12, <2>2, <2>3 DEF Restart, HeldChannelIsReachable, Held
<1>13. ASSUME NEW d \in Devices, ConnectionStep(d)
       PROVE  HeldChannelIsReachable'
  BY <1>0, <1>13, ConnectionSteps, NothingLost
<1>14. ASSUME NEW d \in Devices, NEW how \in {"joined", "none"}, AdriftEnds(d, how)
       PROVE  HeldChannelIsReachable'
  BY <1>0, <1>14, NothingLost DEF AdriftEnds
<1>15. CASE Crash
  <2>1. UNCHANGED <<rows, revoking>> /\ ~up'
    BY <1>15 DEF Crash
  <2>2. CASE Holding("close")
    <3>1. op # Idle /\ op.what = "close" /\ op.key.dev \in Devices
      BY <1>0, <2>2, OperationFields DEF Holding
    <3>2. \A k \in Keys : Held(rows, k) /\ k.dev = op.key.dev => BeingRevoked(k)'
      BY <2>1, <3>1, ClosingIsRevoking DEF BeingRevoked
    <3>3. \A e \in Devices \ {op.key.dev} : room[e] => room'[e]
      BY <1>0, <1>15, <2>2 DEF Crash, ServiceTypeOK, Holding
    <3> QED
      BY <2>1, <3>1, <3>2, <3>3, OnlyOneDevice
  <2>3. CASE ~Holding("close")
    <3>1. \A d \in Devices : room[d] => room'[d]
      BY <1>0, <1>15, <2>3 DEF Crash, ServiceTypeOK
    <3> QED
      BY <1>0, <2>1, <3>1, NothingLost
  <2> QED
    BY <2>2, <2>3
<1>16. CASE UNCHANGED providerVars
  BY <1>0, <1>16, NothingLost DEF providerVars, serviceVars
<1>17. CASE SessionDone \/ SessionFailed
  BY <1>0, <1>17, NothingLost DEF SessionDone, SessionFailed
<1> QED
  BY <1>1, <1>2, <1>3, <1>4, <1>5, <1>6, <1>7, <1>8, <1>9, <1>10, <1>11, <1>12, <1>13,
     <1>14, <1>15, <1>16, <1>17 DEF ProviderNext, SomeProvision, SomeRevoke, ConnectionStep

-----------------------------------------------------------------------------
\* The Provider starts with an empty ledger, and nothing under the lock.
LEMMA InitProviderInv == ProviderInit => ProviderInv
<1> SUFFICES ASSUME ProviderInit PROVE ProviderInv
  OBVIOUS
<1>1. LedgerInv
  BY InitLedgerInv DEF ProviderInit
<1>2. ServiceTypeOK /\ LockedOp /\ LockedSession
  BY ProviderAssumption DEF ProviderInit, ServiceTypeOK, LockedOp, LockedSession
<1>3. HeldChannelIsReachable
  BY DEF ProviderInit, Init, Absent, Held, HeldChannelIsReachable
<1> QED
  BY <1>1, <1>2, <1>3 DEF ProviderInv

\* The invariant is inductive.
LEMMA StepProviderInv ==
    ProviderInv /\ [ProviderNext]_providerVars => ProviderInv'
<1> SUFFICES ASSUME ProviderInv, [ProviderNext]_providerVars PROVE ProviderInv'
  OBVIOUS
<1>1. LedgerInv'
  BY StepUsesLedger, NextLedgerInv DEF ProviderInv
<1> QED
  BY <1>1, StepServiceType, StepLockedOp, StepLockedSession, StepReachable DEF ProviderInv

\* Every reachable state satisfies the service's inductive invariant.
THEOREM ProviderCorrect == ProviderSpec => []ProviderInv
BY InitProviderInv, StepProviderInv, PTL DEF ProviderSpec

\* The service's state is well typed, its ledger's included.
THEOREM ProviderTypeCorrect == ProviderSpec => []ProviderTypeOK
<1>1. ProviderInv => ProviderTypeOK
  BY DEF ProviderInv, LedgerInv, ServiceTypeOK, ProviderTypeOK
<1> QED
  BY <1>1, ProviderCorrect, PTL

\* However operations wait, fail and crash, the service writes its ledger by
\* the ledger's own transactions: its checks before the await still hold after.
THEOREM ProviderUsesLedger == ProviderSpec => UsesLedger
<1>1. ProviderInit => Init
  BY DEF ProviderInit
<1> QED
  BY <1>1, StepUsesLedger, ProviderCorrect, PTL DEF ProviderSpec, UsesLedger

\* So what was proved of the ledger alone is true of the running Provider.
THEOREM ProviderKeepsLedger ==
    ProviderSpec => [](OneHeldPerDevice /\ RevocationIsFinal /\ PolicyNeverRegresses)
BY ProviderCorrect, PTL DEF ProviderInv, LedgerInv

\* The running Provider implements the abstract generation lifecycle.
THEOREM ProviderImplementsGrant == ProviderSpec => ImplementsGrant
BY ProviderUsesLedger, LedgerImplementsGrant, PTL DEF UsesLedger, Spec

\* A channel the ledger holds has its room and its listener, whatever failed,
\* was refused or crashed, unless its own revocation is unanswered.
THEOREM ProviderKeepsReachable == ProviderSpec => []HeldChannelIsReachable
BY ProviderCorrect, PTL DEF ProviderInv

\* A conversation begins only on a channel that is active when the adapter has
\* placed it, of the generation that was checked before the adapter was awaited,
\* and that nothing is withdrawing meanwhile.
THEOREM ProviderOpensOnActive == ProviderSpec => NoOpeningWhileWithdrawn
<1> DEFINE Fine == \A d \in Devices :
                      ~talk[d] /\ talk'[d] =>
                          /\ asked # Idle /\ ActiveOf(rows, d, asked.gen) # {}
                          /\ ~(Holding("close") /\ op.key.dev = d)
<1>1. ASSUME ProviderInv, [ProviderNext]_providerVars
      PROVE  Fine
  <2>0. ServiceTypeOK /\ LockedSession
    BY <1>1 DEF ProviderInv
  <2>1. CASE Served
    <3>1. asked # Idle /\ op = Idle /\ talk' = [talk EXCEPT ![asked.dev] = asked.on]
      BY <2>0, <2>1 DEF Served, LockedSession
    <3> SUFFICES ASSUME NEW d \in Devices, ~talk[d], talk'[d]
                 PROVE  ActiveOf(rows, d, asked.gen) # {}
      BY <3>1 DEF Holding
    <3>2. asked.dev = d /\ asked.on
      BY <2>0, <3>1 DEF ServiceTypeOK, Request
    <3> QED
      BY <2>0, <3>1, <3>2 DEF LockedSession
  <2>2. CASE UNCHANGED talk
    BY <2>2
  <2>3. ASSUME NEW d \in Devices, RoomGone(d)
        PROVE  Fine
    BY <2>0, <2>3, RoomGoneKeeps
  <2>4. CASE RevokeCommit
    BY <2>0, <2>3, <2>4, OperationFields DEF RevokeCommit, Holding
  <2>5. CASE RevokeFailed
    BY <2>0, <2>2, <2>3, <2>5, OperationFields DEF RevokeFailed, Holding
  <2>6. CASE ProvisionRefused
    BY <2>0, <2>2, <2>3, <2>6, OperationFields DEF ProvisionRefused, Holding
  <2>7. CASE Crash
    BY <2>0, <2>1, <2>2, <2>7, OperationFields DEF Crash, Holding, ServiceTypeOK
  <2>8. ASSUME NEW due \in SUBSET ActiveRows(rows),
               SomeProvision(due) \/ SomeRevoke(due) \/ SomeSession(due) \/ Read(due) \/ Restart(due)
        PROVE  UNCHANGED talk
    BY <2>0, <2>8, SessionBegins DEF SomeProvision, ProvisionStart, ProvisionReplay, SomeRevoke,
          RevokeStart, RevokeUnopened, RevokeReplay, Read, serviceVars, Restart
  <2>9. ASSUME \/ \E handle \in Handles : ProvisionCommit(handle)
               \/ ProvisionFailed
               \/ \E d \in Devices : ConnectionStep(d)
               \/ \E d \in Devices, how \in {"joined", "none"} : AdriftEnds(d, how)
               \/ UNCHANGED providerVars
        PROVE  UNCHANGED talk
    BY <2>0, <2>9, ConnectionSteps DEF ProvisionCommit, ProvisionFailed,
          AdriftEnds, providerVars, serviceVars
  <2>10. CASE SessionDone \/ SessionFailed
    BY <2>1, <2>2, <2>10 DEF SessionDone, SessionFailed
  <2> HIDE DEF Fine
  <2> QED
    BY <1>1, <2>10, <2>2, <2>4, <2>5, <2>6, <2>7, <2>8, <2>9 DEF ProviderNext, ConnectionStep
<1> QED
  BY <1>1, ProviderCorrect, PTL DEF ProviderSpec, NoOpeningWhileWithdrawn
=============================================================================
