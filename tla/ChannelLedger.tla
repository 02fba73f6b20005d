---------------------------- MODULE ChannelLedger ----------------------------
(***************************************************************************)
(* The Channel Provider's durable ledger (channel_provider/store.py): one  *)
(* SQLite table of provider operations, each transaction of the store one  *)
(* action here.  A transaction that raises rolls back and is no step.      *)
(*                                                                         *)
(* Wall-clock time is abstracted.  Every writing transaction first expires *)
(* the active rows whose deadline has passed; the model lets each sweep    *)
(* find any set of active rows due, which is every placement of the        *)
(* deadlines.  A request's canonical payload is its declaration, so two    *)
(* requests have the same fingerprint when they declare the same.          *)
(***************************************************************************)
EXTENDS Naturals

CONSTANTS
    Devices,      \* (owner_domain_id, device_instance_id) pairs
    Generations,  \* the generations requests may name
    OpIds,        \* caller-chosen idempotency keys
    Manifests,    \* manifest revisions
    Policies,     \* output policies; an absent policy is the one of revision 0
    Handles,      \* adapter handles as the ledger compares them
    NoDecl, NoHandle

GenerationShape == [domain : Nat, claim : Nat, trust : Nat]

ASSUME LedgerAssumption ==
    /\ Generations \subseteq GenerationShape
    /\ \A p \in Policies : p.revision \in Nat
    /\ \A p, q \in Policies : p.revision = 0 /\ q.revision = 0 => p = q
    /\ NoHandle \notin Handles

Kinds == {"provision", "refresh", "revoke"}

\* The primary key of provider_operations.
Keys == [dev : Devices, gen : Generations, kind : Kinds, op : OpIds]

Declarations == [manifest : Manifests, policy : Policies]

Statuses == {"absent", "active", "expired", "fenced", "revoked", "completed"}

Row == [status : Statuses,
        decl   : Declarations \cup {NoDecl},
        handle : Handles \cup {NoHandle}]

VARIABLE rows

Absent == [status |-> "absent", decl |-> NoDecl, handle |-> NoHandle]

Init == rows = [k \in Keys |-> Absent]

-----------------------------------------------------------------------------
\* Reading the table

\* Generations compare as Python tuples, and ORDER BY ... DESC agrees.
Older(g, h) ==
    \/ g.domain < h.domain
    \/ g.domain = h.domain /\ g.claim < h.claim
    \/ g.domain = h.domain /\ g.claim = h.claim /\ g.trust < h.trust

Stored(rs, k) == rs[k].status # "absent"

\* status IN ('active','expired'): the rows that still carry a handle.
Held(rs, k) == rs[k].status \in {"active", "expired"}

\* operation_kind IN (PROVISION, REFRESH): the rows that carry a credential.
Grants(k) == k.kind # "revoke"

StoredOf(rs, d) == {k \in Keys : k.dev = d /\ Stored(rs, k)}

\* `incoming < latest`, which raises StaleGeneration.
Stale(rs, d, g) == \E k \in StoredOf(rs, d) : Older(g, k.gen)

\* `latest is not None and incoming > latest`.
Advances(rs, d, g) ==
    /\ StoredOf(rs, d) # {}
    /\ \A k \in StoredOf(rs, d) : Older(k.gen, g)

\* Mutant: a revocation is not taken for a row of its generation.
GenerationGrantsOnly(rs, d, g) == {k \in StoredOf(rs, d) : k.gen = g /\ Grants(k)}

GenerationRows(rs, d, g) == {k \in StoredOf(rs, d) : k.gen = g}

-----------------------------------------------------------------------------
\* Writing it

ActiveRows(rs) == {k \in Keys : rs[k].status = "active"}

\* `_expire`: the rows of `due` are past their deadline.
Expired(rs, due) ==
    [k \in Keys |-> IF k \in due THEN [rs[k] EXCEPT !.status = "expired"] ELSE rs[k]]

\* The UPDATEs that end rows: the status is terminal and the handle is gone.
Ended(rs, K, status) ==
    [k \in Keys |-> IF k \in K
                    THEN [rs[k] EXCEPT !.status = status, !.handle = NoHandle]
                    ELSE rs[k]]

\* Mutant: an expired row of an older generation is forgotten.
ActiveOlderOnly(rs, d, g) ==
    {k \in Keys : k.dev = d /\ rs[k].status = "active" /\ Older(k.gen, g)}

HeldOlder(rs, d, g) == {k \in Keys : k.dev = d /\ Held(rs, k) /\ Older(k.gen, g)}

HeldSame(rs, d, g) == {k \in Keys : k.dev = d /\ Held(rs, k) /\ k.gen = g}

\* Mutant: revisions are told apart and not ordered.
PolicyReplaced(old, new) == new.revision # old.revision \/ new = old

\* The output policy may not regress, nor reuse a revision for other content.
PolicyKept(old, new) == new.revision > old.revision \/ new = old

\* A row that makes a refresh of its generation admissible.  `observed` is the
\* row the service saw when its adapter reported stale runtime inputs, if any.
Renewable(rs, k, decl, observed) ==
    \/ rs[k].status = "expired"
    \/ /\ rs[k].status = "active"
       /\ \/ rs[k].decl.manifest # decl.manifest
          \/ decl.policy.revision > rs[k].decl.policy.revision
          \/ [op |-> k.op, handle |-> rs[k].handle] \in observed

Admissible(rs, k, decl, observed) ==
    LET peers == GenerationRows(rs, k.dev, k.gen) IN
    /\ \A p \in peers : Grants(p) => PolicyKept(rs[p].decl.policy, decl.policy)
    /\ k.kind = "provision" => peers = {}
    /\ k.kind = "refresh" =>
          \E p \in peers : Grants(p) /\ Renewable(rs, p, decl, observed)

\* Mutant: a refresh leaves the row it renews in place.
SupersededByGenerationOnly(rs, k) ==
    IF Advances(rs, k.dev, k.gen) THEN HeldOlder(rs, k.dev, k.gen) ELSE {}

\* The rows a committed provision or refresh fences.
Superseded(rs, k) ==
    IF Advances(rs, k.dev, k.gen) THEN HeldOlder(rs, k.dev, k.gen)
    ELSE IF k.kind = "refresh" THEN HeldSame(rs, k.dev, k.gen)
    ELSE {}

\* A committed provision or refresh.
Granted(rs, k, decl, handle) ==
    [Ended(rs, Superseded(rs, k), "fenced") EXCEPT
        ![k] = [status |-> "active", decl |-> decl, handle |-> handle]]

\* A committed revocation.
Revoked(rs, k) ==
    LET older == IF Advances(rs, k.dev, k.gen) THEN HeldOlder(rs, k.dev, k.gen) ELSE {}
    IN  [Ended(Ended(rs, older, "fenced"), HeldSame(rs, k.dev, k.gen), "revoked") EXCEPT
            ![k] = [status |-> "completed", decl |-> NoDecl, handle |-> NoHandle]]

-----------------------------------------------------------------------------
\* The transactions

ExpireCredentials(due) == rows' = Expired(rows, due)

\* create_provision, for both kinds of grant: a known key is a replay, which
\* commits nothing but the sweep.
CreateProvision(k, decl, handle, observed, due) ==
    LET rs == Expired(rows, due) IN
    /\ Grants(k)
    /\ ~Stale(rs, k.dev, k.gen)
    /\ \/ /\ Stored(rs, k)
          /\ rs[k].decl = decl
          /\ rows' = rs
       \/ /\ ~Stored(rs, k)
          /\ Admissible(rs, k, decl, observed)
          /\ rows' = Granted(rs, k, decl, handle)

CompleteRevocation(k, due) ==
    LET rs == Expired(rows, due) IN
    /\ k.kind = "revoke"
    /\ ~Stale(rs, k.dev, k.gen)
    /\ \/ Stored(rs, k) /\ rows' = rs
       \/ ~Stored(rs, k) /\ rows' = Revoked(rs, k)

\* What the adapter may have reported about the device's current row.
Observations == {{}} \cup {{[op |-> o, handle |-> h]} : o \in OpIds, h \in Handles}

Next ==
    \E due \in SUBSET ActiveRows(rows) :
        \/ ExpireCredentials(due)
        \/ \E k \in Keys, decl \in Declarations, h \in Handles, seen \in Observations :
              CreateProvision(k, decl, h, seen, due)
        \/ \E k \in Keys : CompleteRevocation(k, due)

Spec == Init /\ [][Next]_rows

-----------------------------------------------------------------------------
\* Correctness

\* Every row has the columns its kind and status call for.
TypeOK ==
    /\ rows \in [Keys -> Row]
    /\ \A k \in Keys :
          /\ Stored(rows, k) /\ Grants(k) => rows[k].decl \in Declarations
          /\ Held(rows, k) => Grants(k)

\* A device has at most one row that carries a handle, over all its
\* generations and whether or not its credential lapsed: stronger than the
\* partial unique index, which knows only active rows, and what lets
\* `current_channel` take the first row it finds.
OneHeldPerDevice ==
    \A k, l \in Keys : Held(rows, k) /\ Held(rows, l) /\ k.dev = l.dev => k = l

\* The row that carries the handle is of the newest generation the ledger has
\* ever recorded for its device, revocations included: no older credential
\* outlives a newer generation.
HeldIsLatest ==
    \A k, l \in Keys : Held(rows, k) /\ Stored(rows, l) /\ k.dev = l.dev
                          => ~Older(k.gen, l.gen)

\* A recorded revocation ends its generation and all older ones for good: a
\* credential that stands was provisioned under a newer generation.
RevocationIsFinal ==
    \A k, l \in Keys :
        /\ Stored(rows, k) /\ k.kind = "revoke"
        /\ Held(rows, l) /\ l.dev = k.dev
        => Older(k.gen, l.gen)

\* Within a generation the standing credential carries the newest output
\* policy ever granted: no refresh, replay or reordering takes it back.
PolicyNeverRegresses ==
    \A k, l \in Keys :
        /\ Held(rows, k) /\ Stored(rows, l) /\ Grants(l)
        /\ k.dev = l.dev /\ k.gen = l.gen
        => \/ rows[l].decl.policy = rows[k].decl.policy
           \/ rows[l].decl.policy.revision < rows[k].decl.policy.revision

\* A handle is readable exactly while its row is held: fencing and revoking
\* scrub it in the same transaction.
HandleOnlyWhileHeld ==
    \A k \in Keys : Held(rows, k) <=> rows[k].handle # NoHandle

-----------------------------------------------------------------------------
\* The ledger implements the generation lifecycle of ChannelGrant

PhaseOf(rs, d, g) ==
    IF \E k \in GenerationRows(rs, d, g) : rs[k].status = "active" THEN "live"
    ELSE IF \E k \in GenerationRows(rs, d, g) : rs[k].status = "expired" THEN "lapsed"
    ELSE IF GenerationRows(rs, d, g) = {} THEN "none"
    ELSE "over"

PhasesOf(rs) == [d \in Devices |-> [g \in Generations |-> PhaseOf(rs, d, g)]]

Grant == INSTANCE ChannelGrant WITH
            phase <- PhasesOf(rows)

\* Seen through its table, the store only ever starts, lapses, renews and
\* ends generations in order: see ChannelGrant.
ImplementsGrant == Grant!GrantSpec
=============================================================================
