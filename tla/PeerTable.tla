------------------------------ MODULE PeerTable ------------------------------
(***************************************************************************)
(* internal/store: the peers table of the SQLite database.  One connection *)
(* (SetMaxOpenConns(1)) makes every statement, and the transaction of      *)
(* SyncPeersFromConfig, one step.  The table is a function from the names, *)
(* its primary key, to a row or NoRow.  The addresses, dates and authors   *)
(* of a row are display data and are left out.                             *)
(***************************************************************************)
EXTENDS WgConf

CONSTANTS Limits,    \* values of monthly_limit_bytes; 0 is "no limit"
          NoRow      \* sql.ErrNoRows

\* A row or a file created outside the program may hold no key or no config:
\* the code writes the empty string.
NoKey == 0

\* A client configuration is known by the key pair it was built for and by
\* whether it has the Jc/Jmin/Jmax lines.
Cfg   == [key : Nat, junk : BOOLEAN]
NoCfg == [key |-> NoKey, junk |-> FALSE]

Row == [key : Nat, enabled : BOOLEAN, cfg : Cfg, limit : Limits]

ASSUME LimitsAssumption == Limits \subseteq Nat /\ 0 \in Limits
ASSUME NoRowAssumption  == NoRow \notin Row

Table == [Names -> Row \cup {NoRow}]

Present(t) == {n \in Names : t[n] # NoRow}

\* public_key is UNIQUE: writing key k for name n fails when another row has it.
KeyTaken(t, n, k) == \E m \in Present(t) \ {n} : t[m].key = k

\* Mutant: a zero limit overwrites the one of the row.
UpsertRowZeroLimit(t, n, new) ==
  LET old == t[n]
      row == IF old = NoRow
             THEN new
             ELSE [new EXCEPT !.cfg = IF @ = NoCfg THEN old.cfg ELSE @]
  IN [t EXCEPT ![n] = row]

\* UpsertPeer.  An empty config and a zero limit keep what the row has.
UpsertRow(t, n, new) ==
  LET old == t[n]
      row == IF old = NoRow
             THEN new
             ELSE [key |-> new.key, enabled |-> new.enabled,
                   cfg   |-> IF new.cfg = NoCfg THEN old.cfg ELSE new.cfg,
                   limit |-> IF new.limit > 0 THEN new.limit ELSE old.limit]
  IN [t EXCEPT ![n] = row]

\* The statement of SyncPeersFromConfig for one peer: `enabled` and the limit
\* of a row that exists are left alone, a new row starts enabled.
ImportRow(old, k, c) ==
  IF old = NoRow
  THEN [key |-> k, enabled |-> TRUE, cfg |-> c, limit |-> 0]
  ELSE [old EXCEPT !.key = k, !.cfg = IF c = NoCfg THEN @ ELSE c]

\* Mutant: the loop captures its variable and writes the last key to every row.
ImportRowsCaptured(t, pick, cfgs) ==
  LET last == CHOOSE k \in {pick[n].key : n \in DOMAIN pick} :
                \A n \in DOMAIN pick : pick[n].key <= k
  IN [n \in Names |-> IF n \in DOMAIN pick THEN ImportRow(t[n], last, cfgs[n]) ELSE t[n]]

\* SyncPeersFromConfig: one transaction.  `pick` gives, for each name in the
\* file, the block that was written last, `cfgs` the client files.
ImportRows(t, pick, cfgs) ==
  [n \in Names |-> IF n \in DOMAIN pick
                   THEN ImportRow(t[n], pick[n].key, cfgs[n])
                   ELSE t[n]]

\* Mutant: nothing is pruned when the file holds no client.
PruneRowsUnlessEmpty(t, keep) ==
  [n \in Names |-> IF keep = {} \/ n \in keep THEN t[n] ELSE NoRow]

\* PrunePeersExcept; an empty `keep` deletes every row.
PruneRows(t, keep) == [n \in Names |-> IF n \in keep THEN t[n] ELSE NoRow]

\* SetPeerEnabled and SetPeerLimit touch the row only if it is there.
SetEnabled(t, n, e) == [t EXCEPT ![n].enabled = e]
SetLimit(t, n, l)   == [t EXCEPT ![n].limit = l]

DeleteRow(t, n) == [t EXCEPT ![n] = NoRow]
=============================================================================
