------------------------------- MODULE Backup -------------------------------
(***************************************************************************)
(* Backups (src/models/backup.go) recorded through the DB's redis-protocol *)
(* commands.  NewBackup stamps a backup with the current Unix second; Save *)
(* sends HMSET backup:<hash> (the backup's fields), SET latest:<name>, and *)
(* LADD <name> <ts> <ref>, which the DB runs as Ladd on the list named     *)
(* after the backup (module Lists); each command may fail and Save then    *)
(* returns its error.  Several clients save backups and use the list      *)
(* commands at once.                                                       *)
(*                                                                         *)
(* backupHashkey is sha1(name + itoa(ts)): a record key is modelled as the *)
(* pair <<name, ts>> it is computed from.                                  *)
(***************************************************************************)
EXTENDS Integers, FiniteSets, Sequences

CONSTANTS
    Keys, Indexes, Values, Nil, Callers, MaxCalls, ErrorsEnabled,
    Savers,     \* connections saving backups (their LADD is a list call)
    MaxTime     \* the clock runs over 0 .. MaxTime seconds

ASSUME Savers \subseteq Callers /\ 0 .. MaxTime \subseteq Indexes

VARIABLES
    kv, llen, lc, calls,
    now,        \* time.Now().UTC().Unix()
    records,    \* records[<<name, ts>>]: the ref of the hash backup:<hash>
    latest,     \* latest[name]: the record key latest:<name> holds, or Nil
    sv          \* sv[s]: the Backup object of saver s and where Save is

L == INSTANCE Lists

bkVars == <<now, records, latest, sv>>
allVars == <<kv, llen, lc, calls, now, records, latest, sv>>

Clients == Callers \ Savers
RecordKeys == Keys \X (0 .. MaxTime)

SvIdle == [pc |-> "idle", name |-> CHOOSE k \in Keys : TRUE, ts |-> 0, ref |-> Nil]

Init ==
    /\ L!Init
    /\ now = 0
    /\ records = [r \in RecordKeys |-> Nil]
    /\ latest = [k \in Keys |-> Nil]
    /\ sv = [s \in Savers |-> SvIdle]

\* The clock ticks.
Tick ==
    /\ now < MaxTime /\ now' = now + 1
    /\ UNCHANGED <<kv, llen, lc, calls, records, latest, sv>>

\* NewBackup(name, type, ref) stamps Ts, then Save is called on it.
NewBackup(s, name, ref) ==
    /\ sv[s].pc = "idle"
    /\ sv' = [sv EXCEPT ![s] = [pc |-> "hmset", name |-> name, ts |-> now, ref |-> ref]]
    /\ UNCHANGED <<kv, llen, lc, calls, now, records, latest>>

\* backupHashkey(name, ts).
backupHashkey(name, ts) == <<name, ts>>

\* HMSET backup:<hash> name type ref ts.
Hmset(s) ==
    LET b == sv[s] IN
    /\ b.pc = "hmset"
    /\ records' = [records EXCEPT ![backupHashkey(b.name, b.ts)] = b.ref]
    /\ sv' = [sv EXCEPT ![s].pc = "set"]
    /\ UNCHANGED <<kv, llen, lc, calls, now, latest>>

\* SET latest:<name> backup:<hash>.
SetLatest(s) ==
    LET b == sv[s] IN
    /\ b.pc = "set"
    /\ latest' = [latest EXCEPT ![b.name] = backupHashkey(b.name, b.ts)]
    /\ sv' = [sv EXCEPT ![s].pc = "ladd"]
    /\ UNCHANGED <<kv, llen, lc, calls, now, records>>

\* LADD <name> int(Ts) <ref>: the DB runs Ladd on the saver's connection.
LaddSent(s) ==
    LET b == sv[s] IN
    /\ b.pc = "ladd"
    /\ L!LaddCall(s, b.name, b.ts, b.ref)
    /\ sv' = [sv EXCEPT ![s].pc = "wait"]
    /\ UNCHANGED <<now, records, latest>>

\* HMSET or SET returns an error: Save returns it.
CommandFails(s) ==
    /\ ErrorsEnabled /\ sv[s].pc \in {"hmset", "set"}
    /\ sv' = [sv EXCEPT ![s].pc = "returned"]
    /\ UNCHANGED <<kv, llen, lc, calls, now, records, latest>>

\* The LADD reply (nil or Ladd's error) is what Save returns.
LaddReplied(s) ==
    /\ sv[s].pc = "wait" /\ lc[s].pc \in {"ok", "err"}
    /\ lc' = [lc EXCEPT ![s] = L!CallIdle]
    /\ sv' = [sv EXCEPT ![s].pc = "returned"]
    /\ UNCHANGED <<kv, llen, calls, now, records, latest>>

\* Save has returned: its caller calls Save again on the same Backup (same
\* Ts), or goes on to a new backup.
Resave(s) ==
    /\ sv[s].pc = "returned"
    /\ sv' = [sv EXCEPT ![s].pc = "hmset"]
    /\ UNCHANGED <<kv, llen, lc, calls, now, records, latest>>

Forget(s) ==
    /\ sv[s].pc = "returned"
    /\ sv' = [sv EXCEPT ![s] = SvIdle]
    /\ UNCHANGED <<kv, llen, lc, calls, now, records, latest>>

Next ==
    \/ Tick
    \/ \E s \in Savers :
         \/ \E name \in Keys, ref \in Values : NewBackup(s, name, ref)
         \/ Hmset(s) \/ SetLatest(s) \/ LaddSent(s) \/ CommandFails(s)
         \/ LaddReplied(s) \/ Resave(s) \/ Forget(s)
    \/ \E c \in Callers : L!CallStep(c) /\ UNCHANGED bkVars
    \/ \E c \in Clients : (L!ClientCall(c) \/ L!ClientAck(c)) /\ UNCHANGED bkVars

Spec == Init /\ [][Next]_allVars

-----------------------------------------------------------------------------
(* Properties *)

\* The ListLen counter of a backup name's list is the number of entries
\* LITER lists for it whenever no list call is in progress, whatever Saves
\* (of backups stamped in the same second, or retried after an error) and
\* other list clients do.
LenCountsMembers == L!LenCountsMembers

====
