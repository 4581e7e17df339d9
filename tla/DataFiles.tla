----------------------------- MODULE DataFiles -----------------------------
(***************************************************************************)
(* The files a start of skall reads and writes: the configuration          *)
(* (config.go), the identity (identity/store.go) of the data directory it  *)
(* names, and the identity's row in the database there.  Several processes *)
(* share them, and nothing locks them.                                     *)
(*                                                                         *)
(* Save writes in place: os.WriteFile opens the file with O_TRUNC and then *)
(* writes, so that another process can read, or a crash leave, a file      *)
(* without its content, and two writers can leave the end of the longer    *)
(* text behind the shorter one.  A key stands for the peer ID and the key  *)
(* pair; the username is overridden and saved like the display name.       *)
(***************************************************************************)
EXTENDS Naturals, FiniteSets

CONSTANTS Procs, Dirs, Names,
          Home,         \* the data directory of DefaultConfig
          NoDir,        \* SKALL_DATA_DIR is not set
          Generated,    \* the display name that Generate makes up
          NoName,       \* display_name is not configured
          Length,       \* Length[n]: how long a text with the name n is
          Commands,     \* the commands that are started, with SKALL_DATA_DIR
          Edits,        \* the configurations that the user writes
          MaxKeys, MaxStarts, MaxEdits,  \* bounds: identities, starts, edits
          MaxFaults     \* bound: processes killed, calls that fail

ASSUME DataFilesAssumption ==
    /\ Home \in Dirs /\ {NoDir, "config"} \cap Dirs = {} /\ Generated \in Names /\ NoName \notin Names
    /\ Length \in [Names \cup {NoName} -> Nat \ {0}]
    /\ Commands \subseteq [cmd : {"tui", "init"}, name : {NoName}, env : Dirs \cup {NoDir}]
                   \cup [cmd : {"set-name"}, name : Names, env : Dirs \cup {NoDir}]
    /\ Edits \subseteq [dir : Dirs, name : Names \cup {NoName}]
    /\ {MaxKeys, MaxStarts, MaxEdits, MaxFaults} \subseteq Nat

VARIABLES
    config,     \* the configuration file
    ident,      \* ident[d]: the identity file of the directory d
    schema,     \* directories whose database has the schema and its version row
    meta,       \* meta[d][k]: the name in k's row of the table identities of d
    proc,       \* the processes
    keys, starts, edits, faults,   \* how often what is bounded has happened
    \* History:
    wanted,     \* the configuration that the user asked for last
    known,      \* known[d]: the keys that were ever completely on disk in d
    broken,     \* files with a save, or a save and its row, that ended half-way
    contended,  \* files that two processes were busy with at once
    rivals      \* directories that two processes created an identity for at once

fileVars == <<config, ident, schema, meta>>
counters == <<keys, starts, edits, faults>>
history == <<wanted, known, broken, contended, rivals>>
vars == <<fileVars, proc, counters, history>>

Keys == 1..MaxKeys
Configs == [dir : Dirs, name : Names \cup {NoName}]
Identities == [key : 0..MaxKeys, name : Names \cup {NoName}]
NoIdentity == [key |-> 0, name |-> NoName]
Files == {"config"} \cup Dirs

DefaultConfig(env) == [dir |-> IF env = NoDir THEN Home ELSE env, name |-> NoName]

\* A file is absent, holds one text, or holds something that cannot be used.
\* That is "misleading" if it decodes, Validate refuses a value of it, and the
\* error, which quotes the value, has the words "no such file" in it.  size is
\* what the last write to it, or the longest of several, left.
Absent(x) == [state |-> "absent", data |-> x, size |-> 0]
OpenedNoTruncate(file) == IF file.state = "absent" THEN [file EXCEPT !.state = "bad"] ELSE file
\* os.WriteFile, first half: O_TRUNC.
Opened(file) == [file EXCEPT !.state = "bad", !.size = 0]
\* Second half: the bytes replace as many bytes of what is there.
Written(file, x) ==
    LET len == Length[x.name] IN
    IF file.size > len THEN [file EXCEPT !.state = "bad"]
                       ELSE [state |-> "whole", data |-> x, size |-> len]

\* A process: where it is, the command it was given, SKALL_DATA_DIR, the
\* configuration and the identity in memory, and what it saves.
Off == [pc |-> "off", cmd |-> "tui", name |-> NoName, env |-> NoDir,
        cfg |-> DefaultConfig(NoDir), id |-> NoIdentity, why |-> "nothing"]

SavesConfig(r) == r.why \in {"createConfig", "init"}
Saving(r) == r.pc \in {"open", "write"}
Target(r) == IF SavesConfig(r) THEN "config" ELSE r.cfg.dir

\* Between reading a file and being done with what was read.
Busy(r, f) == \/ Saving(r) /\ Target(r) = f
              \/ r.pc \in {"openStore", "migrate", "metadata", "renamed"} /\ r.cfg.dir = f
Creating(r, d) == Saving(r) /\ r.why = "createIdentity" /\ r.cfg.dir = d

TypeOK ==
    /\ config \in [state : {"absent", "whole", "bad", "misleading"}, data : Configs, size : Nat]
    /\ ident \in [Dirs -> [state : {"absent", "whole", "bad"}, data : Identities, size : Nat]]
    /\ schema \subseteq Dirs /\ meta \in [Dirs -> [Keys -> Names \cup {NoName}]]
    /\ proc \in [Procs ->
         [pc : {"off", "config", "identity", "open", "write",
                "openStore", "migrate", "metadata", "renamed", "running"},
          cmd : {"tui", "set-name", "init"}, name : Names \cup {NoName}, env : Dirs \cup {NoDir},
          cfg : Configs, id : Identities,
          why : {"nothing", "createConfig", "createIdentity", "override", "setName", "init"}]]
    /\ keys \in 0..MaxKeys /\ starts \in 0..MaxStarts
    /\ edits \in 0..MaxEdits /\ faults \in 0..MaxFaults
    /\ wanted \subseteq [state : {"whole", "bad", "misleading"}, data : Configs, size : Nat] /\ known \in [Dirs -> SUBSET Keys]
    /\ broken \subseteq Files /\ contended \subseteq Files /\ rivals \subseteq Dirs

Init ==
    /\ config = Absent(DefaultConfig(NoDir))
    /\ ident = [d \in Dirs |-> Absent(NoIdentity)]
    /\ schema = {} /\ meta = [d \in Dirs |-> [k \in Keys |-> NoName]]
    /\ proc = [p \in Procs |-> Off]
    /\ keys = 0 /\ starts = 0 /\ edits = 0 /\ faults = 0
    /\ wanted = {} /\ known = [d \in Dirs |-> {}]
    /\ broken = {} /\ contended = {} /\ rivals = {}

----------------------------------------------------------------------------
(* The steps of a start: main, config.LoadOrCreate, loadLocalIdentity.     *)

\* What the step of p leaves of it, and what the history notes of that.
Goes(p, r) ==
    /\ proc' = [proc EXCEPT ![p] = r]
    /\ contended' = contended \cup {f \in Files : Busy(r, f) /\ \E q \in Procs \ {p} : Busy(proc[q], f)}
    /\ rivals' = rivals \cup {d \in Dirs : Creating(r, d) /\ \E q \in Procs \ {p} : Creating(proc[q], d)}

\* The command line is read last, but it is given at the start.
StartProc(p, c) ==
    /\ proc[p].pc = "off" /\ starts < MaxStarts
    /\ Goes(p, [Off EXCEPT !.pc = "config", !.cmd = c.cmd, !.name = c.name, !.env = c.env,
                           !.cfg = DefaultConfig(c.env)])
    /\ starts' = starts + 1
    /\ UNCHANGED <<fileVars, keys, edits, faults, wanted, known, broken>>

LoadOrCreateConfigAlways(p) ==
    LET r == proc[p] IN
    /\ r.pc = "config"
    /\ IF config.state = "whole"
          THEN Goes(p, [r EXCEPT !.pc = "identity",
                                 !.cfg = [config.data EXCEPT !.dir = IF r.env = NoDir THEN @ ELSE r.env]])
          ELSE Goes(p, [r EXCEPT !.pc = "open", !.why = "createConfig"])
    /\ UNCHANGED <<fileVars, counters, wanted, known, broken>>
\* The defaults are saved where there is no file, and where the error of Load
\* says "no such file"; with another file that cannot be used main goes on under
\* the default configuration.
LoadOrCreateConfig(p) ==
    LET r == proc[p] IN
    /\ r.pc = "config"
    /\ \/ /\ config.state = "whole"
          /\ Goes(p, [r EXCEPT !.pc = "identity",
                               !.cfg = [config.data EXCEPT !.dir = IF r.env = NoDir THEN @ ELSE r.env]])
       \/ /\ config.state \in {"absent", "misleading"}
          /\ Goes(p, [r EXCEPT !.pc = "open", !.why = "createConfig"])
       \/ /\ config.state = "bad"
          /\ Goes(p, [r EXCEPT !.pc = "identity"])
    /\ UNCHANGED <<fileVars, counters, wanted, known, broken>>

\* The configured name overrides the one of the identity, which is then saved.
Override(r) ==
    IF r.cfg.name \notin {NoName, r.id.name}
        THEN [r EXCEPT !.id.name = r.cfg.name, !.pc = "open", !.why = "override"]
        ELSE [r EXCEPT !.pc = "openStore"]

Generate(p) ==
    LET r == proc[p] IN
    /\ keys < MaxKeys
    /\ keys' = keys + 1
    /\ Goes(p, [r EXCEPT !.id = [key |-> keys + 1, name |-> Generated],
                         !.pc = "open", !.why = "createIdentity"])

LoadOrCreateIdentityAlways(p) ==
    LET r == proc[p]
        file == ident[r.cfg.dir] IN
    /\ r.pc = "identity"
    /\ \/ /\ file.state = "whole"
          /\ Goes(p, Override([r EXCEPT !.id = file.data])) /\ UNCHANGED keys
       \/ file.state # "whole" /\ Generate(p)
    /\ UNCHANGED <<fileVars, starts, edits, faults, wanted, known, broken>>
\* A new identity only where there is no file; one that cannot be decoded is
\* the end of the process.
LoadOrCreateIdentity(p) ==
    LET r == proc[p]
        file == ident[r.cfg.dir] IN
    /\ r.pc = "identity"
    /\ \/ /\ file.state = "whole"
          /\ Goes(p, Override([r EXCEPT !.id = file.data])) /\ UNCHANGED keys
       \/ file.state = "absent" /\ Generate(p)
       \/ file.state = "bad" /\ Goes(p, Off) /\ UNCHANGED keys
    /\ UNCHANGED <<fileVars, starts, edits, faults, wanted, known, broken>>

\* storage.Open: applyMigrations reads the version before it begins the
\* transaction of the migration ...
ReadVersion(p) ==
    LET r == proc[p] IN
    /\ r.pc = "openStore"
    /\ Goes(p, [r EXCEPT !.pc = IF r.cfg.dir \in schema THEN "metadata" ELSE "migrate"])
    /\ UNCHANGED <<fileVars, counters, wanted, known, broken>>

\* ... which is refused, and the process ends, when another process has recorded
\* the version since: the version is the key of its table.
ApplyMigration(p) ==
    LET r == proc[p] IN
    /\ r.pc = "migrate"
    /\ schema' = schema \cup {r.cfg.dir}
    /\ Goes(p, IF r.cfg.dir \in schema THEN Off ELSE [r EXCEPT !.pc = "metadata"])
    /\ UNCHANGED <<config, ident, meta, counters, wanted, known, broken>>

\* UpsertIdentityMetadata, at the end of the start; then the command.
UpsertMetadata(p) ==
    LET r == proc[p] IN
    /\ r.pc = "metadata"
    /\ meta' = [meta EXCEPT ![r.cfg.dir][r.id.key] = r.id.name]
    /\ Goes(p, CASE r.cmd = "tui"      -> [r EXCEPT !.pc = "running"]
                 [] r.cmd = "set-name" -> [r EXCEPT !.id.name = r.name, !.pc = "open", !.why = "setName"]
                 [] r.cmd = "init"     -> [r EXCEPT !.pc = "open", !.why = "init"])
    /\ UNCHANGED <<config, ident, schema, counters, wanted, known, broken>>

RenameNothing(p) ==
    /\ proc[p].pc = "renamed"
    /\ Goes(p, Off)
    /\ UNCHANGED <<fileVars, counters, wanted, known, broken>>
\* set-name, after the save: the row, and the end of the command.
RenameMetadata(p) ==
    LET r == proc[p] IN
    /\ r.pc = "renamed"
    /\ meta' = [meta EXCEPT ![r.cfg.dir][r.id.key] = r.id.name]
    /\ Goes(p, Off)
    /\ UNCHANGED <<config, ident, schema, counters, wanted, known, broken>>

----------------------------------------------------------------------------
(* Save.                                                                   *)

\* What the caller of Save does next.
AfterSave(r, ok) ==
    CASE r.why = "createConfig"   -> [r EXCEPT !.pc = "identity", !.why = "nothing"]
      [] r.why = "createIdentity" -> IF ok THEN Override(r) ELSE Off
      [] r.why = "override"       -> [r EXCEPT !.pc = "openStore"]
      [] r.why = "setName"        -> IF ok THEN [r EXCEPT !.pc = "renamed"] ELSE Off
      [] r.why = "init"           -> Off

SaveOpen(p) ==
    LET r == proc[p] IN
    /\ r.pc = "open"
    /\ Goes(p, [r EXCEPT !.pc = "write"])
    /\ IF SavesConfig(r)
          THEN config' = Opened(config) /\ UNCHANGED ident
          ELSE ident' = [ident EXCEPT ![r.cfg.dir] = Opened(@)] /\ UNCHANGED config
    /\ UNCHANGED <<schema, meta, counters, wanted, known, broken>>

\* The write, and the chmod after it, whose failure fails a save that is done.
SaveWrite(p, ok) ==
    LET r == proc[p]
        file == Written(ident[r.cfg.dir], r.id) IN
    /\ r.pc = "write"
    /\ ok \/ faults < MaxFaults
    /\ faults' = IF ok THEN faults ELSE faults + 1
    /\ broken' = IF ok THEN broken ELSE broken \cup {Target(r)}
    /\ Goes(p, AfterSave(r, ok))
    /\ IF SavesConfig(r)
          THEN /\ config' = Written(config, DefaultConfig(r.env))
               /\ wanted' = IF r.why = "init" THEN {config'} ELSE wanted
               /\ UNCHANGED <<ident, known>>
          ELSE /\ ident' = [ident EXCEPT ![r.cfg.dir] = file]
               /\ known' = [known EXCEPT ![r.cfg.dir] = IF file.state = "whole" THEN @ \cup {r.id.key} ELSE @]
               /\ UNCHANGED <<config, wanted>>
    /\ UNCHANGED <<schema, meta, keys, starts, edits>>

\* The directory or the open (a read-only file system), or the write fails.
SaveFails(p) ==
    LET r == proc[p] IN
    /\ Saving(r) /\ faults < MaxFaults
    /\ faults' = faults + 1
    /\ broken' = broken \cup {Target(r)}
    /\ Goes(p, AfterSave(r, FALSE))
    /\ UNCHANGED <<fileVars, keys, starts, edits, wanted, known>>

\* The database fails: a start ends, set-name goes on.
MetadataFails(p) ==
    LET r == proc[p] IN
    /\ r.pc \in {"openStore", "migrate", "metadata", "renamed"} /\ faults < MaxFaults
    /\ faults' = faults + 1
    /\ broken' = broken \cup {r.cfg.dir}
    /\ Goes(p, Off)
    /\ UNCHANGED <<fileVars, keys, starts, edits, wanted, known>>

----------------------------------------------------------------------------
(* The surroundings.                                                       *)

Quit(p) ==
    /\ proc[p].pc = "running"
    /\ Goes(p, Off)
    /\ UNCHANGED <<fileVars, counters, wanted, known, broken>>

\* The process is killed before it runs.
Kill(p) ==
    LET r == proc[p] IN
    /\ r.pc \notin {"off", "running"} /\ faults < MaxFaults
    /\ faults' = faults + 1
    /\ broken' = broken \cup {f \in Files : Busy(r, f)}
    /\ Goes(p, Off)
    /\ UNCHANGED <<fileVars, keys, starts, edits, wanted, known>>

\* The user writes a configuration, or one that cannot be used.
EditConfig(c, state) ==
    /\ edits < MaxEdits /\ edits' = edits + 1
    /\ config' = [state |-> state, data |-> c, size |-> Length[c.name]]
    /\ wanted' = {config'}
    /\ contended' = contended \cup {f \in {"config"} : \E p \in Procs : Busy(proc[p], f)}
    /\ UNCHANGED <<ident, schema, meta, proc, keys, starts, faults, known, broken, rivals>>

Step(p) ==
    \/ \E c \in Commands : StartProc(p, c)
    \/ LoadOrCreateConfig(p) \/ LoadOrCreateIdentity(p)
    \/ ReadVersion(p) \/ ApplyMigration(p) \/ UpsertMetadata(p) \/ RenameMetadata(p)
    \/ SaveOpen(p) \/ (\E ok \in BOOLEAN : SaveWrite(p, ok))
    \/ SaveFails(p) \/ MetadataFails(p)
    \/ Quit(p) \/ Kill(p)

Next ==
    \/ \E p \in Procs : Step(p)
    \/ \E c \in Edits, state \in {"whole", "bad", "misleading"} : EditConfig(c, state)

Spec == Init /\ [][Next]_vars

----------------------------------------------------------------------------
(* Properties.                                                             *)

\* An identity is for ever: whatever is killed or fails and however starts and
\* renamings overlap, the file of a directory and the processes that run there
\* never get another key than the first, unless two processes created it at once.
KeyIsKept ==
    \A d \in Dirs \ rivals :
        Cardinality(known[d] \cup {proc[p].id.key : p \in {q \in Procs :
            proc[q].pc = "running" /\ proc[q].cfg.dir = d}}) <= 1

\* A file that nobody is saving can be decoded, unless one of its saves ended
\* half-way or ran into another: renaming to a shorter name leaves nothing of
\* the longer one behind.
ReadableAtRest ==
    \A d \in Dirs \ (broken \cup contended) :
        (\A p \in Procs : ~Busy(proc[p], d)) => ident[d].state # "bad"

\* What a save of the defaults leaves: all of it, and nothing else.
SavedDefaults == [state : {"whole"}, data : [dir : Dirs, name : {NoName}], size : {Length[NoName]}]

\* The program leaves the configuration that the user wrote, or asked for with
\* config init, as it is, also one it cannot decode.  The exception is LoadOrCreate's
\* test of the error's text: a configuration whose own error says "no such file" is
\* taken for a missing one and replaced, by the defaults as a whole and no mixture.
EditsKept ==
    wanted # {} /\ "config" \notin broken \cup contended
        /\ (\A p \in Procs : ~Busy(proc[p], "config"))
            => \E w \in wanted : config = w \/ (w.state = "misleading" /\ config \in SavedDefaults)

\* The row in the database has the name that the identity file has, once nobody
\* is starting there or renaming, unless a fault or an overlap came between the
\* file and the row.
MetadataFollows ==
    \A d \in Dirs \ (broken \cup contended) :
        (\A p \in Procs : ~Busy(proc[p], d)) /\ ident[d].state = "whole"
            => meta[d][ident[d].data.key] = ident[d].data.name
=============================================================================
