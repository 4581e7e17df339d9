--------------------------- MODULE DataFilesProofs --------------------------
(***************************************************************************)
(* For any number of processes, directories, names, starts and faults: the *)
(* key of a directory is kept, a file at rest can be decoded, the user's   *)
(* configuration is left alone and the row in the database follows the     *)
(* identity file, each unless the history notes why not.                   *)
(***************************************************************************)
EXTENDS DataFiles, FiniteSetTheorems, TLAPS

Proc == [pc : {"off", "config", "identity", "open", "write",
               "openStore", "migrate", "metadata", "renamed", "running"},
         cmd : {"tui", "set-name", "init"}, name : Names \cup {NoName}, env : Dirs \cup {NoDir},
         cfg : Configs, id : Identities,
         why : {"nothing", "createConfig", "createIdentity", "override", "setName", "init"}]

Storing(r) == r.pc \in {"openStore", "migrate", "metadata", "renamed"}
Writing(r, d) == r.pc = "write" /\ ~SavesConfig(r) /\ r.cfg.dir = d
Stores(r, d) == Storing(r) /\ r.cfg.dir = d

\* A process with an identity in memory.
HasId(r) == Storing(r) \/ r.pc = "running" \/ (Saving(r) /\ r.why # "createConfig")

\* A process has a real key once it has one, and saves for a reason.
ProcOK(r) ==
    /\ r \in Proc
    /\ HasId(r) => r.id.key \in Keys
    /\ Saving(r) => r.why # "nothing"

TypeInv ==
    /\ TypeOK
    /\ \A p \in Procs : ProcOK(proc[p])
    /\ \A d \in Dirs : ident[d].state = "whole" => ident[d].data.key \in Keys

\* Of a file that is not contended one process at most is busy with it.
AloneInv ==
    \A f \in Files \ contended : \A p, q \in Procs :
        Busy(proc[p], f) /\ Busy(proc[q], f) => p = q

CreatesConfig(r) == Saving(r) /\ r.why = "createConfig"
WritesConfig(r) == r.pc = "write" /\ SavesConfig(r)

\* The user wants nothing, or what LoadOrCreate takes for a missing file.
NothingUsable == \A w \in wanted : w.state = "misleading"
Kept == \E w \in wanted : config = w \/ (w.state = "misleading" /\ config \in SavedDefaults)

\* There is a configuration file if the user wants one, and nobody creates the
\* default one over it unless it is misleading; while it is written it is empty.
ConfigInv ==
    /\ config.state = "absent" => wanted = {}
    /\ config.state = "misleading" => wanted = {config}
    /\ "config" \notin broken \cup contended =>
        /\ \A p \in Procs : CreatesConfig(proc[p]) => NothingUsable
        /\ \A p \in Procs : WritesConfig(proc[p]) => config.size = 0
        /\ wanted # {} /\ (\A p \in Procs : ~Busy(proc[p], "config")) => Kept

\* A directory without faults and overlaps: its file is undecodable only while
\* it is written, and is then empty; who is at the database has the identity of
\* the file, and finds the version as it was read; and the row follows.
DirOK(d) ==
    /\ ident[d].state = "bad" => \E p \in Procs : Writing(proc[p], d)
    /\ \A p \in Procs : Writing(proc[p], d) => ident[d].size = 0
    /\ \A p \in Procs : Stores(proc[p], d) => ident[d].state = "whole" /\ ident[d].data = proc[p].id
    /\ \A p \in Procs : Stores(proc[p], d) /\ proc[p].pc = "migrate" => d \notin schema
    /\ (\A p \in Procs : ~Busy(proc[p], d)) /\ ident[d].state = "whole"
        => meta[d][ident[d].data.key] = ident[d].data.name

DirInv == \A d \in Dirs \ (broken \cup contended) : DirOK(d)

\* The keys of a directory: the file has a known one; there is none before the
\* file; without rivals there is one, every process there has it, and who creates
\* it is alone with an identity there.
FileKey(d) ==
    /\ ident[d].state = "whole" => ident[d].data.key \in known[d]
    /\ ident[d].state = "absent" => known[d] = {}
KeyOK(d) ==
    /\ \A j, k \in known[d] : j = k
    /\ \A p \in Procs : HasId(proc[p]) /\ proc[p].cfg.dir = d /\ ~Creating(proc[p], d)
        => proc[p].id.key \in known[d]
    /\ \A p \in Procs : Creating(proc[p], d) =>
        /\ known[d] = {}
        /\ \A q \in Procs \ {p} : ~(HasId(proc[q]) /\ proc[q].cfg.dir = d)
        /\ proc[p].pc = "write" => ident[d].size = 0

KeyInv == \A d \in Dirs : FileKey(d) /\ (d \notin rivals => KeyOK(d))

IInv == TypeInv /\ AloneInv /\ ConfigInv /\ DirInv /\ KeyInv

----------------------------------------------------------------------------
(* Processes and files.                                                    *)

\* Which file a process is busy with.
LEMMA BusyWith ==
    ASSUME NEW r \in Proc
    PROVE  /\ Busy(r, "config") <=> Saving(r) /\ SavesConfig(r)
           /\ \A d \in Dirs : Busy(r, d) <=> \/ Saving(r) /\ ~SavesConfig(r) /\ r.cfg.dir = d
                                             \/ Stores(r, d)
<1>1. "config" \notin Dirs /\ r.cfg.dir \in Dirs
  BY DataFilesAssumption DEF Proc, Configs
<1> QED BY <1>1 DEF Busy, Target, Stores, Storing

LEMMA OffOK == ProcOK(Off) /\ \A f \in Files : ~Busy(Off, f)
<1>1. Off \in Proc
  BY DataFilesAssumption DEF Off, Proc, DefaultConfig, Configs, NoIdentity, Identities
<1>2. Off.pc = "off"
  BY DEF Off
<1> QED BY <1>1, <1>2 DEF ProcOK, HasId, Storing, Saving, Busy

\* overrideFromConfig keeps the key; it has nothing to save, or saves the name.
LEMMA OverrideOK ==
    ASSUME NEW r \in Proc, r.id.key \in Keys
    PROVE  /\ ProcOK(Override(r))
           /\ Override(r).cfg = r.cfg /\ Override(r).id.key = r.id.key
           /\ \/ Override(r).pc = "openStore" /\ Override(r).id = r.id
              \/ Override(r).pc = "open" /\ Override(r).why = "override"
<1>1. r.id \in Identities /\ r.cfg \in Configs
  BY DEF Proc
<1>2. CASE r.cfg.name \notin {NoName, r.id.name}
  <2> DEFINE i == [r.id EXCEPT !.name = r.cfg.name]
  <2>1. i \in Identities /\ i.key = r.id.key
    BY <1>1 DEF Identities, Configs
  <2>2. Override(r) = [r EXCEPT !.id = i, !.pc = "open", !.why = "override"]
    BY <1>2 DEF Override
  <2> HIDE DEF i
  <2> DEFINE s == [r EXCEPT !.id = i, !.pc = "open", !.why = "override"]
  <2>3. s \in Proc /\ s.id = i /\ s.pc = "open" /\ s.why = "override" /\ s.cfg = r.cfg
    BY <2>1 DEF Proc
  <2> QED BY <2>1, <2>2, <2>3 DEF ProcOK
<1>3. CASE ~(r.cfg.name \notin {NoName, r.id.name})
  <2> DEFINE s == [r EXCEPT !.pc = "openStore"]
  <2>1. Override(r) = s
    BY <1>3 DEF Override
  <2>2. s \in Proc /\ s.id = r.id /\ s.pc = "openStore" /\ s.cfg = r.cfg
    BY DEF Proc
  <2> QED BY <2>1, <2>2 DEF ProcOK, Saving
<1> QED BY <1>2, <1>3

\* Where a save leaves its process: it ended, or it goes on with the identity
\* it has.
LEMMA AfterSaveOK ==
    ASSUME NEW r, ProcOK(r), Saving(r), NEW ok \in BOOLEAN
    PROVE  LET s == AfterSave(r, ok) IN
           /\ ProcOK(s)
           /\ \/ s = Off /\ (r.why = "init" \/ ~ok)
              \/ s.pc = "identity" /\ r.why = "createConfig"
              \/ /\ ~SavesConfig(r) /\ s.cfg = r.cfg /\ s.id.key = r.id.key
                 /\ r.why = "createIdentity" => ok
                 /\ \/ Storing(s) /\ s.pc # "migrate" /\ s.id = r.id
                    \/ s.pc = "open" /\ s.why = "override"
<1> DEFINE s == AfterSave(r, ok)
<1>1. r \in Proc /\ r.why \in {"createConfig", "createIdentity", "override", "setName", "init"}
  BY DEF ProcOK, Proc
<1>2. r.why # "createConfig" => r.id.key \in Keys
  BY DEF ProcOK, HasId
<1>3. CASE r.why = "createConfig"
  <2>1. s = [r EXCEPT !.pc = "identity", !.why = "nothing"]
    BY <1>3 DEF AfterSave
  <2>2. s \in Proc /\ s.pc = "identity"
    BY <1>1, <2>1 DEF Proc
  <2> QED BY <1>3, <2>2 DEF ProcOK, HasId, Storing, Saving
<1>4. CASE r.why = "createIdentity"
  <2>1. s = IF ok THEN Override(r) ELSE Off
    BY <1>4 DEF AfterSave
  <2> QED BY <1>1, <1>2, <1>4, <2>1, OffOK, OverrideOK DEF SavesConfig, Storing
<1>5. CASE r.why = "override"
  <2>1. s = [r EXCEPT !.pc = "openStore"]
    BY <1>5 DEF AfterSave
  <2>2. s \in Proc /\ s.pc = "openStore" /\ s.id = r.id /\ s.cfg = r.cfg
    BY <1>1, <2>1 DEF Proc
  <2> QED BY <1>2, <1>5, <2>2 DEF ProcOK, Saving, SavesConfig, Storing
<1>6. CASE r.why = "setName"
  <2>1. s = IF ok THEN [r EXCEPT !.pc = "renamed"] ELSE Off
    BY <1>6 DEF AfterSave
  <2> DEFINE t == [r EXCEPT !.pc = "renamed"]
  <2>2. t \in Proc /\ t.pc = "renamed" /\ t.id = r.id /\ t.cfg = r.cfg
    BY <1>1 DEF Proc
  <2> QED BY <1>2, <1>6, <2>1, <2>2, OffOK DEF ProcOK, Saving, SavesConfig, Storing
<1>7. CASE r.why = "init"
  <2>1. s = Off
    BY <1>7 DEF AfterSave
  <2> QED BY <1>7, <2>1, OffOK
<1> QED BY <1>1, <1>3, <1>4, <1>5, <1>6, <1>7

File(S) == [state : {"absent", "whole", "bad"}, data : S, size : Nat]

\* os.WriteFile: what it leaves of a file.
LEMMA WrittenOK ==
    ASSUME NEW S, NEW f \in File(S), NEW x \in S, x.name \in Names \cup {NoName}
    PROVE  /\ Opened(f) \in File(S) /\ Opened(f).state = "bad" /\ Opened(f).size = 0
           /\ Written(f, x) \in File(S) /\ Written(f, x).state \in {"whole", "bad"}
           /\ Written(f, x).state = "whole" => Written(f, x).data = x
           /\ f.size = 0 => Written(f, x).state = "whole"
<1>1. Length[x.name] \in Nat
  BY DataFilesAssumption
<1>2. Opened(f) \in File(S) /\ Opened(f).state = "bad" /\ Opened(f).size = 0
  BY DEF Opened, File
<1>3. CASE f.size > Length[x.name]
  BY <1>1, <1>2, <1>3 DEF Written, File
<1>4. CASE ~(f.size > Length[x.name])
  BY <1>1, <1>2, <1>4 DEF Written, File
<1> QED BY <1>3, <1>4

ConfigFile == [state : {"absent", "whole", "bad", "misleading"}, data : Configs, size : Nat]

LEMMA ConfigWritten ==
    ASSUME NEW f \in ConfigFile, NEW e \in Dirs \cup {NoDir}
    PROVE  /\ Opened(f) \in ConfigFile /\ Opened(f).state = "bad" /\ Opened(f).size = 0
           /\ Written(f, DefaultConfig(e)) \in ConfigFile
           /\ Written(f, DefaultConfig(e)).state \in {"whole", "bad"}
           /\ f.size = 0 => Written(f, DefaultConfig(e)) \in SavedDefaults
<1>1. PICK x : x = DefaultConfig(e)
  OBVIOUS
<1>2. x \in Configs /\ x \in [dir : Dirs, name : {NoName}] /\ x.name = NoName
  BY <1>1, DataFilesAssumption DEF DefaultConfig, Configs
<1>3. Length[NoName] \in Nat
  BY DataFilesAssumption
<1>4. Opened(f) \in ConfigFile /\ Opened(f).state = "bad" /\ Opened(f).size = 0
  BY DEF Opened, ConfigFile
<1>5. CASE f.size > Length[NoName]
  BY <1>1, <1>2, <1>3, <1>4, <1>5 DEF Written, ConfigFile
<1>6. CASE ~(f.size > Length[NoName])
  <2>1. Written(f, x) = [state |-> "whole", data |-> x, size |-> Length[NoName]]
    BY <1>2, <1>6 DEF Written
  <2> QED BY <1>1, <1>2, <1>3, <1>4, <2>1 DEF SavedDefaults, ConfigFile
<1> QED BY <1>5, <1>6

\* The step of one process.
LEMMA ProcMoves ==
    ASSUME TypeInv, NEW p \in Procs, NEW r, ProcOK(r), Goes(p, r)
    PROVE  /\ proc' \in [Procs -> Proc] /\ proc'[p] = r
           /\ \A q \in Procs : ProcOK(proc'[q]) /\ (q # p => proc'[q] = proc[q])
           /\ contended \subseteq contended' /\ contended' \subseteq Files
           /\ rivals \subseteq rivals' /\ rivals' \subseteq Dirs
<1>1. proc \in [Procs -> Proc] /\ contended \subseteq Files /\ rivals \subseteq Dirs
  BY DEF TypeInv, TypeOK, Proc
<1>2. r \in Proc /\ proc' = [proc EXCEPT ![p] = r]
  BY DEF ProcOK, Goes
<1>3. /\ contended \subseteq contended' /\ contended' \subseteq Files
      /\ rivals \subseteq rivals' /\ rivals' \subseteq Dirs
  BY <1>1 DEF Goes
<1>4. \A q \in Procs : ProcOK(proc[q])
  BY DEF TypeInv
<1> QED BY <1>1, <1>2, <1>3, <1>4

----------------------------------------------------------------------------
(* What a step of a process has to show.                                   *)

CountersOK == /\ keys \in 0..MaxKeys /\ starts \in 0..MaxStarts
              /\ edits \in 0..MaxEdits /\ faults \in 0..MaxFaults

\* What TypeOK says of the files.
FilesOK ==
    /\ config \in ConfigFile /\ ident \in [Dirs -> File(Identities)]
    /\ \A d \in Dirs : ident[d].state = "whole" => ident[d].data.key \in Keys
    /\ schema \subseteq Dirs /\ meta \in [Dirs -> [Keys -> Names \cup {NoName}]]

HistoryOK ==
    /\ wanted \subseteq [state : {"whole", "bad", "misleading"}, data : Configs, size : Nat]
    /\ known \in [Dirs -> SUBSET Keys] /\ broken \subseteq Files

LEMMA TypeParts ==
    ASSUME TypeInv
    PROVE  /\ FilesOK /\ CountersOK /\ HistoryOK
           /\ proc \in [Procs -> Proc]
           /\ \A p \in Procs : ProcOK(proc[p]) /\ proc[p] \in Proc /\ proc[p].cfg \in Configs
                               /\ proc[p].cfg.dir \in Dirs
BY DEF TypeInv, TypeOK, FilesOK, CountersOK, HistoryOK, File, ConfigFile, Proc, Configs

LEMMA TypeGoes ==
    ASSUME TypeInv, NEW p \in Procs, NEW r, ProcOK(r), Goes(p, r),
           FilesOK', CountersOK', HistoryOK'
    PROVE  TypeInv'
BY ProcMoves DEF TypeInv, TypeOK, FilesOK, CountersOK, HistoryOK, File, ConfigFile, Proc

\* Two processes at a file are noted.
LEMMA AloneGoes ==
    ASSUME TypeInv, AloneInv, NEW p \in Procs, NEW r, ProcOK(r), Goes(p, r)
    PROVE  AloneInv'
<1> SUFFICES ASSUME NEW f \in Files \ contended', NEW q \in Procs, NEW s \in Procs,
                    Busy(proc'[q], f), Busy(proc'[s], f), q # s
             PROVE  FALSE
  BY DEF AloneInv, Busy, Saving, Target, SavesConfig
<1>1. f \in Files \ contended
  BY ProcMoves
<1>2. \A u \in Procs \ {p} : ~(Busy(r, f) /\ Busy(proc[u], f))
  BY DEF Goes
<1>3. proc'[p] = r /\ \A u \in Procs \ {p} : proc'[u] = proc[u]
  BY ProcMoves
<1>4. CASE q = p
  BY <1>2, <1>3, <1>4
<1>5. CASE s = p
  BY <1>2, <1>3, <1>5
<1>6. CASE q # p /\ s # p
  BY <1>1, <1>3, <1>6 DEF AloneInv
<1> QED BY <1>4, <1>5, <1>6

\* A step that leaves the configuration file alone.
LEMMA ConfigGoes ==
    ASSUME TypeInv, ConfigInv, NEW p \in Procs, NEW r, ProcOK(r), Goes(p, r),
           config' = config, wanted' = wanted, broken \subseteq broken',
           CreatesConfig(r) => CreatesConfig(proc[p]) \/ NothingUsable, ~WritesConfig(r),
           Busy(proc[p], "config") => Busy(r, "config") \/ "config" \in broken'
    PROVE  ConfigInv'
<1>1. proc'[p] = r /\ \A q \in Procs : q # p => proc'[q] = proc[q]
  BY ProcMoves
<1>2. /\ config'.state = "absent" => wanted' = {}
      /\ config'.state = "misleading" => wanted' = {config'}
  BY DEF ConfigInv
<1>3. (NothingUsable' <=> NothingUsable) /\ (Kept' <=> Kept)
  BY DEF NothingUsable, Kept, SavedDefaults
<1>4. ASSUME "config" \notin broken' \cup contended'
      PROVE  /\ \A q \in Procs : CreatesConfig(proc'[q]) => NothingUsable'
             /\ \A q \in Procs : WritesConfig(proc'[q]) => config'.size = 0
             /\ wanted' # {} /\ (\A q \in Procs : ~Busy(proc'[q], "config")) => Kept'
  <2>1. "config" \notin broken \cup contended
    BY <1>4, ProcMoves
  <2>2. /\ \A q \in Procs : CreatesConfig(proc[q]) => NothingUsable
        /\ \A q \in Procs : WritesConfig(proc[q]) => config.size = 0
        /\ wanted # {} /\ (\A q \in Procs : ~Busy(proc[q], "config")) => Kept
    BY <2>1 DEF ConfigInv
  <2>3. \A q \in Procs : CreatesConfig(proc'[q]) => NothingUsable'
    BY <1>1, <1>3, <2>2
  <2>4. \A q \in Procs : WritesConfig(proc'[q]) => config'.size = 0
    BY <1>1, <2>2
  <2>5. (\A q \in Procs : ~Busy(proc'[q], "config")) => \A q \in Procs : ~Busy(proc[q], "config")
    BY <1>1, <1>4
  <2> QED BY <1>3, <2>2, <2>3, <2>4, <2>5
<1> QED BY <1>2, <1>4 DEF ConfigInv, CreatesConfig, WritesConfig, Busy, Saving, Target, SavesConfig

\* The part of DirOK that is about one process.
At(d, r) ==
    /\ ident[d].state = "bad" => Writing(r, d)
    /\ Writing(r, d) => ident[d].size = 0
    /\ Stores(r, d) => ident[d].state = "whole" /\ ident[d].data = r.id
    /\ Stores(r, d) /\ r.pc = "migrate" => d \notin schema
    /\ ~Busy(r, d) /\ ident[d].state = "whole" => meta[d][ident[d].data.key] = ident[d].data.name

LEMMA PartsAreBusy ==
    ASSUME NEW r \in Proc, NEW d \in Dirs
    PROVE  Writing(r, d) \/ Stores(r, d) => Busy(r, d)
BY BusyWith DEF Writing, Stores, Saving

\* The process that is busy with a directory is alone there.
LEMMA DirHas ==
    ASSUME TypeInv, AloneInv, DirInv, NEW d \in Dirs \ (broken \cup contended),
           NEW p \in Procs, Busy(proc[p], d)
    PROVE  At(d, proc[p])
<1>1. DirOK(d) /\ d \in Files \ contended
  BY DEF DirInv, Files
<1>2. \A q \in Procs : Busy(proc[q], d) => q = p
  BY <1>1 DEF AloneInv
<1>3. \A q \in Procs : Writing(proc[q], d) => Busy(proc[q], d)
  BY TypeParts, PartsAreBusy
<1> QED BY <1>1, <1>2, <1>3 DEF DirOK, At

\* A process at a directory answers for it alone ...
LEMMA DirMoves ==
    ASSUME TypeInv, AloneInv, NEW p \in Procs, NEW r, ProcOK(r), Goes(p, r),
           NEW d \in Dirs \ contended', Busy(proc[p], d) \/ Busy(r, d), At(d, r)'
    PROVE  DirOK(d)'
<1>1. proc'[p] = r /\ \A q \in Procs : ProcOK(proc'[q]) /\ (q # p => proc'[q] = proc[q])
  BY ProcMoves
<1>2. d \in Files \ contended
  BY ProcMoves DEF Files
<1>3. \A q \in Procs \ {p} : ~Busy(proc[q], d)
  <2>1. CASE Busy(proc[p], d)
    BY <1>2, <2>1 DEF AloneInv
  <2>2. CASE Busy(r, d)
    BY <1>2, <2>2 DEF Goes
  <2> QED BY <2>1, <2>2
<1>4. \A q \in Procs : q # p => ~Busy(proc'[q], d) /\ ~Writing(proc'[q], d) /\ ~Stores(proc'[q], d)
  BY <1>1, <1>3, PartsAreBusy DEF ProcOK
<1>5. /\ ident'[d].state = "bad" => Writing(r, d)
      /\ Writing(r, d) => ident'[d].size = 0
      /\ Stores(r, d) => ident'[d].state = "whole" /\ ident'[d].data = r.id
      /\ Stores(r, d) /\ r.pc = "migrate" => d \notin schema'
      /\ ~Busy(r, d) /\ ident'[d].state = "whole" => meta'[d][ident'[d].data.key] = ident'[d].data.name
  BY DEF At
<1>6. /\ ident'[d].state = "bad" => \E q \in Procs : Writing(proc'[q], d)
      /\ \A q \in Procs : Writing(proc'[q], d) => ident'[d].size = 0
      /\ \A q \in Procs : Stores(proc'[q], d) => ident'[d].state = "whole" /\ ident'[d].data = proc'[q].id
      /\ \A q \in Procs : Stores(proc'[q], d) /\ proc'[q].pc = "migrate" => d \notin schema'
      /\ (\A q \in Procs : ~Busy(proc'[q], d)) /\ ident'[d].state = "whole"
            => meta'[d][ident'[d].data.key] = ident'[d].data.name
  BY <1>1, <1>4, <1>5
<1> QED BY <1>6 DEF DirOK, Writing, Stores, Storing, Busy, Saving, Target, SavesConfig

\* ... and one that is elsewhere does not disturb it.
LEMMA DirFrame ==
    ASSUME TypeInv, DirInv, NEW p \in Procs, NEW r, ProcOK(r), Goes(p, r), broken \subseteq broken',
           NEW d \in Dirs \ (broken' \cup contended'), ~Busy(proc[p], d), ~Busy(r, d),
           ident'[d] = ident[d], meta'[d] = meta[d], d \in schema' <=> d \in schema
    PROVE  DirOK(d)'
<1>1. proc'[p] = r /\ \A q \in Procs : q # p => proc'[q] = proc[q]
  BY ProcMoves
<1>2. DirOK(d)
  BY ProcMoves DEF DirInv
<1>3. ~Writing(r, d) /\ ~Stores(r, d) /\ ~Writing(proc[p], d) /\ ~Stores(proc[p], d)
  BY PartsAreBusy, TypeParts DEF ProcOK
<1>4. /\ ident[d].state = "bad" => \E q \in Procs : Writing(proc'[q], d)
      /\ \A q \in Procs : Writing(proc'[q], d) => ident[d].size = 0
      /\ \A q \in Procs : Stores(proc'[q], d) => ident[d].state = "whole" /\ ident[d].data = proc'[q].id
      /\ \A q \in Procs : Stores(proc'[q], d) /\ proc'[q].pc = "migrate" => d \notin schema
      /\ (\A q \in Procs : ~Busy(proc'[q], d)) /\ ident[d].state = "whole"
            => meta[d][ident[d].data.key] = ident[d].data.name
  BY <1>1, <1>2, <1>3 DEF DirOK
<1> QED BY <1>4 DEF DirOK, Writing, Stores, Storing, Busy, Saving, Target, SavesConfig

\* A step that gives no process an identity it did not have, and leaves the
\* identity files alone.
LEMMA KeyGoes ==
    ASSUME TypeInv, KeyInv, NEW p \in Procs, NEW r, ProcOK(r), Goes(p, r),
           ident' = ident, known' = known,
           HasId(r) => /\ HasId(proc[p]) /\ r.cfg.dir = proc[p].cfg.dir /\ r.id.key = proc[p].id.key
                       /\ ~Creating(proc[p], r.cfg.dir) /\ ~Creating(r, r.cfg.dir)
    PROVE  KeyInv'
<1>1. proc'[p] = r /\ \A q \in Procs : q # p => proc'[q] = proc[q]
  BY ProcMoves
<1> SUFFICES ASSUME NEW d \in Dirs
             PROVE  FileKey(d)' /\ (d \notin rivals' => KeyOK(d)')
  BY DEF KeyInv
<1>2. FileKey(d)'
  BY DEF KeyInv, FileKey
<1>3. ASSUME d \notin rivals'
      PROVE  KeyOK(d)'
  <2>1. KeyOK(d)
    BY <1>3, ProcMoves DEF KeyInv
  <2>2. Creating(r, d) => HasId(r) /\ r.cfg.dir = d
    BY DEF Creating, HasId
  <2>3. ~Creating(r, d)
    BY <2>2
  <2>4. /\ \A j, k \in known[d] : j = k
        /\ \A q \in Procs : HasId(proc'[q]) /\ proc'[q].cfg.dir = d /\ ~Creating(proc'[q], d)
            => proc'[q].id.key \in known[d]
    BY <1>1, <2>1 DEF KeyOK
  <2>5. \A q \in Procs : Creating(proc'[q], d) =>
            /\ known[d] = {}
            /\ \A s \in Procs \ {q} : ~(HasId(proc'[s]) /\ proc'[s].cfg.dir = d)
            /\ proc'[q].pc = "write" => ident[d].size = 0
    BY <1>1, <2>1, <2>3 DEF KeyOK
  <2> QED BY <2>4, <2>5 DEF KeyOK, Creating, HasId, Storing, Saving
<1> QED BY <1>2, <1>3

----------------------------------------------------------------------------
(* The steps that leave the configuration and identity files alone.        *)

\* A process ends or has not read anything that it relies on: if it was busy
\* with a file, the history has the fault.
LEMMA RestStep ==
    ASSUME IInv, NEW p \in Procs, NEW r, r \in Proc, r.pc \in {"off", "config", "identity"},
           Goes(p, r), CountersOK', UNCHANGED <<fileVars, wanted, known>>,
           broken \subseteq broken', broken' \subseteq Files,
           \A f \in Files : Busy(proc[p], f) => f \in broken'
    PROVE  IInv'
<1>1. ProcOK(r) /\ ~HasId(r) /\ ~Saving(r) /\ \A f \in Files : ~Busy(r, f)
  BY DEF ProcOK, HasId, Storing, Saving, Busy
<1>2. TypeInv'
  <2>1. FilesOK' /\ HistoryOK'
    BY TypeParts DEF IInv, FilesOK, HistoryOK, fileVars
  <2> QED BY <1>1, <2>1, TypeGoes DEF IInv
<1>3. AloneInv'
  BY <1>1, AloneGoes DEF IInv
<1>4. ConfigInv'
  BY <1>1, ConfigGoes DEF IInv, fileVars, CreatesConfig, WritesConfig, Saving, Files
<1>5. DirInv'
  <2> SUFFICES ASSUME NEW d \in Dirs \ (broken' \cup contended')
               PROVE  DirOK(d)'
    BY DEF DirInv
  <2>1. ~Busy(proc[p], d) /\ ~Busy(r, d)
    BY <1>1 DEF Files
  <2> QED BY <1>1, <2>1, DirFrame DEF IInv, fileVars
<1>6. KeyInv'
  BY <1>1, KeyGoes DEF IInv, fileVars
<1> QED BY <1>2, <1>3, <1>4, <1>5, <1>6 DEF IInv

\* A process goes on at the database, or from there: it keeps its identity, and
\* answers for its directory.
LEMMA StoreStep ==
    ASSUME IInv, NEW p \in Procs, NEW r, ProcOK(r), Goes(p, r), Storing(proc[p]),
           UNCHANGED <<config, ident, wanted, known, broken>>, CountersOK',
           schema' \subseteq Dirs, meta' \in [Dirs -> [Keys -> Names \cup {NoName}]],
           ~CreatesConfig(r), r.pc # "write", r.why = "createIdentity" => ~Saving(r),
           HasId(r) => r.cfg = proc[p].cfg /\ r.id.key = proc[p].id.key,
           NEW e, e = proc[p].cfg.dir, e \notin broken \cup contended' => At(e, r)',
           \A d \in Dirs : d # e =>
               ~Busy(r, d) /\ meta'[d] = meta[d] /\ (d \in schema' <=> d \in schema)
    PROVE  IInv'
<1>1. proc[p] \in Proc /\ proc[p].cfg.dir \in Dirs /\ ~Saving(proc[p]) /\ HasId(proc[p])
  BY TypeParts DEF IInv, Storing, Saving, HasId
<1>2. /\ ~Busy(proc[p], "config")
      /\ \A d \in Dirs : Busy(proc[p], d) <=> d = proc[p].cfg.dir
  BY <1>1, BusyWith DEF Stores
<1>3. TypeInv'
  <2>1. FilesOK' /\ HistoryOK'
    BY TypeParts DEF IInv, FilesOK, HistoryOK
  <2> QED BY <2>1, TypeGoes DEF IInv
<1>4. AloneInv'
  BY AloneGoes DEF IInv
<1>5. ConfigInv'
  BY <1>2, ConfigGoes DEF IInv, WritesConfig
<1>6. DirInv'
  <2> SUFFICES ASSUME NEW d \in Dirs \ (broken' \cup contended')
               PROVE  DirOK(d)'
    BY DEF DirInv
  <2>1. CASE d = proc[p].cfg.dir
    <3>1. d = e /\ Busy(proc[p], d)
      BY <1>2, <2>1
    <3>2. At(d, r)'
      BY <3>1
    <3> QED BY <3>1, <3>2, DirMoves DEF IInv
  <2>2. CASE d # proc[p].cfg.dir
    <3>1. /\ ~Busy(proc[p], d) /\ ~Busy(r, d) /\ meta'[d] = meta[d] /\ (d \in schema' <=> d \in schema)
          /\ ident'[d] = ident[d] /\ broken \subseteq broken'
      BY <1>2, <2>2
    <3> QED BY <3>1, DirFrame DEF IInv
  <2> QED BY <2>1, <2>2
<1>7. KeyInv'
  <2>1. ~Creating(proc[p], r.cfg.dir) /\ ~Creating(r, r.cfg.dir)
    BY <1>1 DEF Creating
  <2> QED BY <1>1, <2>1, KeyGoes DEF IInv
<1> QED BY <1>3, <1>4, <1>5, <1>6, <1>7 DEF IInv

LEMMA StartStep ==
    ASSUME IInv, NEW p \in Procs, NEW c \in Commands, StartProc(p, c)
    PROVE  IInv'
<1> DEFINE s == [Off EXCEPT !.pc = "config", !.cmd = c.cmd, !.name = c.name, !.env = c.env,
                            !.cfg = DefaultConfig(c.env)]
<1>1. /\ c.cmd \in {"tui", "set-name", "init"} /\ c.name \in Names \cup {NoName}
      /\ c.env \in Dirs \cup {NoDir}
  BY DataFilesAssumption
<1>2. DefaultConfig(c.env) \in Configs
  BY <1>1, DataFilesAssumption DEF DefaultConfig, Configs
<1>3. s \in Proc /\ s.pc = "config"
  BY <1>1, <1>2, OffOK DEF ProcOK, Proc
<1>4. Goes(p, s)
  BY DEF StartProc
<1> HIDE DEF s
<1>5. CountersOK'
  BY TypeParts, DataFilesAssumption DEF IInv, CountersOK, StartProc
<1>6. \A f \in Files : ~Busy(proc[p], f)
  BY DEF StartProc, Busy, Saving
<1>7. UNCHANGED <<fileVars, wanted, known, broken>> /\ broken \subseteq Files
  BY TypeParts DEF IInv, StartProc, HistoryOK
<1>8. PICK r : r = s
  OBVIOUS
<1> QED BY <1>3, <1>4, <1>5, <1>6, <1>7, <1>8, RestStep

LEMMA LoadConfigStep ==
    ASSUME IInv, NEW p \in Procs, LoadOrCreateConfig(p)
    PROVE  IInv'
<1>1. PICK r : r = proc[p]
  OBVIOUS
<1>2. r \in Proc /\ ProcOK(r) /\ r.pc = "config" /\ r.env \in Dirs \cup {NoDir}
  BY <1>1, TypeParts DEF IInv, LoadOrCreateConfig, Proc
<1>3. ~Saving(r) /\ ~HasId(r) /\ \A f \in Files : ~Busy(r, f)
  BY <1>2 DEF Busy, Saving, HasId, Storing
<1>4. /\ UNCHANGED <<fileVars, counters, wanted, known, broken>> /\ broken \subseteq Files
      /\ CountersOK' /\ FilesOK' /\ HistoryOK'
  BY TypeParts DEF IInv, LoadOrCreateConfig, HistoryOK, FilesOK, CountersOK, counters, fileVars
<1>5. CASE config.state = "whole"
  <2>1. PICK c : c = [config.data EXCEPT !.dir = IF r.env = NoDir THEN @ ELSE r.env]
    OBVIOUS
  <2>2. config.data \in Configs
    BY TypeParts DEF IInv, FilesOK, ConfigFile
  <2>3. c \in Configs
    BY <1>2, <2>1, <2>2 DEF Configs
  <2>4. PICK s : s = [r EXCEPT !.pc = "identity", !.cfg = c]
    OBVIOUS
  <2>5. Goes(p, s)
    BY <1>1, <1>5, <2>1, <2>4 DEF LoadOrCreateConfig
  <2>6. s \in Proc /\ s.pc = "identity"
    BY <1>2, <2>3, <2>4 DEF Proc
  <2> QED BY <1>1, <1>3, <1>4, <2>5, <2>6, RestStep
<1>6. CASE config.state = "bad"
  <2>1. PICK s : s = [r EXCEPT !.pc = "identity"]
    OBVIOUS
  <2>2. Goes(p, s)
    BY <1>1, <1>6, <2>1 DEF LoadOrCreateConfig
  <2>3. s \in Proc /\ s.pc = "identity"
    BY <1>2, <2>1 DEF Proc
  <2> QED BY <1>1, <1>3, <1>4, <2>2, <2>3, RestStep
<1>7. CASE config.state \in {"absent", "misleading"}
  <2>1. PICK s : s = [r EXCEPT !.pc = "open", !.why = "createConfig"]
    OBVIOUS
  <2>2. Goes(p, s)
    BY <1>1, <1>7, <2>1 DEF LoadOrCreateConfig
  <2>3. s \in Proc /\ s.pc = "open" /\ s.why = "createConfig"
    BY <1>2, <2>1 DEF Proc
  <2>4. ProcOK(s) /\ ~HasId(s)
    BY <2>3 DEF ProcOK, HasId, Storing, Saving
  <2>5. \A d \in Dirs : ~Busy(s, d)
    BY <2>3, BusyWith DEF SavesConfig, Stores, Storing
  <2>6. NothingUsable /\ ~WritesConfig(s)
    BY <1>7, <2>3 DEF IInv, ConfigInv, NothingUsable, WritesConfig
  <2>7. TypeInv' /\ AloneInv'
    BY <1>4, <2>2, <2>4, TypeGoes, AloneGoes DEF IInv
  <2>8. ConfigInv'
    BY <1>1, <1>3, <1>4, <2>2, <2>4, <2>6, ConfigGoes DEF IInv, fileVars, Files
  <2>9. DirInv'
    <3> SUFFICES ASSUME NEW d \in Dirs \ (broken' \cup contended')
                 PROVE  DirOK(d)'
      BY DEF DirInv
    <3>1. ~Busy(proc[p], d) /\ ~Busy(s, d)
      BY <1>1, <1>3, <2>5 DEF Files
    <3> QED BY <1>4, <2>2, <2>4, <3>1, DirFrame DEF IInv, fileVars
  <2>10. KeyInv'
    BY <1>4, <2>2, <2>4, KeyGoes DEF IInv, fileVars
  <2> QED BY <2>7, <2>8, <2>9, <2>10 DEF IInv
<1> QED BY <1>5, <1>6, <1>7 DEF LoadOrCreateConfig

\* Where the process is at the database.
LEMMA StoreStart ==
    ASSUME IInv, NEW p \in Procs, NEW r, r = proc[p], Storing(r)
    PROVE  /\ r \in Proc /\ ProcOK(r) /\ r.cfg.dir \in Dirs /\ r.id.key \in Keys
           /\ r.id \in Identities /\ r.id.name \in Names \cup {NoName}
           /\ r.name \in Names \cup {NoName}
           /\ \A f \in Files : Busy(r, f) <=> f = r.cfg.dir
           /\ r.cfg.dir \notin broken \cup contended => At(r.cfg.dir, r)
<1>1. /\ r \in Proc /\ ProcOK(r) /\ r.cfg.dir \in Dirs /\ r.id.key \in Keys /\ r.id \in Identities
      /\ r.name \in Names \cup {NoName}
  BY TypeParts DEF IInv, ProcOK, HasId, Proc
<1>2. \A f \in Files : Busy(r, f) <=> f = r.cfg.dir
  BY DEF Storing, Busy, Saving
<1>3. r.cfg.dir \notin broken \cup contended => At(r.cfg.dir, r)
  BY <1>1, <1>2, DirHas DEF IInv, Files
<1> QED BY <1>1, <1>2, <1>3 DEF Identities

LEMMA ReadVersionStep ==
    ASSUME IInv, NEW p \in Procs, ReadVersion(p)
    PROVE  IInv'
<1>1. PICK r : r = proc[p]
  OBVIOUS
<1>2. r.pc = "openStore" /\ Storing(r)
  BY <1>1 DEF ReadVersion, Storing
<1>3. PICK e : e = r.cfg.dir
  OBVIOUS
<1>4. PICK s : s = [r EXCEPT !.pc = IF e \in schema THEN "metadata" ELSE "migrate"]
  OBVIOUS
<1>5. Goes(p, s)
  BY <1>1, <1>3, <1>4 DEF ReadVersion
<1>6. /\ s \in Proc /\ s.pc = (IF e \in schema THEN "metadata" ELSE "migrate")
      /\ s.cfg = r.cfg /\ s.id = r.id
  BY <1>1, <1>2, <1>4, StoreStart DEF Proc
<1>7. Storing(s) /\ ~Saving(s) /\ ProcOK(s)
  BY <1>1, <1>2, <1>6, StoreStart DEF Storing, Saving, ProcOK
<1>8. /\ UNCHANGED <<fileVars, counters, wanted, known, broken>> /\ CountersOK' /\ FilesOK
  BY TypeParts DEF IInv, ReadVersion, CountersOK, counters
<1>9. \A d \in Dirs : Busy(s, d) <=> d = e
  BY <1>3, <1>6, <1>7, BusyWith DEF Stores
<1>10. e \notin broken \cup contended' => At(e, s)'
  <2>1. ASSUME e \notin broken \cup contended'
        PROVE  At(e, s)'
    <3>1. At(e, r) /\ e \in Dirs
      BY <1>1, <1>2, <1>3, <1>5, <1>7, <2>1, StoreStart, ProcMoves DEF IInv
    <3>2. ~Writing(r, e) /\ ~Writing(s, e) /\ Stores(r, e) /\ Stores(s, e)
      BY <1>2, <1>3, <1>6, <1>7 DEF Writing, Stores, Storing
    <3>3. ident' = ident /\ schema' = schema /\ (s.pc = "migrate" => e \notin schema)
      BY <1>6, <1>8 DEF fileVars
    <3> QED BY <1>6, <1>9, <3>1, <3>2, <3>3 DEF At
  <2> QED BY <2>1
<1> QED BY <1>1, <1>2, <1>3, <1>5, <1>6, <1>7, <1>8, <1>9, <1>10, StoreStep DEF fileVars, CreatesConfig, FilesOK

LEMMA MigrateStep ==
    ASSUME IInv, NEW p \in Procs, ApplyMigration(p)
    PROVE  IInv'
<1>1. PICK r : r = proc[p]
  OBVIOUS
<1>2. r.pc = "migrate" /\ Storing(r)
  BY <1>1 DEF ApplyMigration, Storing
<1>3. PICK e : e = r.cfg.dir
  OBVIOUS
<1>4. PICK s : s = IF e \in schema THEN Off ELSE [r EXCEPT !.pc = "metadata"]
  OBVIOUS
<1>5. Goes(p, s) /\ schema' = schema \cup {e} /\ e \in Dirs
  BY <1>1, <1>2, <1>3, <1>4, StoreStart DEF ApplyMigration
<1>6. /\ UNCHANGED <<config, ident, meta, counters, wanted, known, broken>> /\ CountersOK' /\ FilesOK
  BY TypeParts DEF IInv, ApplyMigration, CountersOK, counters
<1>7. \/ s = Off /\ e \in schema
      \/ /\ e \notin schema /\ s \in Proc /\ s.pc = "metadata" /\ s.cfg = r.cfg /\ s.id = r.id
  BY <1>1, <1>2, <1>4, StoreStart DEF Proc
<1>8. s \in Proc /\ ProcOK(s) /\ ~Saving(s) /\ (HasId(s) => s.cfg = r.cfg /\ s.id = r.id)
  <2>1. CASE s = Off
    BY <2>1, OffOK DEF ProcOK, Saving, HasId, Storing, Off
  <2>2. CASE s # Off
    BY <1>1, <1>2, <1>7, <2>2, StoreStart DEF Storing, Saving, ProcOK
  <2> QED BY <2>1, <2>2
<1>9. \A d \in Dirs : Busy(s, d) => d = e
  BY <1>3, <1>8, BusyWith DEF Stores, HasId
<1>10. e \notin broken \cup contended' => At(e, s)'
  <2>1. ASSUME e \notin broken \cup contended'
        PROVE  At(e, s)'
    <3>1. At(e, r)
      BY <1>1, <1>2, <1>3, <1>5, <1>8, <2>1, StoreStart, ProcMoves DEF IInv
    <3>2. ~Writing(r, e) /\ Stores(r, e)
      BY <1>2, <1>3 DEF Writing, Stores
    <3>3. e \notin schema
      BY <1>2, <3>1, <3>2 DEF At
    <3>4. s.pc = "metadata" /\ s.id = r.id /\ Stores(s, e)
      BY <1>3, <1>7, <3>3 DEF Stores, Storing
    <3>5. Busy(s, e) /\ ~Writing(s, e)
      BY <1>5, <1>8, <3>4, BusyWith DEF Writing
    <3> QED BY <1>6, <3>1, <3>2, <3>4, <3>5 DEF At
  <2> QED BY <2>1
<1>11. s.pc # "write"
  BY <1>8 DEF Saving
<1> QED BY <1>1, <1>2, <1>3, <1>5, <1>6, <1>8, <1>9, <1>10, <1>11, StoreStep DEF CreatesConfig, FilesOK

\* The row of key k of directory e.
LEMMA MetaMoves ==
    ASSUME FilesOK, NEW e \in Dirs, NEW k \in Keys, NEW n \in Names \cup {NoName},
           meta' = [meta EXCEPT ![e][k] = n]
    PROVE  /\ meta' \in [Dirs -> [Keys -> Names \cup {NoName}]] /\ meta'[e][k] = n
           /\ \A d \in Dirs : d # e => meta'[d] = meta[d]
<1> DEFINE R == [meta[e] EXCEPT ![k] = n]
<1>1. meta \in [Dirs -> [Keys -> Names \cup {NoName}]]
  BY DEF FilesOK
<1>2. R \in [Keys -> Names \cup {NoName}] /\ R[k] = n
  BY <1>1
<1>3. meta' = [meta EXCEPT ![e] = R]
  OBVIOUS
<1> HIDE DEF R
<1> QED BY <1>1, <1>2, <1>3

LEMMA UpsertStep ==
    ASSUME IInv, NEW p \in Procs, UpsertMetadata(p)
    PROVE  IInv'
<1>1. PICK r : r = proc[p]
  OBVIOUS
<1>2. r.pc = "metadata" /\ Storing(r) /\ r.cmd \in {"tui", "set-name", "init"}
  BY <1>1, TypeParts DEF IInv, UpsertMetadata, Storing, Proc
<1>3. PICK e : e = r.cfg.dir
  OBVIOUS
<1>4. PICK s : s = CASE r.cmd = "tui"      -> [r EXCEPT !.pc = "running"]
                     [] r.cmd = "set-name" -> [r EXCEPT !.id.name = r.name, !.pc = "open", !.why = "setName"]
                     [] r.cmd = "init"     -> [r EXCEPT !.pc = "open", !.why = "init"]
  OBVIOUS
<1>5. Goes(p, s) /\ meta' = [meta EXCEPT ![e][r.id.key] = r.id.name] /\ e \in Dirs
  BY <1>1, <1>2, <1>3, <1>4, StoreStart DEF UpsertMetadata
<1>5a. /\ r \in Proc /\ e \in Dirs /\ r.id \in Identities /\ r.id.key \in Keys
      /\ r.id.name \in Names \cup {NoName} /\ r.name \in Names \cup {NoName}
  BY <1>1, <1>2, <1>3, StoreStart
<1>6. /\ UNCHANGED <<config, ident, schema, counters, wanted, known, broken>> /\ CountersOK' /\ FilesOK
  BY TypeParts DEF IInv, UpsertMetadata, CountersOK, counters
<1>7. /\ meta' \in [Dirs -> [Keys -> Names \cup {NoName}]] /\ meta'[e][r.id.key] = r.id.name
      /\ \A d \in Dirs : d # e => meta'[d] = meta[d]
  BY <1>5, <1>6, <1>5a, MetaMoves
<1>8. /\ s \in Proc /\ s.cfg = r.cfg /\ s.id.key = r.id.key
      /\ \/ s.pc = "running"
         \/ s.pc = "open" /\ s.why \in {"setName", "init"}
  <2>1. CASE r.cmd = "tui"
    <3>1. s = [r EXCEPT !.pc = "running"]
      BY <1>4, <2>1
    <3> QED BY <1>5a, <3>1 DEF Proc
  <2>2. CASE r.cmd = "set-name"
    <3>1. PICK i : i = [r.id EXCEPT !.name = r.name]
      OBVIOUS
    <3>2. i \in Identities /\ i.key = r.id.key
      BY <1>5a, <3>1 DEF Identities
    <3>3. s = [r EXCEPT !.id = i, !.pc = "open", !.why = "setName"]
      BY <1>4, <2>2, <3>1
    <3> QED BY <1>5a, <3>2, <3>3 DEF Proc
  <2>3. CASE r.cmd = "init"
    <3>1. s = [r EXCEPT !.pc = "open", !.why = "init"]
      BY <1>4, <2>3
    <3> QED BY <1>5a, <3>1 DEF Proc
  <2> QED BY <1>2, <2>1, <2>2, <2>3
<1>9. ProcOK(s) /\ ~Storing(s) /\ ~CreatesConfig(s) /\ (s.why = "createIdentity" => ~Saving(s))
  BY <1>1, <1>2, <1>8, StoreStart DEF ProcOK, Storing, Saving, CreatesConfig
<1>10. \A d \in Dirs : Busy(s, d) => d = e
  BY <1>3, <1>8, <1>9, BusyWith DEF Stores
<1>11. e \notin broken \cup contended' => At(e, s)'
  <2>1. ASSUME e \notin broken \cup contended'
        PROVE  At(e, s)'
    <3>1. At(e, r)
      BY <1>1, <1>2, <1>3, <1>5, <1>9, <2>1, StoreStart, ProcMoves DEF IInv
    <3>2. Stores(r, e) /\ ~Writing(s, e) /\ ~Stores(s, e)
      BY <1>2, <1>3, <1>8, <1>9 DEF Writing, Stores
    <3>3. ident'[e].state = "whole" /\ ident'[e].data = r.id
      BY <1>6, <3>1, <3>2 DEF At
    <3> QED BY <1>7, <3>2, <3>3 DEF At
  <2> QED BY <2>1
<1> QED BY <1>1, <1>2, <1>3, <1>5, <1>6, <1>7, <1>8, <1>9, <1>10, <1>11, StoreStep DEF FilesOK

LEMMA RenameStep ==
    ASSUME IInv, NEW p \in Procs, RenameMetadata(p)
    PROVE  IInv'
<1>1. PICK r : r = proc[p]
  OBVIOUS
<1>2. r.pc = "renamed" /\ Storing(r)
  BY <1>1 DEF RenameMetadata, Storing
<1>3. PICK e : e = r.cfg.dir
  OBVIOUS
<1>4. Goes(p, Off) /\ meta' = [meta EXCEPT ![e][r.id.key] = r.id.name] /\ e \in Dirs
  BY <1>1, <1>2, <1>3, StoreStart DEF RenameMetadata
<1>4a. /\ r \in Proc /\ e \in Dirs /\ r.id \in Identities /\ r.id.key \in Keys
      /\ r.id.name \in Names \cup {NoName} /\ r.name \in Names \cup {NoName}
  BY <1>1, <1>2, <1>3, StoreStart
<1>5. /\ UNCHANGED <<config, ident, schema, counters, wanted, known, broken>> /\ CountersOK' /\ FilesOK
  BY TypeParts DEF IInv, RenameMetadata, CountersOK, counters
<1>6. /\ meta' \in [Dirs -> [Keys -> Names \cup {NoName}]] /\ meta'[e][r.id.key] = r.id.name
      /\ \A d \in Dirs : d # e => meta'[d] = meta[d]
  BY <1>4, <1>5, <1>4a, MetaMoves
<1>7. ProcOK(Off) /\ ~Storing(Off) /\ ~Saving(Off) /\ ~HasId(Off) /\ \A f \in Files : ~Busy(Off, f)
  BY OffOK DEF Storing, Saving, HasId, Off
<1>8. e \notin broken \cup contended' => At(e, Off)'
  <2>1. ASSUME e \notin broken \cup contended'
        PROVE  At(e, Off)'
    <3>1. At(e, r)
      BY <1>1, <1>2, <1>3, <1>4, <1>7, <2>1, StoreStart, ProcMoves DEF IInv
    <3>2. Stores(r, e) /\ ~Writing(Off, e) /\ ~Stores(Off, e)
      BY <1>2, <1>3, <1>7 DEF Writing, Stores, Saving
    <3>3. ident'[e].state = "whole" /\ ident'[e].data = r.id
      BY <1>5, <3>1, <3>2 DEF At
    <3> QED BY <1>6, <3>2, <3>3 DEF At
  <2> QED BY <2>1
<1>9. PICK s : s = Off
  OBVIOUS
<1>10. /\ ~CreatesConfig(s) /\ (s.why = "createIdentity" => ~Saving(s)) /\ ~HasId(s) /\ ProcOK(s)
       /\ Goes(p, s) /\ (e \notin broken \cup contended' => At(e, s)')
  BY <1>4, <1>7, <1>8, <1>9 DEF CreatesConfig
<1>11. \A d \in Dirs : d # e => ~Busy(s, d) /\ meta'[d] = meta[d] /\ (d \in schema' <=> d \in schema)
  BY <1>5, <1>6, <1>7, <1>9 DEF Files
<1>12. schema' \subseteq Dirs
  BY <1>5 DEF FilesOK
<1>13. s.pc # "write"
  BY <1>9 DEF Off
<1> QED BY <1>1, <1>2, <1>3, <1>5, <1>6, <1>10, <1>11, <1>12, <1>13, StoreStep

\* The end of a process.
LEMMA OffRests == Off \in Proc /\ Off.pc \in {"off", "config", "identity"}
BY OffOK DEF ProcOK, Off

LEMMA MetadataFailsStep ==
    ASSUME IInv, NEW p \in Procs, MetadataFails(p)
    PROVE  IInv'
<1>1. CountersOK' /\ broken \subseteq Files
  BY TypeParts, DataFilesAssumption DEF IInv, CountersOK, MetadataFails, HistoryOK
<1>2. proc[p].cfg.dir \in Dirs /\ broken' = broken \cup {proc[p].cfg.dir}
  BY TypeParts DEF IInv, MetadataFails
<1>3. \A f \in Files : Busy(proc[p], f) => f \in broken'
  BY <1>2 DEF MetadataFails, Busy, Saving
<1> QED BY <1>1, <1>2, <1>3, OffRests, RestStep DEF MetadataFails, Files

LEMMA QuitStep ==
    ASSUME IInv, NEW p \in Procs, Quit(p)
    PROVE  IInv'
<1>1. CountersOK' /\ broken \subseteq Files /\ broken' = broken
  BY TypeParts DEF IInv, CountersOK, Quit, HistoryOK, counters
<1>2. \A f \in Files : ~Busy(proc[p], f)
  BY DEF Quit, Busy, Saving
<1> QED BY <1>1, <1>2, OffRests, RestStep DEF Quit

LEMMA KillStep ==
    ASSUME IInv, NEW p \in Procs, Kill(p)
    PROVE  IInv'
<1>1. CountersOK' /\ broken \subseteq Files
  BY TypeParts, DataFilesAssumption DEF IInv, CountersOK, Kill, HistoryOK
<1>2. broken' = broken \cup {f \in Files : Busy(proc[p], f)}
  BY DEF Kill
<1> QED BY <1>1, <1>2, OffRests, RestStep DEF Kill

LEMMA SaveFailsStep ==
    ASSUME IInv, NEW p \in Procs, SaveFails(p)
    PROVE  IInv'
<1>1. PICK r : r = proc[p]
  OBVIOUS
<1>2. r \in Proc /\ ProcOK(r) /\ Saving(r) /\ r.cfg.dir \in Dirs
  BY <1>1, TypeParts DEF IInv, SaveFails
<1>3. PICK s : s = AfterSave(r, FALSE)
  OBVIOUS
<1>4. /\ Goes(p, s) /\ broken' = broken \cup {Target(r)}
      /\ UNCHANGED <<fileVars, keys, starts, edits, wanted, known>>
  BY <1>1, <1>3 DEF SaveFails
<1>5. Target(r) \in Files /\ \A f \in Files : Busy(r, f) <=> f = Target(r)
  BY <1>2 DEF Target, Files, Busy, Saving
<1>6. CountersOK' /\ FilesOK' /\ HistoryOK'
  BY <1>4, <1>5, TypeParts, DataFilesAssumption DEF IInv, CountersOK, SaveFails, HistoryOK, FilesOK, fileVars
<1>7. ProcOK(s)
  BY <1>2, <1>3, AfterSaveOK
<1>8. CASE s.pc \in {"off", "config", "identity"}
  BY <1>1, <1>4, <1>5, <1>6, <1>7, <1>8, RestStep DEF ProcOK, HistoryOK
<1>9. CASE s.pc \notin {"off", "config", "identity"}
  <2>1. /\ ~SavesConfig(r) /\ s.cfg = r.cfg /\ s.id.key = r.id.key /\ r.why # "createIdentity"
        /\ Storing(s) \/ (s.pc = "open" /\ s.why = "override")
    BY <1>2, <1>3, <1>9, AfterSaveOK, OffRests
  <2>2. /\ HasId(r) /\ ~Creating(r, r.cfg.dir) /\ ~Creating(s, s.cfg.dir) /\ ~CreatesConfig(s)
        /\ Target(r) = r.cfg.dir
    BY <1>2, <2>1 DEF HasId, Creating, CreatesConfig, SavesConfig, Storing, Saving, Target
  <2>3. TypeInv' /\ AloneInv'
    BY <1>4, <1>6, <1>7, TypeGoes, AloneGoes DEF IInv
  <2>4. ConfigInv'
    <3>1. ~Busy(proc[p], "config")
      BY <1>1, <1>2, <2>1, BusyWith
    <3>2. ~WritesConfig(s)
      BY <2>1 DEF WritesConfig, Storing
    <3> QED BY <1>4, <1>7, <2>2, <3>1, <3>2, ConfigGoes DEF IInv, fileVars
  <2>5. DirInv'
    <3> SUFFICES ASSUME NEW d \in Dirs \ (broken' \cup contended')
                 PROVE  DirOK(d)'
      BY DEF DirInv
    <3>1. d # r.cfg.dir
      BY <1>4, <2>2
    <3>2. ~Busy(proc[p], d) /\ ~Busy(s, d)
      BY <1>1, <1>2, <1>7, <2>1, <3>1, BusyWith DEF Stores, ProcOK
    <3> QED BY <1>4, <1>7, <3>2, DirFrame DEF IInv, fileVars
  <2>6. KeyInv'
    BY <1>1, <1>4, <1>7, <2>1, <2>2, KeyGoes DEF IInv, fileVars
  <2> QED BY <2>3, <2>4, <2>5, <2>6 DEF IInv
<1> QED BY <1>8, <1>9

----------------------------------------------------------------------------
(* The steps that read or write an identity.                               *)

HasIdAt(r, d) == HasId(r) /\ r.cfg.dir = d

\* A directory at which the process has no identity, before and after.
LEMMA KeyFrame ==
    ASSUME TypeInv, KeyInv, NEW p \in Procs, NEW r, ProcOK(r), Goes(p, r), NEW d \in Dirs,
           ~HasIdAt(proc[p], d), ~HasIdAt(r, d), ident'[d] = ident[d], known'[d] = known[d]
    PROVE  FileKey(d)' /\ (d \notin rivals' => KeyOK(d)')
<1>1. proc'[p] = r /\ \A q \in Procs : q # p => proc'[q] = proc[q]
  BY ProcMoves
<1>2. FileKey(d)'
  BY DEF KeyInv, FileKey
<1>3. ASSUME d \notin rivals'
      PROVE  KeyOK(d)'
  <2>1. KeyOK(d)
    BY <1>3, ProcMoves DEF KeyInv
  <2>2. ~Creating(r, d)
    BY DEF Creating, HasIdAt, HasId
  <2>3. /\ \A j, k \in known[d] : j = k
        /\ \A q \in Procs : HasId(proc'[q]) /\ proc'[q].cfg.dir = d /\ ~Creating(proc'[q], d)
            => proc'[q].id.key \in known[d]
        /\ \A q \in Procs : Creating(proc'[q], d) =>
            /\ known[d] = {}
            /\ \A s \in Procs \ {q} : ~(HasId(proc'[s]) /\ proc'[s].cfg.dir = d)
            /\ proc'[q].pc = "write" => ident[d].size = 0
    BY <1>1, <2>1, <2>2 DEF KeyOK, HasIdAt
  <2> QED BY <2>3 DEF KeyOK, Creating, HasId, Storing, Saving
<1> QED BY <1>2, <1>3

\* The directory of a process with an identity, if nobody else creates one there.
LEMMA KeyMoves ==
    ASSUME TypeInv, NEW p \in Procs, NEW r, ProcOK(r), Goes(p, r), NEW d \in Dirs,
           \A j, k \in known'[d] : j = k,
           \A q \in Procs \ {p} : ~Creating(proc[q], d),
           \A q \in Procs \ {p} : HasIdAt(proc[q], d) => proc[q].id.key \in known'[d],
           HasIdAt(r, d) /\ ~Creating(r, d) => r.id.key \in known'[d],
           Creating(r, d) => /\ known'[d] = {} /\ (r.pc = "write" => ident'[d].size = 0)
                             /\ \A q \in Procs \ {p} : ~HasIdAt(proc[q], d)
    PROVE  KeyOK(d)'
<1>1. proc'[p] = r /\ \A q \in Procs : q # p => proc'[q] = proc[q]
  BY ProcMoves
<1>2. /\ \A q \in Procs : HasId(proc'[q]) /\ proc'[q].cfg.dir = d /\ ~Creating(proc'[q], d)
            => proc'[q].id.key \in known'[d]
      /\ \A q \in Procs : Creating(proc'[q], d) =>
            /\ known'[d] = {}
            /\ \A s \in Procs \ {q} : ~(HasId(proc'[s]) /\ proc'[s].cfg.dir = d)
            /\ proc'[q].pc = "write" => ident'[d].size = 0
  BY <1>1 DEF HasIdAt
<1> QED BY <1>2 DEF KeyOK, Creating, HasId, Storing, Saving

\* What KeyOK says to a process with an identity at d.
LEMMA KeyHas ==
    ASSUME KeyInv, NEW d \in Dirs \ rivals, NEW p \in Procs, HasIdAt(proc[p], d)
    PROVE  /\ \A j, k \in known[d] : j = k
           /\ \A q \in Procs \ {p} : ~Creating(proc[q], d)
           /\ \A q \in Procs \ {p} : HasIdAt(proc[q], d) => proc[q].id.key \in known[d]
           /\ ~Creating(proc[p], d) => proc[p].id.key \in known[d]
           /\ Creating(proc[p], d) => /\ known[d] = {} /\ \A q \in Procs \ {p} : ~HasIdAt(proc[q], d)
                                      /\ proc[p].pc = "write" => ident[d].size = 0
<1>1. KeyOK(d)
  BY DEF KeyInv
<1> QED BY <1>1 DEF KeyOK, HasIdAt

LEMMA LoadIdentityStep ==
    ASSUME IInv, NEW p \in Procs, LoadOrCreateIdentity(p)
    PROVE  IInv'
<1>1. PICK r : r = proc[p]
  OBVIOUS
<1>2. r \in Proc /\ ProcOK(r) /\ r.pc = "identity" /\ r.cfg.dir \in Dirs
  BY <1>1, TypeParts DEF IInv, LoadOrCreateIdentity
<1>3. ~Saving(r) /\ ~HasId(r) /\ \A f \in Files : ~Busy(r, f)
  BY <1>2 DEF Busy, Saving, HasId, Storing
<1>4. PICK e : e = r.cfg.dir
  OBVIOUS
<1>5. /\ UNCHANGED <<fileVars, starts, edits, faults, wanted, known, broken>>
      /\ FilesOK /\ HistoryOK /\ FilesOK' /\ HistoryOK' /\ broken \subseteq Files /\ e \in Dirs
  BY <1>2, <1>4, TypeParts DEF IInv, LoadOrCreateIdentity, HistoryOK, FilesOK, fileVars
<1>6. CASE ident[e].state = "bad"
  <2>1. Goes(p, Off) /\ keys' = keys
    BY <1>1, <1>4, <1>6 DEF LoadOrCreateIdentity
  <2>2. CountersOK'
    BY <1>5, <2>1, TypeParts DEF IInv, CountersOK
  <2> QED BY <1>1, <1>3, <1>5, <2>1, <2>2, OffRests, RestStep
\* A process that gets an identity there is busy with nothing else.
<1>7. ASSUME NEW s, ProcOK(s), Goes(p, s), CountersOK', s.cfg.dir = e,
             s.pc \in {"open", "openStore"}, s.why = "createConfig" => s.pc = "openStore",
             s.pc = "open" => s.why # "init",
             ident[e].state # "bad",
             s.pc = "openStore" => ident[e].state = "whole" /\ ident[e].data = s.id,
             e \notin rivals' => KeyOK(e)'
      PROVE  IInv'
  <2>1. TypeInv' /\ AloneInv'
    BY <1>5, <1>7, TypeGoes, AloneGoes DEF IInv
  <2>2. s \in Proc /\ ~CreatesConfig(s) /\ ~WritesConfig(s)
    BY <1>7 DEF ProcOK, CreatesConfig, WritesConfig, SavesConfig, Saving
  <2>3. Busy(s, e) /\ \A d \in Dirs : d # e => ~Busy(s, d)
    BY <1>5, <1>7, <2>2, BusyWith DEF Saving, SavesConfig, Stores, Storing
  <2>4. ConfigInv'
    BY <1>1, <1>3, <1>5, <1>7, <2>2, ConfigGoes DEF IInv, fileVars, Files
  <2>5. DirInv'
    <3> SUFFICES ASSUME NEW d \in Dirs \ (broken' \cup contended')
                 PROVE  DirOK(d)'
      BY DEF DirInv
    <3>1. CASE d = e
      <4>1. At(e, s)'
        BY <1>5, <1>7, <2>3 DEF At, Writing, Stores, Storing, fileVars
      <4> QED BY <1>7, <2>3, <3>1, <4>1, DirMoves DEF IInv
    <3>2. CASE d # e
      <4>1. ~Busy(proc[p], d) /\ ~Busy(s, d)
        BY <1>1, <1>3, <2>3, <3>2 DEF Files
      <4> QED BY <1>5, <1>7, <4>1, DirFrame DEF IInv, fileVars
    <3> QED BY <3>1, <3>2
  <2>6. KeyInv'
    <3> SUFFICES ASSUME NEW d \in Dirs
                 PROVE  FileKey(d)' /\ (d \notin rivals' => KeyOK(d)')
      BY DEF KeyInv
    <3>1. CASE d = e
      BY <1>5, <1>7, <3>1 DEF IInv, KeyInv, FileKey, fileVars
    <3>2. CASE d # e
      BY <1>1, <1>3, <1>5, <1>7, <3>2, KeyFrame DEF IInv, fileVars, HasIdAt
    <3> QED BY <3>1, <3>2
  <2> QED BY <2>1, <2>4, <2>5, <2>6 DEF IInv
<1>8. CASE ident[e].state = "whole"
  <2>1. PICK t : t = [r EXCEPT !.id = ident[e].data]
    OBVIOUS
  <2>2. PICK s : s = Override(t)
    OBVIOUS
  <2>3. Goes(p, s) /\ keys' = keys
    BY <1>1, <1>4, <1>8, <2>1, <2>2 DEF LoadOrCreateIdentity
  <2>4. ident[e].data \in Identities /\ ident[e].data.key \in Keys
    BY <1>5, <1>8 DEF FilesOK, File
  <2>5. t \in Proc /\ t.id = ident[e].data /\ t.cfg = r.cfg
    BY <1>2, <2>1, <2>4 DEF Proc
  <2>6. /\ ProcOK(s) /\ s.cfg.dir = e /\ s.id.key = ident[e].data.key
        /\ \/ s.pc = "openStore" /\ s.id = ident[e].data
           \/ s.pc = "open" /\ s.why = "override"
    BY <1>4, <2>2, <2>4, <2>5, OverrideOK
  <2>7. CountersOK'
    BY <1>5, <2>3, TypeParts DEF IInv, CountersOK
  <2>8. ASSUME e \notin rivals'
        PROVE  KeyOK(e)'
    <3>1. KeyOK(e) /\ ident[e].data.key \in known[e] /\ known' = known
      BY <1>5, <1>8, <2>3, <2>6, <2>8, ProcMoves DEF IInv, KeyInv, FileKey
    <3>2. ~Creating(s, e)
      BY <2>6 DEF Creating, Saving
    <3>3. \A q \in Procs \ {p} : ~Creating(proc[q], e)
      BY <3>1 DEF KeyOK
    <3>4. \A q \in Procs \ {p} : HasIdAt(proc[q], e) => proc[q].id.key \in known[e]
      BY <3>1, <3>3 DEF KeyOK, HasIdAt
    <3>5. \A j, k \in known[e] : j = k
      BY <3>1 DEF KeyOK
    <3> QED BY <1>5, <2>3, <2>6, <3>1, <3>2, <3>3, <3>4, <3>5, KeyMoves DEF IInv
  <2> QED BY <1>7, <1>8, <2>3, <2>6, <2>7, <2>8
<1>9. CASE ident[e].state = "absent"
  <2>1. PICK s : s = [r EXCEPT !.id = [key |-> keys + 1, name |-> Generated],
                               !.pc = "open", !.why = "createIdentity"]
    OBVIOUS
  <2>2. Goes(p, s) /\ keys' = keys + 1 /\ keys < MaxKeys
    BY <1>1, <1>4, <1>9, <2>1 DEF LoadOrCreateIdentity, Generate
  <2>3. keys + 1 \in Keys /\ CountersOK'
    BY <1>5, <2>2, TypeParts, DataFilesAssumption DEF IInv, CountersOK, Keys
  <2>4. PICK i : i = [key |-> keys + 1, name |-> Generated]
    OBVIOUS
  <2>5. i \in Identities /\ i.key = keys + 1
    BY <2>3, <2>4, DataFilesAssumption DEF Identities, Keys
  <2>6. s \in Proc /\ s.cfg = r.cfg /\ s.pc = "open" /\ s.why = "createIdentity" /\ s.id = i
    BY <1>2, <2>1, <2>4, <2>5 DEF Proc
  <2>7. ProcOK(s)
    BY <2>3, <2>5, <2>6 DEF ProcOK
  <2>8. ASSUME e \notin rivals'
        PROVE  KeyOK(e)'
    <3>1. KeyOK(e) /\ known[e] = {} /\ known' = known
      BY <1>5, <1>9, <2>2, <2>7, <2>8, ProcMoves DEF IInv, KeyInv, FileKey
    <3>2. Creating(s, e)
      BY <1>4, <2>6 DEF Creating, Saving
    <3>3. \A q \in Procs \ {p} : ~Creating(proc[q], e)
      BY <1>5, <2>2, <2>8, <3>2 DEF Goes
    <3>4. \A q \in Procs \ {p} : ~HasIdAt(proc[q], e)
      BY <3>1, <3>3 DEF KeyOK, HasIdAt
    <3> QED BY <1>5, <2>2, <2>6, <2>7, <3>1, <3>2, <3>3, <3>4, KeyMoves DEF IInv
  <2> QED BY <1>4, <1>7, <1>9, <2>2, <2>3, <2>6, <2>7, <2>8
<1> QED BY <1>5, <1>6, <1>8, <1>9 DEF FilesOK, File

----------------------------------------------------------------------------
(* Save.                                                                   *)

\* A process that saves.
LEMMA SaveStart ==
    ASSUME IInv, NEW p \in Procs, NEW r, r = proc[p], Saving(r)
    PROVE  /\ r \in Proc /\ ProcOK(r) /\ r.cfg.dir \in Dirs /\ r.id \in Identities
           /\ r.id.name \in Names \cup {NoName} /\ DefaultConfig(r.env) \in Configs
           /\ Busy(r, "config") <=> SavesConfig(r)
           /\ \A d \in Dirs : Busy(r, d) <=> ~SavesConfig(r) /\ d = r.cfg.dir
           /\ ~SavesConfig(r) => HasId(r) /\ r.id.key \in Keys
           /\ Target(r) \in Files
           /\ FilesOK /\ HistoryOK /\ CountersOK
<1>1. /\ r \in Proc /\ ProcOK(r) /\ r.cfg.dir \in Dirs /\ r.id \in Identities
      /\ FilesOK /\ HistoryOK /\ CountersOK /\ r.env \in Dirs \cup {NoDir}
  BY TypeParts DEF IInv, Proc
<1>2. DefaultConfig(r.env) \in Configs
  BY <1>1, DataFilesAssumption DEF DefaultConfig, Configs
<1>3. ~Storing(r)
  BY DEF Saving, Storing
<1>4. /\ Busy(r, "config") <=> SavesConfig(r)
      /\ \A d \in Dirs : Busy(r, d) <=> ~SavesConfig(r) /\ d = r.cfg.dir
  BY <1>1, <1>3, BusyWith DEF Stores
<1>5. ~SavesConfig(r) => HasId(r) /\ r.id.key \in Keys
  BY <1>1 DEF ProcOK, HasId, SavesConfig
<1> QED BY <1>1, <1>2, <1>4, <1>5 DEF Identities, Target, Files

\* The configuration is opened or written, the rest stays.
LEMMA ConfigSaveStep ==
    ASSUME IInv, NEW p \in Procs, NEW r, r = proc[p], Saving(r), SavesConfig(r),
           NEW s, ProcOK(s), Goes(p, s), \A d \in Dirs : ~Busy(s, d),
           HasId(s) => HasId(r) /\ s.cfg = r.cfg /\ s.id = r.id /\ s.why # "createIdentity",
           UNCHANGED <<ident, schema, meta, known>>, broken \subseteq broken',
           config' \in ConfigFile, HistoryOK', CountersOK', ConfigInv'
    PROVE  IInv'
<1>1. TypeInv' /\ AloneInv'
  <2>1. FilesOK'
    BY SaveStart DEF FilesOK
  <2> QED BY <2>1, TypeGoes, AloneGoes DEF IInv
<1>2. DirInv'
  <2> SUFFICES ASSUME NEW d \in Dirs \ (broken' \cup contended')
               PROVE  DirOK(d)'
    BY DEF DirInv
  <2>1. ~Busy(proc[p], d) /\ ~Busy(s, d)
    BY SaveStart
  <2> QED BY <2>1, DirFrame DEF IInv
<1>3. KeyInv'
  <2>1. ~Creating(r, s.cfg.dir) /\ (HasId(s) => ~Creating(s, s.cfg.dir))
    BY DEF Creating, SavesConfig
  <2> QED BY <2>1, KeyGoes DEF IInv
<1> QED BY <1>1, <1>2, <1>3 DEF IInv

\* The identity of a directory is opened or written, the rest stays.
LEMMA IdentitySaveStep ==
    ASSUME IInv, NEW p \in Procs, NEW r, r = proc[p], Saving(r), ~SavesConfig(r),
           NEW e, e = r.cfg.dir, NEW file \in File(Identities), file.state = "whole" => file.data.key \in Keys,
           NEW s, ProcOK(s), Goes(p, s), ~Saving(s) \/ ~SavesConfig(s),
           HasId(s) => s.cfg = r.cfg,
           ident' = [ident EXCEPT ![e] = file], UNCHANGED <<config, schema, meta, wanted>>,
           \A d \in Dirs : d # e => known'[d] = known[d],
           broken \subseteq broken', HistoryOK', CountersOK',
           e \notin broken' \cup contended' => At(e, s)',
           FileKey(e)', e \notin rivals' => KeyOK(e)'
    PROVE  IInv'
<1>1. e \in Dirs /\ ident'[e] = file /\ \A d \in Dirs : d # e => ident'[d] = ident[d]
  BY SaveStart DEF FilesOK
<1>2. TypeInv' /\ AloneInv'
  <2>1. FilesOK'
    BY <1>1, SaveStart DEF FilesOK
  <2> QED BY <2>1, TypeGoes, AloneGoes DEF IInv
<1>3. ConfigInv'
  <2>1. ~Busy(proc[p], "config") /\ ~CreatesConfig(s) /\ ~WritesConfig(s)
    BY SaveStart DEF CreatesConfig, WritesConfig, SavesConfig, Saving
  <2> QED BY <2>1, ConfigGoes DEF IInv
<1>4. \A d \in Dirs : d # e => ~HasIdAt(proc[p], d) /\ ~HasIdAt(s, d) /\ ~Busy(proc[p], d) /\ ~Busy(s, d)
  <2>1. \A d \in Dirs : Busy(s, d) => HasIdAt(s, d)
    BY BusyWith DEF ProcOK, HasIdAt, HasId, Stores, SavesConfig
  <2> QED BY <2>1, SaveStart DEF HasIdAt
<1>5. DirInv'
  <2> SUFFICES ASSUME NEW d \in Dirs \ (broken' \cup contended')
               PROVE  DirOK(d)'
    BY DEF DirInv
  <2>1. CASE d = e
    <3>1. Busy(proc[p], d)
      BY <2>1, SaveStart
    <3> QED BY <2>1, <3>1, DirMoves DEF IInv
  <2>2. CASE d # e
    BY <1>1, <1>4, <2>2, DirFrame DEF IInv
  <2> QED BY <2>1, <2>2
<1>6. KeyInv'
  <2> SUFFICES ASSUME NEW d \in Dirs
               PROVE  FileKey(d)' /\ (d \notin rivals' => KeyOK(d)')
    BY DEF KeyInv
  <2>1. CASE d = e
    BY <2>1
  <2>2. CASE d # e
    BY <1>1, <1>4, <2>2, KeyFrame DEF IInv
  <2> QED BY <2>1, <2>2
<1> QED BY <1>2, <1>3, <1>5, <1>6 DEF IInv

LEMMA SaveOpenStep ==
    ASSUME IInv, NEW p \in Procs, SaveOpen(p)
    PROVE  IInv'
<1>1. PICK r : r = proc[p]
  OBVIOUS
<1>2. r.pc = "open" /\ Saving(r)
  BY <1>1 DEF SaveOpen, Saving
<1>3. PICK s : s = [r EXCEPT !.pc = "write"]
  OBVIOUS
<1>4. Goes(p, s) /\ UNCHANGED <<schema, meta, counters, wanted, known, broken>>
  BY <1>1, <1>3 DEF SaveOpen
<1>5. /\ s \in Proc /\ s.pc = "write" /\ s.cfg = r.cfg /\ s.id = r.id /\ s.why = r.why
      /\ Saving(s) /\ (SavesConfig(s) <=> SavesConfig(r)) /\ (HasId(s) <=> HasId(r))
  <2>1. s \in Proc /\ s.pc = "write" /\ s.cfg = r.cfg /\ s.id = r.id /\ s.why = r.why
    BY <1>1, <1>2, <1>3, SaveStart DEF Proc
  <2> QED BY <1>2, <2>1 DEF Saving, SavesConfig, HasId, Storing
<1>6. ProcOK(s)
  BY <1>1, <1>2, <1>5, SaveStart DEF ProcOK
<1>7. HistoryOK' /\ CountersOK'
  BY <1>1, <1>2, <1>4, SaveStart DEF HistoryOK, CountersOK, counters
<1>8. CASE SavesConfig(r)
  <2>1. config' = Opened(config) /\ ident' = ident
    BY <1>1, <1>8 DEF SaveOpen
  <2>2. config' \in ConfigFile /\ config'.state = "bad" /\ config'.size = 0
    BY <1>1, <1>2, <2>1, SaveStart DEF FilesOK, ConfigFile, Opened
  <2>3. Busy(s, "config") /\ \A d \in Dirs : ~Busy(s, d)
    BY <1>5, <1>8, BusyWith DEF Stores, Storing
  <2>4. ConfigInv'
    <3>1. proc'[p] = s /\ \A q \in Procs : q # p => proc'[q] = proc[q]
      BY <1>4, <1>6, ProcMoves DEF IInv
    <3>2. "config" \notin broken' \cup contended' =>
            \A q \in Procs : CreatesConfig(proc'[q]) => NothingUsable'
      <4>1. "config" \notin broken' \cup contended' =>
              \A q \in Procs : CreatesConfig(proc[q]) => NothingUsable'
        BY <1>4, <1>6, ProcMoves DEF IInv, ConfigInv, NothingUsable
      <4>2. CreatesConfig(s) => CreatesConfig(proc[p])
        BY <1>1, <1>2, <1>5 DEF CreatesConfig
      <4> QED BY <3>1, <4>1, <4>2
    <3> QED BY <2>2, <2>3, <3>1, <3>2
            DEF ConfigInv, CreatesConfig, WritesConfig, Busy, Saving, Target, SavesConfig
  <2>5. HasId(s) => HasId(r) /\ s.cfg = r.cfg /\ s.id = r.id /\ s.why # "createIdentity"
    BY <1>5, <1>8 DEF SavesConfig
  <2> QED BY <1>1, <1>2, <1>4, <1>6, <1>7, <1>8, <2>1, <2>2, <2>3, <2>4, <2>5, ConfigSaveStep
<1>9. CASE ~SavesConfig(r)
  <2>1. PICK e : e = r.cfg.dir
    OBVIOUS
  <2>2. PICK file : file = Opened(ident[e])
    OBVIOUS
  <2>3. ident' = [ident EXCEPT ![e] = file] /\ config' = config /\ e \in Dirs
    BY <1>1, <1>2, <1>9, <2>1, <2>2, SaveStart DEF SaveOpen
  <2>4. file \in File(Identities) /\ file.state = "bad" /\ file.size = 0 /\ ident'[e] = file
    BY <1>1, <1>2, <2>2, <2>3, SaveStart DEF FilesOK, File, Opened
  <2>5. Writing(s, e) /\ ~Stores(s, e) /\ Busy(s, e)
    BY <1>5, <1>9, <2>1, <2>3, BusyWith DEF Writing, Stores, Storing
  <2>6. At(e, s)'
    BY <2>4, <2>5 DEF At
  <2>7. FileKey(e)'
    BY <2>4 DEF FileKey
  <2>8. ASSUME e \notin rivals'
        PROVE  KeyOK(e)'
    <3>1. e \in Dirs \ rivals /\ HasIdAt(proc[p], e) /\ known' = known
      BY <1>1, <1>2, <1>4, <1>6, <1>9, <2>1, <2>3, <2>8, ProcMoves, SaveStart DEF IInv, HasIdAt
    <3>2. Creating(s, e) <=> Creating(r, e)
      BY <1>2, <1>5 DEF Creating
    <3> QED BY <1>1, <1>4, <1>5, <1>6, <2>4, <3>1, <3>2, KeyHas, KeyMoves DEF IInv
  <2>9. \A d \in Dirs : known'[d] = known[d]
    BY <1>4
  <2> QED BY <1>1, <1>2, <1>4, <1>5, <1>6, <1>7, <1>9, <2>1, <2>3, <2>4, <2>6, <2>7, <2>8, <2>9, IdentitySaveStep
<1> QED BY <1>8, <1>9

LEMMA SaveWriteStep ==
    ASSUME IInv, NEW p \in Procs, NEW ok \in BOOLEAN, SaveWrite(p, ok)
    PROVE  IInv'
<1>1. PICK r : r = proc[p]
  OBVIOUS
<1>2. r.pc = "write" /\ Saving(r)
  BY <1>1 DEF SaveWrite, Saving
<1>3. PICK s : s = AfterSave(r, ok)
  OBVIOUS
<1>4. /\ Goes(p, s) /\ UNCHANGED <<schema, meta, keys, starts, edits>>
      /\ broken' = (IF ok THEN broken ELSE broken \cup {Target(r)})
  BY <1>1, <1>3 DEF SaveWrite
<1>5. ProcOK(s) /\ s \in Proc
  BY <1>1, <1>2, <1>3, AfterSaveOK, SaveStart DEF ProcOK
<1>6. CountersOK' /\ broken \subseteq broken' /\ broken' \subseteq Files
  <2>1. CountersOK /\ broken \subseteq Files /\ Target(r) \in Files
    BY <1>1, <1>2, SaveStart DEF HistoryOK
  <2>2. faults' \in 0..MaxFaults
    BY <2>1, DataFilesAssumption DEF SaveWrite, CountersOK
  <2> QED BY <1>4, <2>1, <2>2 DEF CountersOK
<1>7. CASE SavesConfig(r)
  <2>1. /\ config' = Written(config, DefaultConfig(r.env)) /\ UNCHANGED <<ident, known>>
        /\ wanted' = IF r.why = "init" THEN {config'} ELSE wanted
    BY <1>1, <1>7 DEF SaveWrite
  <2>2. config' \in ConfigFile /\ config'.state \in {"whole", "bad"}
    <3>1. config \in ConfigFile /\ r.env \in Dirs \cup {NoDir}
      BY <1>1, <1>2, SaveStart DEF FilesOK, Proc
    <3> QED BY <2>1, <3>1, ConfigWritten
  <2>3. s.pc \in {"off", "identity"} /\ ~HasId(s) /\ ~Saving(s) /\ \A d \in Dirs : ~Busy(s, d)
    <3>1. s.pc \in {"off", "identity"}
      BY <1>1, <1>2, <1>3, <1>7, AfterSaveOK, SaveStart DEF Off
    <3> QED BY <3>1 DEF HasId, Storing, Saving, Busy
  <2>4. HistoryOK'
    <3>1. config' \in [state : {"whole", "bad", "misleading"}, data : Configs, size : Nat]
      BY <2>2 DEF ConfigFile
    <3> QED BY <1>1, <1>2, <1>6, <2>1, <3>1, SaveStart DEF HistoryOK
  <2>5. ConfigInv'
    <3>1. proc'[p] = s /\ \A q \in Procs : q # p => proc'[q] = proc[q]
      BY <1>4, <1>5, ProcMoves DEF IInv
    <3>2. ASSUME "config" \notin broken' \cup contended'
          PROVE  /\ \A q \in Procs : ~Saving(proc'[q]) \/ ~SavesConfig(proc'[q])
                 /\ wanted' # {} => Kept'
      <4>1. "config" \in Files \ contended /\ "config" \notin broken
        BY <1>4, <1>5, <1>6, <3>2, ProcMoves DEF IInv, Files
      <4>2. Busy(proc[p], "config")
        BY <1>1, <1>2, <1>7, SaveStart
      <4>3. \A q \in Procs : Saving(proc[q]) /\ SavesConfig(proc[q]) => Busy(proc[q], "config")
        BY TypeParts, BusyWith DEF IInv
      <4>4. \A q \in Procs : ~Saving(proc'[q]) \/ ~SavesConfig(proc'[q])
        BY <2>3, <3>1, <4>1, <4>2, <4>3 DEF IInv, AloneInv
      <4>5. CASE r.why = "init"
        <5>1. wanted' = {config'}
          BY <2>1, <4>5
        <5> QED BY <4>4, <5>1 DEF Kept
      <4>6. CASE r.why = "createConfig"
        <5>1. CreatesConfig(proc[p]) /\ WritesConfig(proc[p])
          BY <1>1, <1>2, <1>7, <4>6 DEF CreatesConfig, WritesConfig
        <5>2. NothingUsable /\ config.size = 0
          BY <4>1, <5>1 DEF IInv, ConfigInv
        <5>3. config \in ConfigFile /\ r.env \in Dirs \cup {NoDir}
          BY <1>1, <1>2, SaveStart DEF FilesOK, Proc
        <5>4. config' \in SavedDefaults
          BY <2>1, <5>2, <5>3, ConfigWritten
        <5>5. wanted' = wanted /\ SavedDefaults' = SavedDefaults
          BY <2>1, <4>6 DEF SavedDefaults
        <5>6. wanted' # {} => Kept'
          BY <5>2, <5>4, <5>5 DEF NothingUsable, Kept
        <5> QED BY <4>4, <5>6
      <4> QED BY <1>7, <4>5, <4>6 DEF SavesConfig
    <3>3. /\ "config" \notin broken' \cup contended' => \A q \in Procs :
                ~CreatesConfig(proc'[q]) /\ ~WritesConfig(proc'[q])
      BY <3>2 DEF CreatesConfig, WritesConfig, Saving, SavesConfig
    <3> QED BY <2>2, <3>2, <3>3
            DEF ConfigInv, CreatesConfig, WritesConfig, Busy, Saving, Target, SavesConfig
  <2> QED BY <1>1, <1>2, <1>4, <1>5, <1>6, <1>7, <2>1, <2>2, <2>3, <2>4, <2>5, ConfigSaveStep
<1>8. CASE ~SavesConfig(r)
  <2>1. PICK e : e = r.cfg.dir
    OBVIOUS
  <2>2. PICK file : file = Written(ident[e], r.id)
    OBVIOUS
  <2>3. /\ ident' = [ident EXCEPT ![e] = file] /\ UNCHANGED <<config, wanted>>
        /\ known' = [known EXCEPT ![e] = IF file.state = "whole" THEN @ \cup {r.id.key} ELSE @]
    BY <1>1, <1>8, <2>1, <2>2 DEF SaveWrite
  <2>4. /\ e \in Dirs /\ HasId(r) /\ r.id \in Identities /\ r.id.key \in Keys
        /\ r.id.name \in Names \cup {NoName} /\ ident \in [Dirs -> File(Identities)]
        /\ known \in [Dirs -> SUBSET Keys] /\ Busy(r, e) /\ Writing(r, e)
    BY <1>1, <1>2, <1>8, <2>1, SaveStart DEF FilesOK, HistoryOK, Writing
  <2>5. /\ file \in File(Identities) /\ file.state \in {"whole", "bad"}
        /\ file.state = "whole" => file.data = r.id
        /\ ident[e].size = 0 => file.state = "whole"
    <3>1. ident[e] \in File(Identities)
      BY <2>4
    <3>2. PICK f : f = ident[e]
      OBVIOUS
    <3>3. PICK x : x = r.id
      OBVIOUS
    <3>4. /\ Written(f, x) \in File(Identities) /\ Written(f, x).state \in {"whole", "bad"}
          /\ Written(f, x).state = "whole" => Written(f, x).data = x
          /\ f.size = 0 => Written(f, x).state = "whole"
      BY <2>4, <3>1, <3>2, <3>3, WrittenOK
    <3> QED BY <2>2, <3>2, <3>3, <3>4
  <2>6. /\ ident'[e] = file /\ known' \in [Dirs -> SUBSET Keys]
        /\ known'[e] = IF file.state = "whole" THEN known[e] \cup {r.id.key} ELSE known[e]
        /\ \A d \in Dirs : d # e => known'[d] = known[d]
    BY <2>3, <2>4
  <2>7. HistoryOK'
    BY <1>1, <1>2, <1>6, <2>3, <2>6, SaveStart DEF HistoryOK
  <2>8. \/ s = Off /\ ~ok
        \/ /\ s.cfg = r.cfg /\ s.id.key = r.id.key
           /\ \/ Storing(s) /\ s.pc # "migrate" /\ s.id = r.id
              \/ s.pc = "open" /\ s.why = "override"
    BY <1>1, <1>2, <1>3, <1>8, AfterSaveOK, SaveStart DEF SavesConfig
  <2>9. ~HasId(Off) /\ ~Saving(Off)
    BY DEF HasId, Storing, Saving, Off
  <2>10. /\ ~Saving(s) \/ ~SavesConfig(s)
         /\ HasId(s) => s.cfg = r.cfg /\ s.id.key = r.id.key
         /\ ~Creating(s, e)
    BY <2>8, <2>9 DEF Saving, SavesConfig, Storing, Creating
  <2>11. ASSUME e \notin broken' \cup contended'
         PROVE  At(e, s)'
    <3>1. e \in Dirs \ (broken \cup contended) /\ ok
      BY <1>4, <1>5, <1>6, <1>8, <2>1, <2>4, <2>11, ProcMoves DEF IInv, Target
    <3>2. At(e, r)
      BY <1>1, <2>4, <3>1, DirHas DEF IInv
    <3>3. file.state = "whole" /\ file.data = r.id
      BY <2>4, <2>5, <3>2 DEF At
    <3>4. ~Writing(s, e) /\ Busy(s, e) /\ (Stores(s, e) => s.pc # "migrate" /\ s.id = r.id)
      <4>1. s.cfg.dir = e
        BY <2>1, <2>8, <3>1
      <4>2. CASE Storing(s) /\ s.pc # "migrate" /\ s.id = r.id
        BY <1>5, <2>4, <4>1, <4>2, BusyWith DEF Writing, Stores, Storing
      <4>3. CASE s.pc = "open" /\ s.why = "override"
        BY <1>5, <2>4, <4>1, <4>3, BusyWith DEF Writing, Stores, Storing, Saving, SavesConfig
      <4> QED BY <2>8, <3>1, <4>2, <4>3
    <3> QED BY <2>6, <3>3, <3>4 DEF At
  <2>12. FileKey(e)'
    BY <2>5, <2>6 DEF FileKey
  <2>13. ASSUME e \notin rivals'
         PROVE  KeyOK(e)'
    <3>1. e \in Dirs \ rivals /\ HasIdAt(proc[p], e)
      BY <1>1, <1>4, <1>5, <2>1, <2>4, <2>13, ProcMoves DEF IInv, HasIdAt
    <3>2. CASE Creating(r, e)
      <4>1. known[e] = {} /\ ident[e].size = 0 /\ \A q \in Procs \ {p} : ~HasIdAt(proc[q], e)
        BY <1>1, <1>2, <3>1, <3>2, KeyHas DEF IInv
      <4>2. known'[e] = {r.id.key}
        BY <2>5, <2>6, <4>1
      <4>3. \A q \in Procs \ {p} : ~Creating(proc[q], e)
        BY <4>1 DEF Creating, HasIdAt, HasId
      <4>4. \A j, k \in known'[e] : j = k
        BY <4>2
      <4> QED BY <1>4, <1>5, <2>4, <2>10, <4>1, <4>2, <4>3, <4>4, KeyMoves DEF IInv, HasIdAt
    <3>3. CASE ~Creating(r, e)
      <4>1. /\ \A j, k \in known[e] : j = k
            /\ \A q \in Procs \ {p} : ~Creating(proc[q], e)
            /\ \A q \in Procs \ {p} : HasIdAt(proc[q], e) => proc[q].id.key \in known[e]
            /\ r.id.key \in known[e]
        BY <1>1, <3>1, <3>3, KeyHas DEF IInv
      <4>2. known'[e] = known[e]
        BY <2>6, <4>1
      <4> QED BY <1>4, <1>5, <2>4, <2>10, <4>1, <4>2, KeyMoves DEF IInv, HasIdAt
    <3> QED BY <3>2, <3>3
  <2>14. file.state = "whole" => file.data.key \in Keys
    BY <2>4, <2>5
  <2> QED BY <1>1, <1>2, <1>4, <1>5, <1>6, <1>8, <2>1, <2>3, <2>5, <2>6, <2>7, <2>10, <2>11, <2>12,
             <2>13, <2>14, IdentitySaveStep
<1> QED BY <1>7, <1>8

----------------------------------------------------------------------------
(* The specification.                                                      *)

LEMMA EditStep ==
    ASSUME IInv, NEW c \in Edits, NEW state \in {"whole", "bad", "misleading"}, EditConfig(c, state)
    PROVE  IInv'
<1>1. c \in Configs /\ Length[c.name] \in Nat
  BY DataFilesAssumption DEF Configs
<1>2. /\ UNCHANGED <<ident, schema, meta, proc, keys, starts, faults, known, broken, rivals>>
      /\ contended' = contended \cup {f \in {"config"} : \E p \in Procs : Busy(proc[p], f)}
      /\ wanted' = {config'}
      /\ config' = [state |-> state, data |-> c, size |-> Length[c.name]]
  BY DEF EditConfig
<1>3. config' \in [state : {"whole", "bad", "misleading"}, data : Configs, size : Nat]
  BY <1>1, <1>2
<1>4. config' \in ConfigFile /\ config'.state # "absent"
  BY <1>3 DEF ConfigFile
<1>5. TypeInv'
  <2>1. edits' \in 0..MaxEdits
    BY DataFilesAssumption DEF IInv, TypeInv, TypeOK, EditConfig
  <2>2. contended' \subseteq Files
    BY <1>2 DEF IInv, TypeInv, TypeOK, Files
  <2> QED BY <1>2, <1>3, <1>4, <2>1, <2>2 DEF IInv, TypeInv, TypeOK, ConfigFile
<1>6. AloneInv'
  BY <1>2 DEF IInv, AloneInv, Busy, Saving, Target, SavesConfig
<1>7. ConfigInv'
  <2>1. "config" \notin contended' => \A p \in Procs : ~Busy(proc[p], "config")
    BY <1>2
  <2>2. \A p \in Procs : CreatesConfig(proc[p]) \/ WritesConfig(proc[p]) => Busy(proc[p], "config")
    BY TypeParts, BusyWith DEF IInv, CreatesConfig, WritesConfig, Saving, SavesConfig
  <2>3. "config" \notin contended' => \A p \in Procs : ~CreatesConfig(proc'[p]) /\ ~WritesConfig(proc'[p])
    BY <1>2, <2>1, <2>2
  <2>4. Kept'
    BY <1>2 DEF Kept
  <2> QED BY <1>2, <1>4, <2>3, <2>4 DEF ConfigInv, CreatesConfig, WritesConfig, Saving, SavesConfig
<1>8. DirInv'
  <2>1. \A d \in Dirs : DirOK(d) => DirOK(d)'
    BY <1>2 DEF DirOK, Writing, Stores, Storing, Busy, Saving, Target, SavesConfig
  <2> QED BY <1>2, <2>1 DEF IInv, DirInv
<1>9. KeyInv'
  BY <1>2 DEF IInv, KeyInv, KeyOK, FileKey, Creating, HasId, Storing, Saving
<1> QED BY <1>5, <1>6, <1>7, <1>8, <1>9 DEF IInv

LEMMA InitEstablishes == Init => IInv
<1> SUFFICES ASSUME Init
             PROVE  IInv
  OBVIOUS
<1>1. ProcOK(Off) /\ Off.pc = "off" /\ \A f \in Files : ~Busy(Off, f)
  BY OffOK DEF Off
<1>2. \A p \in Procs : proc[p] = Off
  BY DEF Init
<1>3. NoIdentity \in Identities /\ DefaultConfig(NoDir) \in Configs
  BY DataFilesAssumption DEF NoIdentity, Identities, DefaultConfig, Configs
<1>4. Absent(NoIdentity) \in File(Identities) /\ Absent(NoIdentity).state = "absent"
  BY <1>3 DEF Absent, File
<1>5. config \in ConfigFile /\ config.state = "absent"
  BY <1>3 DEF Init, Absent, ConfigFile
<1>6. ident \in [Dirs -> File(Identities)] /\ \A d \in Dirs : ident[d].state = "absent"
  BY <1>4 DEF Init
<1>7. TypeInv
  <2>1. proc \in [Procs -> Proc]
    BY <1>1 DEF Init, ProcOK
  <2>2. {0} \subseteq 0..MaxKeys \cap 0..MaxStarts \cap 0..MaxEdits \cap 0..MaxFaults
    BY DataFilesAssumption
  <2> QED BY <1>1, <1>2, <1>5, <1>6, <2>1, <2>2 DEF Init, TypeInv, TypeOK, File, ConfigFile, Proc
<1>8. AloneInv
  BY <1>1, <1>2 DEF AloneInv
<1>9. ConfigInv
  BY <1>1, <1>2, <1>5 DEF ConfigInv, Init, Saving, CreatesConfig, WritesConfig
<1>10. DirInv
  <2>1. ~Storing(Off) /\ \A d \in Dirs : ~Writing(Off, d) /\ ~Stores(Off, d)
    BY <1>1 DEF Storing, Writing, Stores
  <2> QED BY <1>2, <1>6, <2>1 DEF DirInv, DirOK
<1>11. KeyInv
  <2>1. ~HasId(Off) /\ \A d \in Dirs : ~Creating(Off, d) /\ known[d] = {}
    BY <1>1 DEF HasId, Storing, Saving, Creating, Init
  <2> QED BY <1>2, <1>6, <2>1 DEF KeyInv, KeyOK, FileKey
<1> QED BY <1>7, <1>8, <1>9, <1>10, <1>11 DEF IInv

LEMMA NextKeeps == IInv /\ [Next]_vars => IInv'
<1> SUFFICES ASSUME IInv, [Next]_vars
             PROVE  IInv'
  OBVIOUS
<1>1. ASSUME NEW p \in Procs, Step(p)
      PROVE  IInv'
  BY <1>1, StartStep, LoadConfigStep, LoadIdentityStep, ReadVersionStep, MigrateStep, UpsertStep,
     RenameStep, SaveOpenStep, SaveWriteStep, SaveFailsStep, MetadataFailsStep, QuitStep, KillStep
     DEF Step
<1>2. ASSUME NEW c \in Edits, NEW state \in {"whole", "bad", "misleading"}, EditConfig(c, state)
      PROVE  IInv'
  BY <1>2, EditStep
<1>3. CASE UNCHANGED vars
  <2>1. /\ UNCHANGED <<config, ident, schema, meta, proc, keys, starts, edits, faults>>
        /\ UNCHANGED <<wanted, known, broken, contended, rivals>>
    BY <1>3 DEF vars, fileVars, counters, history
  <2>2. TypeInv'
    BY <2>1 DEF IInv, TypeInv, TypeOK
  <2>3. AloneInv' /\ ConfigInv'
    BY <2>1 DEF IInv, AloneInv, ConfigInv, NothingUsable, Kept, SavedDefaults, CreatesConfig,
                WritesConfig, Busy, Saving, Target, SavesConfig
  <2>4. DirInv'
    BY <2>1 DEF IInv, DirInv, DirOK, Writing, Stores, Storing, Busy, Saving, Target, SavesConfig
  <2>5. KeyInv'
    BY <2>1 DEF IInv, KeyInv, KeyOK, FileKey, Creating, HasId, Storing, Saving
  <2> QED BY <2>2, <2>3, <2>4, <2>5 DEF IInv
<1> QED BY <1>1, <1>2, <1>3 DEF Next

LEMMA InvHolds == Spec => []IInv
BY InitEstablishes, NextKeeps, PTL DEF Spec

\* The key of a directory is the first one for ever, for any number of starts,
\* overlaps and faults, unless two processes created it at once.
THEOREM KeyAlwaysKept == Spec => []KeyIsKept
<1>1. IInv => KeyIsKept
  <2> SUFFICES ASSUME IInv, NEW d \in Dirs \ rivals
               PROVE  Cardinality(known[d] \cup {proc[p].id.key : p \in {q \in Procs :
                          proc[q].pc = "running" /\ proc[q].cfg.dir = d}}) <= 1
    BY DEF KeyIsKept
  <2> DEFINE run == {proc[p].id.key : p \in {q \in Procs : proc[q].pc = "running" /\ proc[q].cfg.dir = d}}
  <2>1. KeyOK(d)
    BY DEF IInv, KeyInv
  <2>2. run \subseteq known[d]
    <3>1. ASSUME NEW p \in Procs, proc[p].pc = "running", proc[p].cfg.dir = d
          PROVE  proc[p].id.key \in known[d]
      BY <2>1, <3>1 DEF KeyOK, HasId, Creating, Saving
    <3> QED BY <3>1
  <2>3. known[d] \cup run = known[d]
    BY <2>2
  <2> HIDE DEF run
  <2> SUFFICES Cardinality(known[d]) <= 1
    BY <2>3 DEF run
  <2>4. CASE known[d] = {}
    <3>1. Cardinality({}) = 0
      BY FS_EmptySet
    <3> QED BY <2>4, <3>1
  <2>5. CASE known[d] # {}
    <3>1. PICK k : k \in known[d]
      BY <2>5
    <3>2. known[d] = {k}
      BY <2>1, <3>1 DEF KeyOK
    <3>3. Cardinality({k}) = 1
      BY FS_Singleton
    <3> QED BY <3>2, <3>3
  <2> QED BY <2>4, <2>5
<1> QED BY <1>1, InvHolds, PTL

\* A file that nobody is saving can be decoded: Save truncates before it writes,
\* and only a fault or an overlap, which the history notes, leaves it half-way.
THEOREM AlwaysReadable == Spec => []ReadableAtRest
<1>1. IInv => ReadableAtRest
  <2> SUFFICES ASSUME IInv, NEW d \in Dirs \ (broken \cup contended), \A p \in Procs : ~Busy(proc[p], d),
                      ident[d].state = "bad"
               PROVE  FALSE
    BY DEF ReadableAtRest
  <2>1. PICK p \in Procs : Writing(proc[p], d)
    BY DEF IInv, DirInv, DirOK
  <2> QED BY <2>1, TypeParts, PartsAreBusy DEF IInv
<1> QED BY <1>1, InvHolds, PTL

\* The program never replaces the configuration that the user wrote or asked for,
\* but for one whose error says "no such file": the defaults replace that.
THEOREM EditsAlwaysKept == Spec => []EditsKept
<1>1. IInv => EditsKept
  BY DEF IInv, ConfigInv, Kept, EditsKept
<1> QED BY <1>1, InvHolds, PTL

\* The row in the database follows the identity file.
THEOREM MetadataAlwaysFollows == Spec => []MetadataFollows
<1>1. IInv => MetadataFollows
  BY DEF IInv, DirInv, DirOK, MetadataFollows
<1> QED BY <1>1, InvHolds, PTL

=============================================================================
