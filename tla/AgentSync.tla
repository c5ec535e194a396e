------------------------------ MODULE AgentSync ------------------------------
(***************************************************************************)
(* Writing the registry into a client's configuration file (sync.py): one  *)
(* of nine clients, its file, which its user edits too, the one backup,    *)
(* and a sync that copies, reads, transforms, empties the file and writes  *)
(* it, and may be cut short in between.  An entry is what the file holds   *)
(* about one provider: its name, where it points to, and, for the          *)
(* properties and Kimi's marks only, who wrote it.                         *)
(***************************************************************************)
EXTENDS Naturals, FiniteSets

CONSTANTS Providers,  \* names a registry provider may have
          UserNames,  \* names a user may give to an entry
          Loopback,   \* addresses the router may be given on 127.0.0.1 or localhost
          Elsewhere,  \* those on any other host, 0.0.0.0 too
          MaxEdits    \* bound: changes of the registry, the address and the file

VARIABLES client, file, backup, reg, url, sync, edits,
          current   \* history: synced, and neither registry nor address changed since

vars == <<client, file, backup, reg, url, sync, edits, current>>

Clients == {"pi", "omp", "opencode", "hermes", "claude", "kimi", "openclaw",
            "workbuddy", "codex"}

\* Where an entry may point: an address that the configuration gives the router,
\* another server of this machine, or a remote one.
Routers == Loopback \cup Elsewhere
Local == Loopback \cup {"machine"}
Entry(n, to, by) == [name |-> n, to |-> to, by |-> by]

\* "nodir": the client was never installed; "empty": the file was emptied and
\* the write never came; "broken": it holds something that cannot be read.
\* The default is none, the user's own choice ("theirs") or one of ours.
File(s, entries, default) == [state |-> s, entries |-> entries, default |-> default]
Missing == {"nodir", "absent"}
NoSync == [at |-> "none", file |-> File("absent", {}, "none"), of |-> <<>>]

TypeOK ==
  /\ client \in Clients /\ url \in Routers /\ reg \subseteq Providers
  /\ \A f \in {file, backup} :
       /\ f.state \in Missing \cup {"empty", "broken", "whole"}
       /\ f.state # "whole" => f.entries = {}
       /\ f.default \in {"none", "theirs"} \cup Providers
  /\ sync.at \in {"none", "read", "open"}

Init ==
  /\ client \in Clients
  /\ file \in {File(s, {}, "none") : s \in {"nodir", "absent", "whole"}}
  /\ backup = File("absent", {}, "none")
  /\ reg \in SUBSET Providers /\ url \in Routers /\ sync = NoSync /\ edits = 0 /\ current = FALSE

-----------------------------------------------------------------------------
\* What each client's sync would write now: {} when it leaves the file alone.
Written(entries, default) == File("whole", entries, default)
Ours(names) == {Entry(n, url, "router") : n \in names}

\* Where the provider's name is the key, the entry that had it is written over.
Keyed(entries, ours) == {e \in entries : e.name \notin {o.name : o \in ours}} \cup ours

\* OMP, OpenCode, OpenClaw and WorkBuddy take out what points to this machine,
\* whatever the port; the last two also what points to the router of now, on
\* whatever host.
\* Mutant: only what points to the router's address of now.
AtThisAddress(e) == e.to = url
PointsToLocalProxy(e) ==
  \/ e.to \in Local
  \/ client \in {"openclaw", "workbuddy"} /\ e.to = url
Foreign == {e \in file.entries : ~PointsToLocalProxy(e)}

\* A file that cannot be read is written over, as a new one; what points
\* exactly to the router is left out.
SyncPi ==
  IF file.state = "nodir" THEN {}
  ELSE {Written(Keyed({e \in file.entries : e.to # url}, Ours(reg)), file.default)}

\* Needs no client on the machine, and starts over from a broken file.
SyncOmp == {Written(Keyed(Foreign, Ours(reg)), file.default)}

\* An unreadable file is left alone; without the directory the write fails.
SyncOpencode ==
  IF file.state \in {"nodir", "empty", "broken"} THEN {}
  ELSE {Written(Keyed(Foreign, Ours(reg)), file.default)}

\* One entry, added to the list unless one with the router's address is there.
SyncHermes ==
  IF file.state \in Missing \cup {"broken"} \/ \E e \in file.entries : e.to = url THEN {}
  ELSE {Written(file.entries \cup Ours({"open-free-router"}), file.default)}

\* One block of the settings.  It needs a model: over an empty registry it
\* raises, and the exception becomes the client's result.
SyncClaude(explicit) ==
  IF (~explicit /\ file.state = "nodir") \/ file.state = "broken" \/ reg = {} THEN {}
  ELSE {Written(Keyed(file.entries, Ours({"open-free-router"})), file.default)}

\* The managed block goes, cut off or not, and is written anew at the end; the
\* default is pointed to a model of it unless the user chose another.
SyncKimi(explicit) ==
  IF ~explicit /\ file.state = "nodir" THEN {}
  ELSE {Written({e \in file.entries : e.by # "router"} \cup Ours(reg), d) :
          d \in IF reg = {} \/ file.default = "theirs" THEN {file.default} ELSE reg}

\* One entry with every model.  The default is set where there is none or its
\* model is gone, which the user's is when the entry it names was taken out.
SyncOpenclaw(explicit) ==
  LET astray == \/ file.default \in {"none"} \cup (Providers \ reg)
                \/ file.default = "theirs"
                   /\ \E e \in file.entries : e.by = "user" /\ PointsToLocalProxy(e)
      stays == reg = {} \/ ~astray \/ file.default = "theirs"
  IN IF (~explicit /\ file.state \in Missing) \/ file.state \in {"empty", "broken"} THEN {}
     ELSE {Written(Keyed(Foreign, Ours({"open-free-router"})), d) :
             d \in (IF stays THEN {file.default} ELSE {})
                   \cup (IF astray THEN reg ELSE {})}

\* A list: no entry is written over for its name.
SyncWorkbuddy(explicit) ==
  IF (~explicit /\ file.state = "nodir") \/ file.state \in {"empty", "broken"} THEN {}
  ELSE {Written(Foreign \cup Ours(reg), file.default)}

\* Only when asked for by name: a profile of the router's own, for one model.
SyncCodex(explicit) ==
  IF ~explicit \/ reg = {} THEN {} ELSE {Written(Ours({"open-free-router"}), "none")}

Wanted(explicit) ==
  CASE client = "pi" -> SyncPi
    [] client = "omp" -> SyncOmp
    [] client = "opencode" -> SyncOpencode
    [] client = "hermes" -> SyncHermes
    [] client = "claude" -> SyncClaude(explicit)
    [] client = "kimi" -> SyncKimi(explicit)
    [] client = "openclaw" -> SyncOpenclaw(explicit)
    [] client = "workbuddy" -> SyncWorkbuddy(explicit)
    [] client = "codex" -> SyncCodex(explicit)

\* sync_all: the files are copied first (Pi's is not), over the copies of the
\* sync before, also for a client that is then left alone.
Read(explicit) ==
  /\ sync = NoSync
  /\ backup' = IF file.state \in Missing \/ client = "pi" THEN backup ELSE file
  /\ \/ Wanted(explicit) = {} /\ UNCHANGED sync
     \/ \E f \in Wanted(explicit) : sync' = [at |-> "read", file |-> f, of |-> <<reg, url>>]
  /\ UNCHANGED <<client, file, reg, url, edits, current>>

Open ==
  /\ sync.at = "read"
  /\ sync' = [sync EXCEPT !.at = "open"]
  /\ file' = File("empty", {}, "none")
  /\ current' = FALSE
  /\ UNCHANGED <<client, backup, reg, url, edits>>

Write ==
  /\ sync.at = "open"
  /\ sync' = NoSync
  /\ file' = sync.file
  /\ current' = (sync.of = <<reg, url>>)
  /\ UNCHANGED <<client, backup, reg, url, edits>>

\* The process ends; of a longer text a part may have been written.
CutShort ==
  /\ sync # NoSync
  /\ sync' = NoSync
  /\ \/ UNCHANGED file
     \/ sync.at = "open" /\ file' = File("broken", {}, "none")
  /\ UNCHANGED <<client, backup, reg, url, edits, current>>

-----------------------------------------------------------------------------
\* The world: a refresh changes the registry, a restart the address, and the user
\* edits the file, installs the client or puts the copy back.
Changes == edits < MaxEdits /\ edits' = edits + 1

ChangeRegistry ==
  /\ Changes
  /\ reg' \in SUBSET Providers /\ reg' # reg /\ current' = FALSE
  /\ UNCHANGED <<client, file, backup, url, sync>>

ChangeAddress ==
  /\ Changes /\ sync = NoSync
  /\ url' \in Routers \ {url} /\ current' = FALSE
  /\ UNCHANGED <<client, file, backup, reg, sync>>

UserAdds(n, to) ==
  /\ Changes /\ client # "codex" /\ sync.at # "open"
  /\ file.state \in {"absent", "whole"} /\ n \notin {e.name : e \in file.entries}
  /\ \E d \in {file.default, "theirs"} :
       file' = File("whole", file.entries \cup {Entry(n, to, "user")}, d)
  /\ UNCHANGED <<client, backup, reg, url, sync, current>>

UserRestores ==
  /\ Changes /\ sync = NoSync /\ file.state \in {"empty", "broken"}
  /\ file' = backup /\ current' = FALSE
  /\ UNCHANGED <<client, backup, reg, url, sync>>

Next ==
  \/ \E explicit \in BOOLEAN : Read(explicit)
  \/ Open \/ Write \/ CutShort
  \/ ChangeRegistry \/ ChangeAddress \/ UserRestores
  \/ \E n \in UserNames, to \in {"machine", "remote"} : UserAdds(n, to)

Spec == Init /\ [][Next]_vars
-----------------------------------------------------------------------------
\* What the writers cannot tell for the router's own on a host that is not
\* loopback: OMP's and OpenCode's keep what they wrote for a provider that is
\* gone, WorkBuddy's what it wrote for another address.
Overlooked(e, names, at) ==
  /\ e.to \notin Local
  /\ \/ client \in {"omp", "opencode"} /\ e.name \notin names
     \/ client = "workbuddy" /\ e.to # at

\* After a sync, and until the registry or the address changes again, whatever
\* was written before, for whatever address: the file tells of the router every
\* provider of the registry, where the router is now; what else it tells of the
\* router is what the writers overlook, of another host; and no default names a
\* model of ours that is gone.  (Pi and Hermes know the router's entries by its
\* address of now only, so all they wrote for another one stays.)
RouterEntriesAreCurrent ==
  current /\ file.state = "whole" /\ client \notin {"pi", "hermes"} =>
    /\ \A e \in file.entries : e.by = "router" =>
         \/ e.to = url /\ (e.name \in reg \/ client \in {"claude", "openclaw", "codex"})
         \/ Overlooked(e, reg, url)
    /\ client \notin {"claude", "openclaw", "codex"} => Ours(reg) \subseteq file.entries
    /\ reg # {} /\ file.default \in Providers => file.default \in reg

\* write_pi_models' own words, sync.py:105: the providers a user manages, with
\* other base URLs, are preserved across syncs.
UserProvidersArePreserved ==
  [][client = "pi" /\ sync.at = "none" /\ sync'.at = "read" =>
       \A e \in file.entries : e.by = "user" /\ e.to = "remote" => e \in sync'.file.entries]_vars
=============================================================================
