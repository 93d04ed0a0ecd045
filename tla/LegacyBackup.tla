---------------------------- MODULE LegacyBackup ----------------------------
(***************************************************************************)
(* A full backup of the workspace of files (backup/ops.py) next to its     *)
(* writers: scan, copy, scan again, publish by one rename.  The operator   *)
(* attests that the writers are stopped; nothing enforces it.  A scan      *)
(* records the bytes of each file and which file it is (inode, time, size  *)
(* and mode); a replaced file is never the same one again.                 *)
(***************************************************************************)
EXTENDS LegacyWorkspace

CONSTANTS
    Absent,         \* a file that is not there
    Order,          \* the names of all files, as a scan reaches them
    MaxBackups      \* bound: attempts ever started

VARIABLES
    backup,      \* the attempt that runs: its step, the files it has visited, its first
                 \* scan, and whether that is the workspace at one instant (history variable)
    output,      \* what is published at the output path
    attempts

backups == <<backup, output, attempts>>
vars == <<disk, replaced, proc, commands, ingested, lost, backup, output, attempts>>

\* Every name a file of the workspace can have.
Archives == {Archive(Numbered(n)) : n \in 1..Cardinality(Dated)} \cup
            {Archive(Digest(w)) : w \in Workbooks \ Dated}
Names == Tables \cup Archives

\* A scan reaches directories from the last to the first, files before the directories next
\* to them.
Directory(f) == CASE f \in Transactions -> 1 [] f = History -> 2 [] f \in Archives -> 3 [] OTHER -> 4
Reached(f, g) ==
    \/ Directory(f) < Directory(g)
    \/ f \in AllPartitions /\ g \in AllPartitions /\ Directory(f) = Directory(g) /\ f[2] > g[2]
ASSUME OrderAssumption ==
    /\ Order \in Seq(Names) /\ Order # <<>>
    /\ Names = {Order[i] : i \in DOMAIN Order}
    /\ \A i, j \in DOMAIN Order : Reached(Order[i], Order[j]) => i < j

FileAt(f) == IF f \in DOMAIN disk THEN disk[f] ELSE Absent
Tree == [f \in Names |-> FileAt(f)]

Stopped == [at |-> "stopped", visited |-> 0, scan |-> Empty, whole |-> FALSE]
Running == backup.at \in {"scan", "copy", "rescan", "compare"}

\* The tables of a tree are those of the workspace.
Agrees(tree) == \A f \in Tables : tree[f] = FileAt(f)

\* The attempt ends; a file that no output records is not compared with any more.
Stop ==
    /\ backup' = Stopped
    /\ replaced' = IF output = None THEN Names ELSE replaced

StartBackup ==
    /\ ~Running
    /\ attempts < MaxBackups
    /\ attempts' = attempts + 1
    /\ backup' = IF output = None THEN [Stopped EXCEPT !.at = "scan"]
                 ELSE [Stopped EXCEPT !.at = "compare", !.whole = Agrees(output.tree)]
    /\ UNCHANGED <<disk, replaced, proc, commands, ingested, lost, output>>

This == Order[backup.visited + 1]
IsLast == backup.visited + 1 = Len(Order)
Visited == [backup EXCEPT !.visited = @ + 1]

\* The first scan_roots (fingerprint_file fails if the file changes under it).
Scan ==
    /\ backup.at = "scan"
    /\ replaced' = replaced \ {This}
    /\ LET now == [Visited EXCEPT !.scan = With(@, This, FileAt(This))]
       IN backup' = IF IsLast THEN [now EXCEPT !.at = "copy", !.whole = (now.scan = Tree)] ELSE now
    /\ UNCHANGED <<disk, proc, commands, ingested, lost, output, attempts>>

\* copy_inventory and the scan of the copy: they fail unless the bytes are those that
\* were scanned, which they were when the scan read them.
Copy ==
    /\ backup.at = "copy"
    /\ \/ /\ backup' = [backup EXCEPT !.at = "rescan", !.visited = 0]
          /\ UNCHANGED replaced
       \/ /\ \E f \in Names : FileAt(f) # backup.scan[f]
          /\ Stop
    /\ UNCHANGED <<disk, proc, commands, ingested, lost, output, attempts>>

\* Mutant: the second scan compares bytes only.
SameBytes(f) == FileAt(f) = IF output = None THEN backup.scan[f] ELSE output.tree[f]
\* fingerprints_equal, one file of it.
Same(f) == f \notin replaced

\* The second scan of the live files, then atomic_publish.
Rescan ==
    /\ backup.at = "rescan"
    /\ \/ /\ ~Same(This)
          /\ Stop
          /\ UNCHANGED output
       \/ /\ Same(This) /\ ~IsLast
          /\ backup' = Visited
          /\ UNCHANGED <<replaced, output>>
       \/ /\ Same(This) /\ IsLast
          /\ output' = [tree |-> backup.scan, whole |-> backup.whole]
          /\ backup' = Stopped
          /\ UNCHANGED replaced
    /\ UNCHANGED <<disk, proc, commands, ingested, lost, attempts>>

\* _manifest_matches_inventory, one file of it: not by inode, and an archived copy has
\* the time of its workbook, whenever it was made.
Matches(f) == Same(f) \/ (f \in Names \ Tables /\ FileAt(f) = output.tree[f])

\* _existing_output: an output that is there is complete if it matches the workspace.
Compare ==
    /\ backup.at = "compare"
    /\ backup' = IF ~Matches(This) THEN Stopped
                 ELSE IF IsLast THEN [backup EXCEPT !.at = "complete"] ELSE Visited
    /\ UNCHANGED <<disk, replaced, proc, commands, ingested, lost, output, attempts>>

\* The staging directory of a killed attempt is left aside and never read.
KillBackup ==
    /\ Running
    /\ Stop
    /\ UNCHANGED <<disk, proc, commands, ingested, lost, output, attempts>>

\* The workspace may have a backup already.
Init ==
    /\ WorkspaceInit
    /\ \/ output = None /\ replaced = Names
       \/ output = [tree |-> Tree, whole |-> TRUE] /\ replaced = {}
    /\ backup = Stopped
    /\ attempts = 0

\* Bound: a run ends with its last attempt; without one the commands run on to their end.
Over == attempts = MaxBackups /\ ~Running
Work == ~Over /\ WorkspaceNext /\ UNCHANGED backups
TakeBackup == StartBackup \/ Scan \/ Copy \/ Rescan \/ Compare \/ KillBackup

Next == Work \/ TakeBackup
Spec == Init /\ [][Next]_vars

\* A published backup is the whole workspace as it was at one instant of the attempt, and an
\* attempt that finds its output complete has found the tables equal to it at one instant,
\* although commands replace files between any two visits (the scans of _capture_to_staging
\* and _existing_output).  Archived copies it finds equal one by one: one may be replaced by
\* another with the same id and put back.
BackupIsSnapshot ==
    /\ output # None => output.whole
    /\ backup.at = "complete" => backup.whole

=============================================================================
