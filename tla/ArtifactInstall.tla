-------------------------- MODULE ArtifactInstall --------------------------
(***************************************************************************)
(* Installing the files of an artifact, and being killed while at it.      *)
(*   hf  artifacts/download.py: every file has a sum; the download is      *)
(*       copied over the file in place                                     *)
(*   rk  backends/rk/artifacts.py: a sum is optional; the download goes to *)
(*       a .tmp beside the file and is renamed                             *)
(***************************************************************************)
EXTENDS Naturals

CONSTANTS
    Installer,      \* processes that may install
    NFiles,         \* bound: files of the artifact
    Together        \* may two of them install at a time?

VARIABLES
    store, summed,  \* which installer; do the files have sums
    disk, tmp,      \* what each file, and its .tmp, holds
    install         \* where each process is, and at which file

artifactVars == <<store, summed, disk, tmp, install>>

File == 1 .. NFiles
Idle == [pc |-> "idle", file |-> 1]

Init ==
    /\ store \in {"hf", "rk"} /\ summed \in BOOLEAN /\ (store = "hf" => summed)
    /\ disk \in [File -> {"absent", "wrong", "right"}]
    /\ tmp = [f \in File |-> "absent"]
    /\ install = [i \in Installer |-> Idle]

In(i, pc)      == install[i].pc = pc
Goto(i, pc)    == install' = [install EXCEPT ![i].pc = pc]
Fails(i)       == install' = [install EXCEPT ![i] = Idle]
At(i)          == install[i].file
Installing(i)  == install[i].pc \notin {"idle", "ok"}

\* On to the next file, or to the contract of the RK set.
NextFile(i) ==
    install' = [install EXCEPT ![i] =
        IF At(i) < NFiles THEN [pc |-> "check", file |-> At(i) + 1]
        ELSE [pc |-> IF store = "rk" THEN "contract" ELSE "ok", file |-> 1]]

Start(i) ==
    /\ ~Installing(i)
    /\ Together \/ \A j \in Installer : ~Installing(j)
    /\ install' = [install EXCEPT ![i] = [pc |-> "check", file |-> 1]]
    /\ UNCHANGED <<store, summed, disk, tmp>>

\* Mutant of Present: any file of that name will do.
Exists(f) == disk[f] # "absent"

\* A file that is there, and right where there is a sum, is kept.
Present(f) == Exists(f) /\ (summed => disk[f] = "right")

Check(i) ==
    /\ In(i, "check")
    /\ IF Present(At(i)) THEN NextFile(i) ELSE Goto(i, "fetch")
    /\ UNCHANGED <<store, summed, disk, tmp>>

\* No repository, no network, or not this file.
FetchFails(i) ==
    /\ In(i, "fetch") /\ Fails(i)
    /\ UNCHANGED <<store, summed, disk, tmp>>

\* The target is opened, and from now on it is a part of a file.
OpenTarget(i) ==
    /\ In(i, "fetch") /\ Goto(i, "copy")
    /\ IF store = "hf" THEN disk' = [disk EXCEPT ![At(i)] = "part"] /\ UNCHANGED tmp
       ELSE tmp' = [tmp EXCEPT ![At(i)] = "part"] /\ UNCHANGED disk
    /\ UNCHANGED <<store, summed>>

\* The copy ends: the file that was asked for, or not.
CopyEnds(i) ==
    /\ In(i, "copy")
    /\ \E what \in {"right", "wrong"} :
          IF store = "hf"
          THEN disk' = [disk EXCEPT ![At(i)] = what] /\ Goto(i, "verify") /\ UNCHANGED tmp
          ELSE tmp' = [tmp EXCEPT ![At(i)] = what] /\ Goto(i, "rename") /\ UNCHANGED disk
    /\ UNCHANGED <<store, summed>>

\* A full disk, a lost connection: only the .tmp is cleaned up.
CopyFails(i) ==
    /\ In(i, "copy") /\ Fails(i)
    /\ tmp' = [tmp EXCEPT ![At(i)] = "absent"]
    /\ UNCHANGED <<store, summed, disk>>

\* os.replace, which raises when another process has taken the .tmp away.
Rename(i) ==
    /\ In(i, "rename")
    /\ IF tmp[At(i)] = "absent" THEN Fails(i) /\ UNCHANGED <<disk, tmp>>
       ELSE /\ disk' = [disk EXCEPT ![At(i)] = tmp[At(i)]]
            /\ tmp' = [tmp EXCEPT ![At(i)] = "absent"]
            /\ Goto(i, "verify")
    /\ UNCHANGED <<store, summed>>

\* A file with the wrong sum, or none any more, is removed and ends the install.
Verify(i) ==
    /\ In(i, "verify")
    /\ IF summed => disk[At(i)] = "right" THEN NextFile(i) /\ UNCHANGED disk
       ELSE Fails(i) /\ disk' = [disk EXCEPT ![At(i)] = "absent"]
    /\ UNCHANGED <<store, summed, tmp>>

\* _validate_runtime_contract raises, or lets the install be.
Contract(i) ==
    /\ In(i, "contract")
    /\ Goto(i, "ok") \/ Fails(i)
    /\ UNCHANGED <<store, summed, disk, tmp>>

\* The process is killed: what is on the disk stays.
Killed(i) ==
    /\ Installing(i) /\ Fails(i)
    /\ UNCHANGED <<store, summed, disk, tmp>>

Next ==
    \E i \in Installer :
       \/ Start(i) \/ Check(i) \/ FetchFails(i) \/ OpenTarget(i) \/ CopyEnds(i)
       \/ CopyFails(i) \/ Rename(i) \/ Verify(i) \/ Contract(i) \/ Killed(i)

Spec == Init /\ [][Next]_artifactVars

(***************************************************************************)
(* Properties.                                                             *)
(***************************************************************************)
\* While installs come one after the other, an install that was reported done
\* stays whole, whatever happened to those before and after it: every file is
\* the right one, or, without a sum to tell, at least not a part of one.
InstallIsWhole ==
    \A i \in Installer : In(i, "ok") =>
        \A f \in File : disk[f] \in {"right"} \cup (IF summed THEN {} ELSE {"wrong"})
=============================================================================
