------------------------------- MODULE SetAttr -------------------------------
(***************************************************************************)
(* SETATTR, from the kernel's request to the system calls in the container *)
(* (Node.Setattr, DockerFuseClient.setAttr, DockerFuseFSOps.SetAttr).      *)
(*                                                                         *)
(* The satellite makes up to four system calls on the path, one after the  *)
(* other, and each may fail.  Calls on two nodes interleave: here a file   *)
(* and a symbolic link to it, both of them reached through the mount.      *)
(* Other processes of the container remove or replace the file meanwhile.  *)
(*                                                                         *)
(* The value of an attribute is the call that set it last.                 *)
(***************************************************************************)
EXTENDS Naturals

CONSTANTS
  Reqs,     \* SETATTR calls
  Inodes,   \* regular files the name "file" may lead to, one after the other
  Askable,  \* attributes the calls ask for
  Modes,    \* mode_t words the calls ask for, each the set of positions of its one bits
  MaxReplaced,  \* bound on how often the file is removed or replaced
  Link,     \* the inode of the symbolic link "link" -> "file"
  Gone      \* "file" does not exist

ASSUME SetAttrAssumption ==
  /\ Link \notin Inodes /\ Gone \notin Inodes \cup {Link}
  /\ Modes \subseteq SUBSET (0 .. 11)
  /\ MaxReplaced \in Nat
  /\ {"orig", "now"} \cap Reqs = {}

\* Mutant of SATTR: a bit too far.
SATTR_Shifted == [atime |-> 0, gid |-> 1, mode |-> 2, mtime |-> 3, size |-> 4, uid |-> 6]

\* The SATTR_* bits of SetAttrRequest.ValidAttrs.
SATTR == [atime |-> 0, gid |-> 1, mode |-> 2, mtime |-> 3, size |-> 4, uid |-> 5]
Attrs == DOMAIN SATTR

ASSUME AskableAssumption == Askable \subseteq Attrs

\* The groups of attributes set by one system call, in the order of SetAttr; the Stat at
\* the end is call number 5.
Group == <<{"mode"}, {"uid", "gid"}, {"atime", "mtime"}, {"size"}>>
StatCall == 5

VARIABLES
  name,     \* the inode "file" names, or Gone
  attr,     \* attr[i][a]: "orig", the call that set it, or "now" (set by the kernel itself)
  mode,     \* mode[i]: the permission, sticky (9), setgid (10) and setuid (11) bits
  replaced, \* how often the file was removed or replaced
  path,     \* path[r]: node.fullPath
  asked,    \* asked[r]: the attributes fuse.SetAttrIn has
  want,     \* want[r]: its mode
  bits,     \* bits[r]: SetAttrRequest.ValidAttrs
  at,       \* at[r]: the next system call of the handler, 0 before the call
  outcome,  \* outcome[r]: "none", "ok", "error"
  reply     \* reply[r]: the attributes the kernel gets

fsVars == <<name, attr, mode, replaced>>
requestVars == <<path, asked, want, bits>>
setAttrVars == <<fsVars, requestVars, at, outcome, reply>>

Unset == [a \in Attrs |-> "orig"]

SetAttrInit ==
  /\ name \in Inodes
  /\ attr = [i \in Inodes \cup {Link} |-> Unset]
  /\ mode = [i \in Inodes \cup {Link} |-> {}]
  /\ replaced = 0
  /\ path = [r \in Reqs |-> "file"]
  /\ asked = [r \in Reqs |-> {}]
  /\ want = [r \in Reqs |-> {}]
  /\ bits = [r \in Reqs |-> {}]
  /\ at = [r \in Reqs |-> 0]
  /\ outcome = [r \in Reqs |-> "none"]
  /\ reply = [r \in Reqs |-> Unset]

-------------------------------------------------------------------------------
(* The request                                                              *)

\* SetATime, SetMode and the other setters: what setAttr puts in ValidAttrs.
ValidAttrs(attrs) == {SATTR[a] : a \in attrs}

\* GetATime, GetMode and the other getters: the attributes the satellite finds valid.
Valid(r) == {a \in Attrs : SATTR[a] \in bits[r]}

\* Mutant of NextCall: looks past the next call.
NextCall_Skips(valid, i) ==
  CHOOSE j \in (i + 1) .. StatCall :
    /\ j = StatCall \/ (j > i + 1 /\ Group[j] \cap valid # {})
    /\ \A k \in (i + 2) .. (j - 1) : Group[k] \cap valid = {}

\* The first system call after number i that the request needs.
NextCall(valid, i) ==
  CHOOSE j \in (i + 1) .. StatCall :
    /\ j = StatCall \/ Group[j] \cap valid # {}
    /\ \A k \in (i + 1) .. (j - 1) : Group[k] \cap valid = {}

\* Node.Setattr and setAttr send the request, and its handler starts.  The kernel
\* makes one SETATTR at a time on a node.
Setattr(r, p, attrs, m) ==
  /\ at[r] = 0
  /\ \A q \in Reqs : at[q] # 0 /\ path[q] = p => outcome[q] # "none"
  /\ path' = [path EXCEPT ![r] = p]
  /\ asked' = [asked EXCEPT ![r] = attrs]
  /\ want' = [want EXCEPT ![r] = m]
  /\ bits' = [bits EXCEPT ![r] = ValidAttrs(attrs)]
  /\ at' = [at EXCEPT ![r] = NextCall({a \in Attrs : SATTR[a] \in ValidAttrs(attrs)}, 0)]
  /\ UNCHANGED <<fsVars, outcome, reply>>

-------------------------------------------------------------------------------
(* The handler                                                              *)

\* A successful system call number i of r on the file its path leads to: chmod, chown,
\* utimensat and truncate all follow a symbolic link.
Performs(r, i) ==
  /\ at[r] = i /\ outcome[r] = "none"
  /\ name # Gone
  /\ at' = [at EXCEPT ![r] = NextCall(Valid(r), i)]
  /\ UNCHANGED <<name, replaced, requestVars, outcome, reply>>

\* The inode's attributes with those in attrs set by r.
SetBy(r, attrs) == [a \in Attrs |-> IF a \in attrs THEN r ELSE attr[name][a]]

\* Mutant of ChmodMode: m is given to os.Chmod without the bits of the group and of others.
ChmodMode_OwnerOnly(m) == m \cap 6 .. 8

\* os.Chmod(path, os.FileMode(m)): os.FileMode keeps the bits of the mode_t m where they
\* are, and os.Chmod looks for sticky, setgid and setuid in bits 20, 22 and 23.
ChmodMode(m) ==
  (m \cap 0 .. 8) \cup (IF 20 \in m THEN {9} ELSE {})
    \cup (IF 22 \in m THEN {10} ELSE {}) \cup (IF 23 \in m THEN {11} ELSE {})

Chmod(r) ==
  /\ Performs(r, 1)
  /\ attr' = [attr EXCEPT ![name] = SetBy(r, {"mode"})]
  /\ mode' = [mode EXCEPT ![name] = ChmodMode(want[r])]

\* Mutant of Chown: an owner or group that is not asked for is set too.
Chown_Both(r) ==
  /\ Performs(r, 2)
  /\ attr' = [attr EXCEPT ![name] = SetBy(r, {"uid", "gid"})]
  /\ UNCHANGED mode

\* An owner or group that is not asked for is passed as -1.  The kernel may clear setuid
\* and setgid.
Chown(r) ==
  /\ Performs(r, 2)
  /\ attr' = [attr EXCEPT ![name] = SetBy(r, Valid(r) \cap {"uid", "gid"})]
  /\ \E m \in {mode[name], mode[name] \ {10, 11}} : mode' = [mode EXCEPT ![name] = m]

\* A time that is not asked for is passed as UTIME_OMIT.
UtimesNano(r) ==
  /\ Performs(r, 3)
  /\ attr' = [attr EXCEPT ![name] = SetBy(r, Valid(r) \cap {"atime", "mtime"})]
  /\ UNCHANGED mode

\* A truncate that changes the size sets the modification time to the current time.
Truncate(r) ==
  /\ Performs(r, 4)
  /\ \E m \in {attr[name]["mtime"], "now"} :
       attr' = [attr EXCEPT ![name] = [SetBy(r, {"size"}) EXCEPT !["mtime"] = m]]
  /\ UNCHANGED mode

\* A system call fails, for want of the file or for any other reason; SetAttr returns at
\* once.
CallFails(r) ==
  /\ at[r] # 0 /\ outcome[r] = "none"
  /\ outcome' = [outcome EXCEPT ![r] = "error"]
  /\ UNCHANGED <<fsVars, requestVars, at, reply>>

\* The inode Lstat looks at; it does not follow the link.
LstatInode(p) == IF p = "link" THEN Link ELSE name

\* Mutant of Stat: the reply is left as it is.
Stat_NoReply(r) ==
  /\ at[r] = StatCall /\ outcome[r] = "none"
  /\ outcome' = [outcome EXCEPT ![r] = "ok"]
  /\ UNCHANGED <<fsVars, requestVars, at, reply>>

\* Stat fills the reply, setAttr copies it, and Node.Setattr returns it to the kernel.
Stat(r) ==
  /\ at[r] = StatCall /\ outcome[r] = "none"
  /\ LstatInode(path[r]) # Gone
  /\ reply' = [reply EXCEPT ![r] = attr[LstatInode(path[r])]]
  /\ outcome' = [outcome EXCEPT ![r] = "ok"]
  /\ UNCHANGED <<fsVars, requestVars, at>>

\* Another process removes the file, or renames or creates another one in its place.
Replace ==
  /\ replaced < MaxReplaced
  /\ replaced' = replaced + 1
  /\ \E i \in (Inodes \cup {Gone}) \ {name} : name' = i
  /\ UNCHANGED <<attr, mode, requestVars, at, outcome, reply>>

Finished == (\A r \in Reqs : outcome[r] # "none") /\ UNCHANGED setAttrVars

Handle(r) == Chmod(r) \/ Chown(r) \/ UtimesNano(r) \/ Truncate(r) \/ Stat(r) \/ CallFails(r)

SetAttrNext ==
  \/ \E r \in Reqs, p \in {"file", "link"}, attrs \in SUBSET Askable, m \in Modes :
       Setattr(r, p, attrs, m)
  \/ \E r \in Reqs : Handle(r)
  \/ Replace
  \/ Finished

SetAttrSpec == SetAttrInit /\ [][SetAttrNext]_setAttrVars

-------------------------------------------------------------------------------
(* Properties                                                               *)

Values == {"orig", "now"} \cup Reqs

SetAttrTypeOK ==
  /\ name \in Inodes \cup {Gone}
  /\ attr \in [Inodes \cup {Link} -> [Attrs -> Values]]
  /\ mode \in [Inodes \cup {Link} -> SUBSET (0 .. 11)]
  /\ replaced \in 0 .. MaxReplaced
  /\ path \in [Reqs -> {"file", "link"}]
  /\ asked \in [Reqs -> SUBSET Attrs]
  /\ want \in [Reqs -> Modes \cup {{}}]
  /\ bits \in [Reqs -> SUBSET (0 .. 5)]
  /\ at \in [Reqs -> 0 .. StatCall]
  /\ outcome \in [Reqs -> {"none", "ok", "error"}]
  /\ reply \in [Reqs -> [Attrs -> Values]]

\* The values attribute a may have after a call that asked for it.
NewValues(a) == {q \in Reqs : a \in asked[q]} \cup (IF a = "mtime" THEN {"now"} ELSE {})

\* Concurrent calls do not undo each other's work: what a successful SetAttr set stays
\* set until a call that asked for the same attribute, or a truncate for the
\* modification time, sets it again (-1 and UTIME_OMIT in DockerFuseFSOps.SetAttr).
NoUpdateLost ==
  \A r \in Reqs : outcome[r] = "ok" =>
    \A a \in asked[r] : \E i \in Inodes : attr[i][a] \in NewValues(a)

\* A SetAttr that fails has done the calls before the failing one and none of the others:
\* it never sets an attribute of the failing call or of a later one.
FailureLeavesPrefix ==
  \A r \in Reqs : outcome[r] = "error" =>
    \A k \in 1 .. 4 : \A a \in Group[k] \cap asked[r] :
      IF k < at[r]
        THEN \E i \in Inodes : attr[i][a] \in NewValues(a)
        ELSE \A i \in Inodes : attr[i][a] # r

\* The attributes in the reply, which the kernel caches, are not older than the call: if the
\* file was never replaced they show every change that was asked for.
ReplyIsFresh ==
  \A r \in Reqs : outcome[r] = "ok" /\ path[r] = "file" /\ replaced = 0 =>
    \A a \in asked[r] : reply[r][a] \in NewValues(a)

\* "SetAttr changes file attributes like mode": the mode a successful call asked for,
\* setuid, setgid and sticky included, is the one the file gets, unless another call sets
\* its own.
ModeIsComplete ==
  \A r \in Reqs : outcome[r] = "ok" /\ "mode" \in asked[r] =>
    \E i \in Inodes, q \in Reqs : "mode" \in asked[q] /\ mode[i] = want[q]
===============================================================================
