---------------------------- MODULE SetAttrProofs ----------------------------
(***************************************************************************)
(* Proofs about SetAttr, for any number of concurrent calls, inodes and    *)
(* replacements of the file and for any attributes asked for.              *)
(*                                                                         *)
(* The properties speak of finished calls.  SetAttrInv says the same of    *)
(* the calls a running handler has made, and of those it has still to      *)
(* make.                                                                   *)
(***************************************************************************)
EXTENDS SetAttr, TLAPS

\* A leaf of first-order logic and sets names no prover; the others go to SMT and, should it
\* run out of time, to Z3.
USE ZenonT(30)

\* Every attribute belongs to one group.
LEMMA Groups ==
  /\ Group[1] = {"mode"} /\ Group[2] = {"uid", "gid"}
  /\ Group[3] = {"atime", "mtime"} /\ Group[4] = {"size"}
  /\ Attrs = {"atime", "gid", "mode", "mtime", "size", "uid"}
BY DEF Group, Attrs, SATTR

\* The next call is needed, and the ones it skips are not.
LEMMA NextCallSkips ==
  ASSUME NEW valid, NEW i \in 0 .. 4
  PROVE  /\ NextCall(valid, i) \in (i + 1) .. 5
         /\ NextCall(valid, i) = 5 \/ Group[NextCall(valid, i)] \cap valid # {}
         /\ \A k \in (i + 1) .. (NextCall(valid, i) - 1) : Group[k] \cap valid = {}
<1> DEFINE P(j) == /\ j = StatCall \/ Group[j] \cap valid # {}
                   /\ \A k \in (i + 1) .. (j - 1) : Group[k] \cap valid = {}
<1>1. \E j \in (i + 1) .. StatCall : P(j)
  <2> DEFINE E(k) == Group[k] \cap valid = {}
  <2>1. CASE i < 1 /\ ~E(1)
    <3>1. P(1) BY <2>1, SMT, Z3T(30) DEF StatCall
    <3> QED BY <2>1, <3>1, SMT, Z3T(30) DEF StatCall
  <2>2. CASE (i < 1 => E(1)) /\ i < 2 /\ ~E(2)
    <3>1. P(2) BY <2>2, SMT, Z3T(30) DEF StatCall
    <3> QED BY <2>2, <3>1, SMT, Z3T(30) DEF StatCall
  <2>3. CASE (i < 1 => E(1)) /\ (i < 2 => E(2)) /\ i < 3 /\ ~E(3)
    <3>1. P(3) BY <2>3, SMT, Z3T(30) DEF StatCall
    <3> QED BY <2>3, <3>1, SMT, Z3T(30) DEF StatCall
  <2>4. CASE (i < 1 => E(1)) /\ (i < 2 => E(2)) /\ (i < 3 => E(3)) /\ i < 4 /\ ~E(4)
    <3>1. P(4) BY <2>4, SMT, Z3T(30) DEF StatCall
    <3> QED BY <2>4, <3>1, SMT, Z3T(30) DEF StatCall
  <2>5. CASE (i < 1 => E(1)) /\ (i < 2 => E(2)) /\ (i < 3 => E(3)) /\ (i < 4 => E(4))
    <3>1. P(5) BY <2>5, SMT, Z3T(30) DEF StatCall
    <3> QED BY <3>1, SMT, Z3T(30) DEF StatCall
  <2> QED
    BY <2>1, <2>2, <2>3, <2>4, <2>5
<1>2. NextCall(valid, i) = CHOOSE j \in (i + 1) .. StatCall : P(j)
  BY DEF NextCall
<1> HIDE DEF P
<1>3. NextCall(valid, i) \in (i + 1) .. StatCall /\ P(NextCall(valid, i))
  BY <1>1, <1>2
<1> QED
  BY <1>3 DEF P, StatCall

-------------------------------------------------------------------------------
(* The invariant                                                            *)

ProofTypeOK ==
  /\ name \in Inodes \cup {Gone}
  /\ attr \in [Inodes \cup {Link} -> [Attrs -> Values]]
  /\ replaced \in Nat /\ (replaced = 0 => name \in Inodes)
  /\ path \in [Reqs -> {"file", "link"}]
  /\ asked \in [Reqs -> SUBSET Attrs]
  /\ bits = [r \in Reqs |-> ValidAttrs(asked[r])]
  /\ at \in [Reqs -> 0 .. 5]
  /\ outcome \in [Reqs -> {"none", "ok", "error"}]
  /\ reply \in [Reqs -> [Attrs -> Values]]

\* The handler is before a call that the request needs.
AtNeeded ==
  \A r \in Reqs :
    /\ at[r] = 0 => asked[r] = {} /\ outcome[r] = "none"
    /\ at[r] \in 1 .. 4 => Group[at[r]] \cap asked[r] # {}
    /\ outcome[r] = "ok" => at[r] = 5

\* No call has set an attribute of a group it has not come to.
NotAhead ==
  \A r \in Reqs, i \in Inodes, a \in Attrs :
    attr[i][a] = r => \E k \in 1 .. 4 : a \in Group[k] /\ k < at[r]

\* Attribute a has a value that was asked for: in some file, and in the one that is
\* there as long as it is the first.
Renewed(a) ==
  /\ \E i \in Inodes : attr[i][a] \in NewValues(a)
  /\ replaced = 0 => attr[name][a] \in NewValues(a)

\* What the handlers have passed is set.
Behind ==
  \A r \in Reqs, k \in 1 .. 4 : \A a \in Group[k] \cap asked[r] : k < at[r] => Renewed(a)

SetAttrInv == ProofTypeOK /\ AtNeeded /\ NotAhead /\ Behind /\ ReplyIsFresh

\* The satellite finds valid what was asked for: each SATTR_* bit has one attribute.
LEMMA ValidIsAsked ==
  ASSUME ProofTypeOK, NEW r \in Reqs
  PROVE  Valid(r) = asked[r]
<1>1. /\ SATTR["atime"] = 0 /\ SATTR["gid"] = 1 /\ SATTR["mode"] = 2
      /\ SATTR["mtime"] = 3 /\ SATTR["size"] = 4 /\ SATTR["uid"] = 5
  BY DEF SATTR
<1>2. \A a, b \in Attrs : SATTR[a] = SATTR[b] => a = b
  BY <1>1, Groups, SMT, Z3T(30)
<1>3. bits[r] = {SATTR[a] : a \in asked[r]} /\ asked[r] \subseteq Attrs
  BY DEF ProofTypeOK, ValidAttrs
<1> QED
  BY <1>2, <1>3, SMT, Z3T(30) DEF Valid

\* A successful system call on the file: it gives the attributes of its group that were
\* asked for the value r and may set the modification time to the current time.
Sets(r, i, new) ==
  /\ attr' = [attr EXCEPT ![name] = new]
  /\ \A a \in Attrs : \/ new[a] = attr[name][a]
                      \/ new[a] = r /\ a \in Group[i] \cap asked[r]
                      \/ new[a] = "now" /\ a = "mtime"
  /\ \A a \in Group[i] \cap asked[r] :
       new[a] \in {r} \cup (IF a = "mtime" THEN {"now"} ELSE {})

\* A successful system call of SetAttr that sets the attributes of its group which the
\* request asks for keeps the invariant.
LEMMA CallInv ==
  ASSUME SetAttrInv, NEW r \in Reqs, NEW i \in 1 .. 4, Performs(r, i),
         NEW new \in [Attrs -> Values], Sets(r, i, new)
  PROVE  SetAttrInv'
<1> USE SetAttrAssumption DEF Sets
<1> DEFINE j == NextCall(Valid(r), i)
<1>1. /\ at[r] = i /\ outcome[r] = "none" /\ name \in Inodes
      /\ at' = [at EXCEPT ![r] = j]
      /\ name' = name /\ replaced' = replaced /\ path' = path /\ asked' = asked /\ bits' = bits
      /\ outcome' = outcome /\ reply' = reply
  BY DEF Performs, requestVars, SetAttrInv, ProofTypeOK
<1>2. /\ j \in (i + 1) .. 5
      /\ j = 5 \/ Group[j] \cap asked[r] # {}
      /\ \A k \in (i + 1) .. (j - 1) : Group[k] \cap asked[r] = {}
  <2>1. Valid(r) = asked[r]
    BY ValidIsAsked DEF SetAttrInv
  <2> QED
    BY <2>1, NextCallSkips, SMT, Z3T(30)
<1> HIDE DEF j
<1>3. ProofTypeOK'
  <2> HIDE DEF Sets
  <2>1. attr' \in [Inodes \cup {Link} -> [Attrs -> Values]]
    BY <1>1 DEF Sets, SetAttrInv, ProofTypeOK
  <2>2. at' \in [Reqs -> 0 .. 5]
    BY <1>1, <1>2, SMT, Z3T(30) DEF SetAttrInv, ProofTypeOK
  <2> QED
    BY <1>1, <2>1, <2>2 DEF SetAttrInv, ProofTypeOK, ValidAttrs
<1>4. AtNeeded'
  BY <1>1, <1>2, SMT, Z3T(30) DEF SetAttrInv, ProofTypeOK, AtNeeded
<1>5. /\ attr'[name] = new
      /\ \A n \in Inodes : n # name => attr'[n] = attr[n]
  BY <1>1 DEF SetAttrInv, ProofTypeOK
<1>6. NotAhead'
  <2> SUFFICES ASSUME NEW q \in Reqs, NEW n \in Inodes, NEW a \in Attrs, attr'[n][a] = q
               PROVE  \E k \in 1 .. 4 : a \in Group[k] /\ k < at'[q]
    BY DEF NotAhead
  <2>1. CASE attr[n][a] = q
    <3>1. PICK k \in 1 .. 4 : a \in Group[k] /\ k < at[q]
      BY <2>1 DEF SetAttrInv, NotAhead
    <3>2. k < at'[q]
      BY <1>1, <1>2, <3>1, SMT, Z3T(30) DEF SetAttrInv, ProofTypeOK
    <3> QED
      BY <3>1, <3>2
  <2>2. CASE attr[n][a] # q
    <3>1. n = name /\ new[a] = q /\ q # "now"
      BY <1>5, <2>2
    <3>2. q = r /\ a \in Group[i]
      BY <2>2, <3>1
    <3>3. i < at'[q]
      BY <1>1, <1>2, <3>2, SMT, Z3T(30) DEF SetAttrInv, ProofTypeOK
    <3> QED
      BY <3>2, <3>3
  <2> QED
    BY <2>1, <2>2
<1>7. \A a : NewValues(a)' = NewValues(a)
  BY <1>1 DEF NewValues
<1>8. ASSUME NEW a \in Attrs, new[a] # attr[name][a]
      PROVE  new[a] \in NewValues(a)
  BY <1>8 DEF NewValues
<1>9. ASSUME NEW a \in Attrs, Renewed(a) PROVE Renewed(a)'
  BY <1>1, <1>5, <1>7, <1>8, <1>9, SMT, Z3T(30) DEF Renewed
<1>10. ASSUME NEW a \in Group[i] \cap asked[r] PROVE Renewed(a)'
  <2>1. new[a] \in NewValues(a)
    BY <1>10 DEF NewValues
  <2> QED
    BY <1>1, <1>5, <1>7, <2>1, SMT, Z3T(30) DEF Renewed
<1>11. Behind'
  <2> SUFFICES ASSUME NEW q \in Reqs, NEW k \in 1 .. 4, NEW a \in Group[k] \cap asked[q], k < at'[q]
               PROVE  Renewed(a)'
    BY <1>1 DEF Behind
  <2>0. a \in Attrs
    BY DEF SetAttrInv, ProofTypeOK
  <2>1. CASE k < at[q]
    BY <1>9, <2>0, <2>1 DEF SetAttrInv, Behind
  <2>2. CASE ~(k < at[q])
    <3>1. q = r /\ k >= i /\ k < j
      BY <1>1, <2>2, SMT, Z3T(30) DEF SetAttrInv, ProofTypeOK
    <3>2. k = i
      BY <1>2, <3>1, SMT, Z3T(30)
    <3> QED
      BY <1>10, <3>1, <3>2
  <2> QED
    BY <2>1, <2>2
<1>12. ReplyIsFresh'
  BY <1>1, <1>7 DEF SetAttrInv, ReplyIsFresh
<1> QED
  BY <1>3, <1>4, <1>6, <1>11, <1>12 DEF SetAttrInv

-------------------------------------------------------------------------------
(* The actions                                                              *)

\* Every step of the handler SetAttr, a failing call and the Stat at the end included,
\* keeps the invariant.
LEMMA HandleInv ==
  ASSUME SetAttrInv, NEW r \in Reqs, Handle(r)
  PROVE  SetAttrInv'
<1> USE SetAttrAssumption
<1>0. /\ Valid(r) = asked[r]
      /\ at[r] \in 1 .. 4 => Group[at[r]] \cap asked[r] # {}
  BY ValidIsAsked DEF SetAttrInv, AtNeeded
<1>1. CASE Chmod(r)
  <2>1. Performs(r, 1) /\ "mode" \in asked[r]
    BY <1>0, <1>1, Groups, SMT, Z3T(30) DEF Chmod, Performs
  <2>2. SetBy(r, {"mode"}) \in [Attrs -> Values]
    BY <2>1, SMT, Z3T(30) DEF SetBy, SetAttrInv, ProofTypeOK, Values, Performs
  <2>3. PICK new \in [Attrs -> Values] : new = SetBy(r, {"mode"})
    BY <2>2
  <2>4. \A a \in Attrs : new[a] = IF a = "mode" THEN r ELSE attr[name][a]
    BY <2>3 DEF SetBy
  <2>5. attr' = [attr EXCEPT ![name] = new]
    BY <1>1, <2>3 DEF Chmod
  <2>6. Sets(r, 1, new)
    BY <2>1, <2>4, <2>5, Groups DEF Sets
  <2> QED
    BY <2>1, <2>6, CallInv, SMT, Z3T(30)
<1>2. CASE Chown(r)
  <2>1. Performs(r, 2)
    BY <1>2 DEF Chown
  <2>2. SetBy(r, asked[r] \cap {"uid", "gid"}) \in [Attrs -> Values]
    BY <2>1, SMT, Z3T(30) DEF SetBy, SetAttrInv, ProofTypeOK, Values, Performs
  <2>3. PICK new \in [Attrs -> Values] : new = SetBy(r, asked[r] \cap {"uid", "gid"})
    BY <2>2
  <2>4. \A a \in Attrs : new[a] = IF a \in asked[r] \cap {"uid", "gid"} THEN r ELSE attr[name][a]
    BY <2>3 DEF SetBy
  <2>5. attr' = [attr EXCEPT ![name] = new]
    BY <1>0, <1>2, <2>3 DEF Chown
  <2>6. asked[r] \subseteq Attrs
    BY DEF SetAttrInv, ProofTypeOK
  <2>7. Sets(r, 2, new)
    BY <2>4, <2>6, <2>5, Groups DEF Sets
  <2> QED
    BY <2>1, <2>7, CallInv, SMT, Z3T(30)
<1>3. CASE UtimesNano(r)
  <2>1. Performs(r, 3)
    BY <1>3 DEF UtimesNano
  <2>2. SetBy(r, asked[r] \cap {"atime", "mtime"}) \in [Attrs -> Values]
    BY <2>1, SMT, Z3T(30) DEF SetBy, SetAttrInv, ProofTypeOK, Values, Performs
  <2>3. PICK new \in [Attrs -> Values] : new = SetBy(r, asked[r] \cap {"atime", "mtime"})
    BY <2>2
  <2>4. \A a \in Attrs : new[a] = IF a \in asked[r] \cap {"atime", "mtime"} THEN r ELSE attr[name][a]
    BY <2>3 DEF SetBy
  <2>5. attr' = [attr EXCEPT ![name] = new]
    BY <1>0, <1>3, <2>3 DEF UtimesNano
  <2>6. asked[r] \subseteq Attrs
    BY DEF SetAttrInv, ProofTypeOK
  <2>7. Sets(r, 3, new)
    BY <2>4, <2>6, <2>5, Groups, SMT, Z3T(30) DEF Sets
  <2> QED
    BY <2>1, <2>7, CallInv, SMT, Z3T(30)
<1>4. CASE Truncate(r)
  <2>1. Performs(r, 4) /\ "size" \in asked[r]
    BY <1>0, <1>4, Groups, SMT, Z3T(30) DEF Truncate, Performs
  <2>2. PICK m \in {attr[name]["mtime"], "now"} :
          attr' = [attr EXCEPT ![name] = [SetBy(r, {"size"}) EXCEPT !["mtime"] = m]]
    BY <1>4 DEF Truncate
  <2>3. [SetBy(r, {"size"}) EXCEPT !["mtime"] = m] \in [Attrs -> Values]
    BY <2>1, <2>2, Groups, SMT, Z3T(30) DEF SetBy, SetAttrInv, ProofTypeOK, Values, Performs
  <2>4. PICK new \in [Attrs -> Values] : new = [SetBy(r, {"size"}) EXCEPT !["mtime"] = m]
    BY <2>3
  <2>5. \A a \in Attrs :
          new[a] = IF a = "mtime" THEN m ELSE IF a = "size" THEN r ELSE attr[name][a]
    BY <2>4 DEF SetBy
  <2>6. Sets(r, 4, new)
    BY <2>1, <2>2, <2>5, <2>2, <2>4, Groups, SMT, Z3T(30) DEF Sets
  <2> QED
    BY <2>1, <2>6, CallInv, SMT, Z3T(30)
<1>5. CASE CallFails(r)
  <2>1. /\ at[r] # 0 /\ UNCHANGED <<fsVars, requestVars, at, reply>>
        /\ outcome' = [outcome EXCEPT ![r] = "error"]
    BY <1>5 DEF CallFails
  <2>2. ProofTypeOK'
    BY <2>1 DEF SetAttrInv, ProofTypeOK, fsVars, requestVars
  <2>3. AtNeeded' /\ NotAhead'
    BY <2>1, SMT, Z3T(30) DEF SetAttrInv, ProofTypeOK, AtNeeded, NotAhead, fsVars, requestVars
  <2>4. Behind'
    BY <2>1, SMT, Z3T(30) DEF SetAttrInv, Behind, Renewed, NewValues, fsVars, requestVars
  <2>5. ReplyIsFresh'
    BY <2>1, SMT, Z3T(30)
       DEF SetAttrInv, ProofTypeOK, ReplyIsFresh, NewValues, fsVars, requestVars
  <2> QED
    BY <2>2, <2>3, <2>4, <2>5 DEF SetAttrInv
<1>6. CASE Stat(r)
  <2>1. /\ at[r] = 5 /\ UNCHANGED <<fsVars, requestVars, at>>
        /\ outcome' = [outcome EXCEPT ![r] = "ok"]
        /\ reply' = [reply EXCEPT ![r] = attr[LstatInode(path[r])]]
        /\ LstatInode(path[r]) # Gone
    BY <1>6 DEF Stat, StatCall
  <2>2. LstatInode(path[r]) \in Inodes \cup {Link}
    BY <2>1 DEF LstatInode, SetAttrInv, ProofTypeOK
  <2>3. ProofTypeOK' /\ AtNeeded' /\ NotAhead'
    <3>1. ProofTypeOK'
      BY <2>1, <2>2 DEF SetAttrInv, ProofTypeOK, fsVars, requestVars
    <3>2. AtNeeded' /\ NotAhead'
      BY <2>1, SMT, Z3T(30)
         DEF SetAttrInv, ProofTypeOK, AtNeeded, NotAhead, fsVars, requestVars, ValidAttrs
    <3> QED
      BY <3>1, <3>2
  <2>4. Behind'
    BY <2>1, SMT, Z3T(30) DEF SetAttrInv, Behind, Renewed, NewValues, fsVars, requestVars
  <2>5. ReplyIsFresh'
    <3> SUFFICES ASSUME NEW q \in Reqs, outcome'[q] = "ok", path[q] = "file", replaced = 0,
                        NEW a \in asked[q]
                 PROVE  reply'[q][a] \in NewValues(a)
      BY <2>1 DEF ReplyIsFresh, NewValues, fsVars, requestVars
    <3>1. CASE q = r
      <4>1. reply'[r] = attr[name]
        BY <2>1, <3>1 DEF LstatInode, SetAttrInv, ProofTypeOK
      <4>2. PICK k \in 1 .. 4 : a \in Group[k]
        BY Groups, SMT, Z3T(30) DEF SetAttrInv, ProofTypeOK
      <4>3. Renewed(a)
        BY <2>1, <3>1, <4>2, SMT, Z3T(30) DEF SetAttrInv, Behind
      <4> QED
        BY <3>1, <4>1, <4>3 DEF Renewed
    <3>2. CASE q # r
      BY <2>1, <3>2 DEF SetAttrInv, ProofTypeOK, ReplyIsFresh
    <3> QED
      BY <3>1, <3>2
  <2> QED
    BY <2>3, <2>4, <2>5 DEF SetAttrInv
<1> QED
  BY <1>1, <1>2, <1>3, <1>4, <1>5, <1>6 DEF Handle

\* Node.Setattr, which fixes what is asked for and the first system call, keeps the
\* invariant.
LEMMA SetattrInv ==
  ASSUME SetAttrInv, NEW r \in Reqs, NEW p \in {"file", "link"}, NEW attrs \in SUBSET Askable,
         NEW m \in Modes, Setattr(r, p, attrs, m)
  PROVE  SetAttrInv'
<1> USE SetAttrAssumption
<1> DEFINE j == NextCall({a \in Attrs : SATTR[a] \in ValidAttrs(attrs)}, 0)
<1>1. /\ at[r] = 0 /\ UNCHANGED <<fsVars, outcome, reply>>
      /\ path' = [path EXCEPT ![r] = p] /\ asked' = [asked EXCEPT ![r] = attrs]
      /\ bits' = [bits EXCEPT ![r] = ValidAttrs(attrs)]
      /\ at' = [at EXCEPT ![r] = j]
      /\ attrs \subseteq Attrs
  BY AskableAssumption DEF Setattr
<1>2. ProofTypeOK /\ AtNeeded /\ NotAhead /\ Behind /\ ReplyIsFresh
  BY DEF SetAttrInv
<1>3. /\ j \in 1 .. 5
      /\ j = 5 \/ Group[j] \cap attrs # {}
      /\ \A k \in 1 .. (j - 1) : Group[k] \cap attrs = {}
  <2>1. /\ SATTR["atime"] = 0 /\ SATTR["gid"] = 1 /\ SATTR["mode"] = 2
        /\ SATTR["mtime"] = 3 /\ SATTR["size"] = 4 /\ SATTR["uid"] = 5
    BY DEF SATTR
  <2>2. \A a, b \in Attrs : SATTR[a] = SATTR[b] => a = b
    BY <2>1, Groups, SMT, Z3T(30)
  <2>3. {a \in Attrs : SATTR[a] \in ValidAttrs(attrs)} = attrs
    BY <1>1, <2>2, SMT, Z3T(30) DEF ValidAttrs
  <2> QED
    BY <2>3, NextCallSkips, SMT, Z3T(30)
<1> HIDE DEF j
<1>4. ProofTypeOK'
  <2>1. /\ asked' \in [Reqs -> SUBSET Attrs] /\ at' \in [Reqs -> 0 .. 5]
        /\ path' \in [Reqs -> {"file", "link"}]
    BY <1>1, <1>2, <1>3, SMT, Z3T(30) DEF ProofTypeOK
  <2>2. bits' = [q \in Reqs |-> ValidAttrs(asked'[q])]
    BY <1>1, <1>2 DEF ProofTypeOK
  <2> QED
    BY <1>1, <1>2, <2>1, <2>2 DEF ProofTypeOK, fsVars, ValidAttrs
<1>5. AtNeeded'
  BY <1>1, <1>2, <1>3, SMT, Z3T(30) DEF ProofTypeOK, AtNeeded
<1>6. NotAhead'
  BY <1>1, <1>2, <1>3, SMT, Z3T(30) DEF ProofTypeOK, NotAhead, fsVars
<1>7. \A a : NewValues(a) \subseteq NewValues(a)'
  BY <1>1, <1>2 DEF ProofTypeOK, AtNeeded, NewValues
<1>8. Behind'
  <2>1. ASSUME NEW a, Renewed(a) PROVE Renewed(a)'
    BY <1>1, <1>7, <2>1 DEF Renewed, fsVars
  <2>2. \A q \in Reqs, k \in 1 .. 4 : \A a \in Group[k] \cap asked'[q] :
          k < at'[q] => q # r
    <3>1. asked'[r] = attrs /\ at'[r] = j
      BY <1>1, <1>2 DEF ProofTypeOK
    <3>2. \A k \in 1 .. 4 : k < j => k \in 1 .. (j - 1)
      BY <1>3, SMT, Z3T(30)
    <3> QED
      BY <1>3, <3>1, <3>2
  <2>3. \A q \in Reqs : q # r => asked'[q] = asked[q] /\ at'[q] = at[q]
    BY <1>1, <1>2 DEF ProofTypeOK
  <2> QED
    BY <1>2, <2>1, <2>2, <2>3 DEF Behind
<1>9. ReplyIsFresh'
  BY <1>1, <1>2, <1>7, SMT, Z3T(30) DEF ProofTypeOK, AtNeeded, ReplyIsFresh, fsVars
<1> QED
  BY <1>4, <1>5, <1>6, <1>8, <1>9 DEF SetAttrInv

\* Another process that removes or replaces the file keeps the invariant.
LEMMA ReplaceInv ==
  ASSUME SetAttrInv, Replace
  PROVE  SetAttrInv'
<1>1. /\ replaced' \in Nat \ {0} /\ name' \in Inodes \cup {Gone}
      /\ UNCHANGED <<attr, requestVars, at, outcome, reply>>
  BY SMT, Z3T(30) DEF Replace, SetAttrInv, ProofTypeOK
<1> QED
  BY <1>1, SMT, Z3T(30)
     DEF SetAttrInv, ProofTypeOK, AtNeeded, NotAhead, Behind, Renewed, NewValues,
              ReplyIsFresh, requestVars, ValidAttrs

\* The invariant holds before the first request.
LEMMA SetAttrInitInv == SetAttrInit => SetAttrInv
<1> SUFFICES ASSUME SetAttrInit PROVE SetAttrInv
  OBVIOUS
<1> USE SetAttrAssumption
<1>1. ProofTypeOK
  BY SMT, Z3T(30) DEF SetAttrInit, ProofTypeOK, Unset, Values, ValidAttrs
<1>2. AtNeeded /\ ReplyIsFresh
  BY SMT, Z3T(30) DEF SetAttrInit, AtNeeded, ReplyIsFresh
<1>3. NotAhead
  BY DEF SetAttrInit, NotAhead, Unset
<1>4. Behind
  BY DEF SetAttrInit, Behind
<1> QED
  BY <1>1, <1>2, <1>3, <1>4 DEF SetAttrInv

\* The invariant is kept by every step.
LEMMA SetAttrNextInv == SetAttrInv /\ [SetAttrNext]_setAttrVars => SetAttrInv'
<1> SUFFICES ASSUME SetAttrInv, [SetAttrNext]_setAttrVars PROVE SetAttrInv'
  OBVIOUS
<1>1. CASE UNCHANGED setAttrVars
  BY <1>1, SMT, Z3T(30)
     DEF setAttrVars, SetAttrInv, ProofTypeOK, AtNeeded, NotAhead, Behind, Renewed,
              NewValues, ReplyIsFresh, fsVars, requestVars, ValidAttrs
<1> QED
  BY <1>1, SetattrInv, HandleInv, ReplaceInv DEF SetAttrNext, Finished

-------------------------------------------------------------------------------
(* The theorems                                                             *)

\* Every reachable state satisfies SetAttrInv.
THEOREM SetAttrInvariant == SetAttrSpec => []SetAttrInv
BY SetAttrInitInv, SetAttrNextInv, PTL DEF SetAttrSpec

\* Concurrent SetAttr calls do not undo each other's work, whatever fails or is replaced
\* meanwhile.
THEOREM UpdatesKept == SetAttrSpec => []NoUpdateLost
<1>1. SetAttrInv => NoUpdateLost
  <2> SUFFICES ASSUME SetAttrInv, NEW r \in Reqs, outcome[r] = "ok", NEW a \in asked[r]
               PROVE  \E i \in Inodes : attr[i][a] \in NewValues(a)
    BY DEF NoUpdateLost
  <2>1. PICK k \in 1 .. 4 : a \in Group[k]
    BY Groups, SMT, Z3T(30) DEF SetAttrInv, ProofTypeOK
  <2> QED
    BY <2>1, SMT, Z3T(30) DEF SetAttrInv, AtNeeded, Behind, Renewed
<1> QED
  BY <1>1, SetAttrInvariant, PTL

\* The reply of a SetAttr on a file that was never replaced shows the changes that were
\* asked for.
THEOREM RepliesFresh == SetAttrSpec => []ReplyIsFresh
<1>1. SetAttrInv => ReplyIsFresh
  BY DEF SetAttrInv
<1> QED
  BY <1>1, SetAttrInvariant, PTL

\* A SetAttr that fails has made exactly the calls before the failing one.
THEOREM FailuresLeavePrefix == SetAttrSpec => []FailureLeavesPrefix
<1>1. SetAttrInv => FailureLeavesPrefix
  <2> SUFFICES ASSUME SetAttrInv, NEW r \in Reqs, NEW k \in 1 .. 4, NEW a \in Group[k] \cap asked[r]
               PROVE  IF k < at[r] THEN \E i \in Inodes : attr[i][a] \in NewValues(a)
                                   ELSE \A i \in Inodes : attr[i][a] # r
    BY DEF FailureLeavesPrefix
  <2>1. CASE k < at[r]
    BY <2>1 DEF SetAttrInv, Behind, Renewed
  <2>2. CASE ~(k < at[r])
    <3>1. a \in Attrs /\ \A l \in 1 .. 4 : a \in Group[l] => l = k
      BY Groups, SMT, Z3T(30) DEF SetAttrInv, ProofTypeOK
    <3> QED
      BY <2>2, <3>1, SMT, Z3T(30) DEF SetAttrInv, NotAhead
  <2> QED
    BY <2>1, <2>2
<1> QED
  BY <1>1, SetAttrInvariant, PTL

-------------------------------------------------------------------------------
(* The mode                                                                 *)

\* The mode of a file is within the twelve bits of a mode_t, whatever chmod and chown do.
ModeType ==
  /\ mode \in [Inodes \cup {Link} -> SUBSET (0 .. 11)]
  /\ want \in [Reqs -> Modes \cup {{}}]
  /\ replaced \in 0 .. MaxReplaced

\* The mode of a file whose mode was set last by call q is what q asked for.
ModeFollows ==
  \A i \in Inodes, q \in Reqs : attr[i]["mode"] = q => mode[i] = want[q]

\* Every reachable state of the calls and the file is well typed: ValidAttrs has the six
\* SATTR_* bits, and a mode the twelve bits of a mode_t.
THEOREM SetAttrWellTyped == SetAttrSpec => []SetAttrTypeOK
<1> USE SetAttrAssumption
<1>1. ASSUME SetAttrInit
      PROVE  ModeType
  BY <1>1, SMT, Z3T(30) DEF SetAttrInit, ModeType
<1>2. ASSUME SetAttrInv, ModeType, [SetAttrNext]_setAttrVars
      PROVE  ModeType'
  <2> USE <1>2 DEF ModeType
  <2>1. \A m : ChmodMode(m) \in SUBSET (0 .. 11)
    BY SMT, Z3T(30) DEF ChmodMode
  <2>2. ASSUME NEW r \in Reqs, NEW p \in {"file", "link"}, NEW attrs \in SUBSET Askable,
               NEW m \in Modes, Setattr(r, p, attrs, m)
        PROVE  ModeType'
    BY <2>2 DEF Setattr, fsVars
  <2>3. ASSUME NEW r \in Reqs, Handle(r)
        PROVE  ModeType'
    <3>1. CASE Chmod(r)
      BY <2>1, <3>1 DEF Chmod, Performs, requestVars
    <3>2. CASE Chown(r)
      <4>1. name \in Inodes
        BY <3>2 DEF Chown, Performs, SetAttrInv, ProofTypeOK
      <4>2. PICK m \in {mode[name], mode[name] \ {10, 11}} : mode' = [mode EXCEPT ![name] = m]
        BY <3>2 DEF Chown
      <4>3. m \in SUBSET (0 .. 11)
        BY <4>1, <4>2, SMT, Z3T(30)
      <4> QED
        BY <3>2, <4>2, <4>3 DEF Chown, Performs, requestVars
    <3>3. CASE UtimesNano(r) \/ Truncate(r)
      BY <3>3 DEF UtimesNano, Truncate, Performs, requestVars
    <3>4. CASE Stat(r) \/ CallFails(r)
      BY <3>4 DEF Stat, CallFails, fsVars, requestVars
    <3> QED
      BY <2>3, <3>1, <3>2, <3>3, <3>4 DEF Handle
  <2>4. CASE Replace
    BY <2>4, SMT, Z3T(30) DEF Replace, requestVars
  <2>5. CASE UNCHANGED setAttrVars
    BY <2>5 DEF setAttrVars, fsVars, requestVars
  <2> QED
    BY <2>2, <2>3, <2>4, <2>5 DEF SetAttrNext, Finished
<1>3. ASSUME SetAttrInv, ModeType
      PROVE  SetAttrTypeOK
  <2>1. ASSUME NEW attrs \in SUBSET Attrs
        PROVE  ValidAttrs(attrs) \in SUBSET (0 .. 5)
    BY Groups, SMT, Z3T(30) DEF ValidAttrs, SATTR
  <2> QED
    BY <1>3, <2>1 DEF SetAttrInv, ProofTypeOK, ModeType, SetAttrTypeOK, StatCall
<1> QED
  BY <1>1, <1>2, <1>3, SetAttrInvariant, PTL DEF SetAttrSpec

\* A mode without setuid, setgid and sticky is never changed on its way: os.FileMode and
\* os.Chmod agree on the nine permission bits, and chown leaves them.
THEOREM PlainModesKept ==
  (\A m \in Modes : m \subseteq 0 .. 8) => (SetAttrSpec => []ModeIsComplete)
<1> SUFFICES ASSUME \A m \in Modes : m \subseteq 0 .. 8
             PROVE  SetAttrSpec => []ModeIsComplete
  OBVIOUS
<1> USE SetAttrAssumption
<1>1. ASSUME SetAttrInit
      PROVE  ModeFollows
  BY <1>1, Groups DEF SetAttrInit, ModeFollows, Unset
<1>2. ASSUME SetAttrInv, SetAttrTypeOK, ModeFollows, [SetAttrNext]_setAttrVars
      PROVE  ModeFollows'
  <2> USE <1>2
  <2>0. /\ \A m \in Modes \cup {{}} : ChmodMode(m) = m /\ m \ {10, 11} = m
        /\ want \in [Reqs -> Modes \cup {{}}]
    <3>1. ASSUME NEW m \in Modes \cup {{}}
          PROVE  ChmodMode(m) = m /\ m \ {10, 11} = m
      <4>1. m \subseteq 0 .. 8
        <5>1. CASE m = {}
          BY <5>1
        <5>2. CASE m \in Modes
          BY <5>2
        <5> QED
          BY <5>1, <5>2
      <4>2. m \cap 0 .. 8 = m
        BY <4>1
      <4>3. 20 \notin m /\ 22 \notin m /\ 23 \notin m /\ 10 \notin m /\ 11 \notin m
        BY <4>1, SMT, Z3T(30)
      <4>4. ChmodMode(m) = m
        BY <4>2, <4>3 DEF ChmodMode
      <4>5. m \ {10, 11} = m
        BY <4>3
      <4> QED
        BY <4>4, <4>5
    <3> QED
      BY <3>1 DEF SetAttrTypeOK
  <2>1. ASSUME NEW r \in Reqs, NEW p \in {"file", "link"}, NEW attrs \in SUBSET Askable,
               NEW m \in Modes, Setattr(r, p, attrs, m)
        PROVE  ModeFollows'
    <3>1. \A i \in Inodes : attr[i]["mode"] # r
      BY <2>1, Groups, SMT, Z3T(30) DEF Setattr, SetAttrInv, NotAhead, ProofTypeOK
    <3> QED
      BY <2>0, <2>1, <3>1, SMT, Z3T(30) DEF Setattr, fsVars, ModeFollows
  <2>2. ASSUME NEW r \in Reqs, Handle(r)
        PROVE  ModeFollows'
    <3>1. CASE Chmod(r)
      <4>1. name \in Inodes /\ want' = want
        BY <3>1 DEF Chmod, Performs, SetAttrInv, ProofTypeOK, requestVars
      <4>2. /\ attr'[name]["mode"] = r /\ mode'[name] = want[r]
            /\ \A i \in Inodes : i # name => attr'[i] = attr[i] /\ mode'[i] = mode[i]
        BY <2>0, <3>1, <4>1, Groups, SMT, Z3T(30) DEF Chmod, SetAttrTypeOK, SetBy
      <4> QED
        BY <4>1, <4>2, SMT, Z3T(30) DEF ModeFollows
    <3>2. CASE Chown(r)
      <4>1. name \in Inodes /\ want' = want
        BY <3>2 DEF Chown, Performs, SetAttrInv, ProofTypeOK, requestVars
      <4>2. PICK m \in {mode[name], mode[name] \ {10, 11}} : mode' = [mode EXCEPT ![name] = m]
        BY <3>2 DEF Chown
      <4>3. /\ attr'[name]["mode"] = attr[name]["mode"] /\ mode'[name] = m
            /\ \A i \in Inodes : i # name => attr'[i] = attr[i] /\ mode'[i] = mode[i]
        BY <3>2, <4>1, <4>2, Groups DEF Chown, SetAttrTypeOK, SetBy
      <4>4. ASSUME NEW q \in Reqs, attr[name]["mode"] = q
            PROVE  m = want[q]
        BY <2>0, <4>1, <4>2, <4>4 DEF ModeFollows
      <4> QED
        BY <4>1, <4>3, <4>4, SMT, Z3T(30) DEF ModeFollows
    <3>3. CASE UtimesNano(r)
      <4>1. name \in Inodes /\ want' = want /\ mode' = mode
        BY <3>3 DEF UtimesNano, Performs, SetAttrInv, ProofTypeOK, requestVars
      <4>2. /\ attr'[name]["mode"] = attr[name]["mode"]
            /\ \A i \in Inodes : i # name => attr'[i] = attr[i]
        BY <3>3, <4>1, Groups DEF UtimesNano, SetAttrTypeOK, SetBy
      <4> QED
        BY <4>1, <4>2, SMT, Z3T(30) DEF ModeFollows
    <3>4. CASE Truncate(r)
      <4>1. name \in Inodes /\ want' = want /\ mode' = mode
        BY <3>4 DEF Truncate, Performs, SetAttrInv, ProofTypeOK, requestVars
      <4>2. /\ attr'[name]["mode"] = attr[name]["mode"]
            /\ \A i \in Inodes : i # name => attr'[i] = attr[i]
        BY <3>4, <4>1, Groups, SMT, Z3T(30) DEF Truncate, SetAttrTypeOK, SetBy
      <4> QED
        BY <4>1, <4>2, SMT, Z3T(30) DEF ModeFollows
    <3>5. CASE Stat(r) \/ CallFails(r)
      BY <3>5, SMT, Z3T(30) DEF Stat, CallFails, fsVars, requestVars, ModeFollows
    <3> QED
      BY <2>2, <3>1, <3>2, <3>3, <3>4, <3>5 DEF Handle
  <2>3. CASE Replace
    BY <2>3 DEF Replace, requestVars, ModeFollows
  <2>4. CASE UNCHANGED setAttrVars
    BY <2>4 DEF setAttrVars, fsVars, requestVars, ModeFollows
  <2> QED
    BY <2>1, <2>2, <2>3, <2>4 DEF SetAttrNext, Finished
<1>3. ASSUME SetAttrInv, ModeFollows
      PROVE  ModeIsComplete
  <2> SUFFICES ASSUME NEW r \in Reqs, outcome[r] = "ok", "mode" \in asked[r]
               PROVE  \E i \in Inodes, q \in Reqs : "mode" \in asked[q] /\ mode[i] = want[q]
    BY DEF ModeIsComplete
  <2>1. 1 < at[r] /\ "mode" \in Group[1]
    BY <1>3, Groups, SMT, Z3T(30) DEF SetAttrInv, AtNeeded
  <2>2. PICK i \in Inodes : attr[i]["mode"] \in NewValues("mode")
    BY <1>3, <2>1, SMT, Z3T(30) DEF SetAttrInv, Behind, Renewed
  <2>3. PICK q \in Reqs : "mode" \in asked[q] /\ attr[i]["mode"] = q
    BY <2>2 DEF NewValues
  <2> QED
    BY <1>3, <2>3 DEF ModeFollows
<1> QED
  BY <1>1, <1>2, <1>3, SetAttrInvariant, SetAttrWellTyped, PTL DEF SetAttrSpec
===============================================================================
