------------------------ MODULE StaffAccounts_proofs -------------------------
(***************************************************************************)
(* Proofs about StaffAccounts for any staff, residents, roles and calls,   *)
(* and every interleaving and failure of the calls the properties allow.   *)
(*                                                                         *)
(* What a call in hand knows is in FrameOK: it depends on the call alone,  *)
(* and on how many links there are, which only grow.                       *)
(***************************************************************************)
EXTENDS StaffAccounts, SequenceTheorems, TLAPS

Kinds == {"invite", "reset", "verify"}

FrameOK(f, n) ==
  /\ f \in Call
  /\ f.pc # "idle" => f.who \in People
  /\ f.kind = "verify" => f.who \in Residents
  /\ f.op = "file" => f.who \in Residents /\ f.row.role = "resident" /\ ~f.row.verified
  /\ f.op = "redeem" => /\ f.link \in 1..n
                        /\ f.pc \in {"find", "burn", "password", "verify"}
  /\ f.pc = "role" <=> f.op = "role"
  /\ f.op = "role" => f.row.role # "none"
  /\ f.pc \in {"others", "revoke"} <=> f.op = "revoke"
  /\ f.pc \in {"find", "burn", "verify"} => f.op = "redeem"
  /\ f.pc = "verify" => f.kind = "verify"
  /\ f.pc = "password" => f.op = "redeem" \/ f.link = 0

FramesOK == /\ call \in [Callers -> Call]
            /\ \A c \in Callers : FrameOK(call[c], Len(links))

LinksOK == /\ links \in Seq(Link)
           /\ redeemed \in Seq(Nat)
           /\ Len(redeemed) = Len(links)
           /\ \A k \in 1..Len(links) : links[k].kind = "verify" => links[k].who \in Residents

RestOK == /\ account \in [People -> Account]
          /\ filed \in SUBSET Residents
          /\ proven \in SUBSET Residents
          /\ env \in Environment

TypeInv == FramesOK /\ LinksOK /\ RestOK

-----------------------------------------------------------------------------
(* Frames.                                                                 *)

LEMMA IdleOK == \A n \in Nat : FrameOK(Idle, n)
BY DEF FrameOK, Idle, Call, NoAccount, Account

LEMMA MoreLinks ==
  ASSUME NEW f, NEW n \in Nat, FrameOK(f, n)
  PROVE  FrameOK(f, n + 1)
BY DEF FrameOK

\* A call in hand moves on,
LEMMA FrameStep ==
  ASSUME TypeInv, NEW c \in Callers, NEW f, FrameOK(f, Len(links)),
         call' = [call EXCEPT ![c] = f], links' = links
  PROVE  FramesOK'
BY DEF TypeInv, FramesOK, FrameOK

\* ends,
LEMMA FrameEnds ==
  ASSUME TypeInv, NEW c \in Callers, Finish(c), links' = links
  PROVE  FramesOK'
<1>1. Len(links) \in Nat BY DEF TypeInv, LinksOK
<1>2. FrameOK(Idle, Len(links)) BY <1>1, IdleOK
<1> QED BY <1>2, FrameStep DEF Finish

\* or only changes its program counter.
LEMMA FrameGoes ==
  ASSUME TypeInv, NEW c \in Callers, NEW pc, GoTo(c, pc), links' = links,
         FrameOK([call[c] EXCEPT !.pc = pc], Len(links))
  PROVE  FramesOK'
<1>1. call' = [call EXCEPT ![c] = [call[c] EXCEPT !.pc = pc]]
  BY DEF GoTo, TypeInv, FramesOK
<1> QED BY <1>1, FrameStep

LEMMA FrameBegins ==
  ASSUME TypeInv, NEW c \in Callers, NEW f, FrameOK(f, Len(links)),
         Begin(c, f), links' = links
  PROVE  FramesOK' /\ env' \in Environment
<1>1. FramesOK' BY FrameStep DEF Begin
<1>2. env' \in Environment
  BY DEF Begin, TypeInv, RestOK, Environment
<1> QED BY <1>1, <1>2

LEMMA LinksStay ==
  ASSUME TypeInv, links' = links, redeemed' = redeemed
  PROVE  LinksOK'
BY DEF TypeInv, LinksOK

-----------------------------------------------------------------------------
(* Type correctness, by kind of action.                                    *)

Able(q) == Admin(q) /\ CanSignIn(q)

\* What a call has just read when it begins.
Fresh(f) ==
  /\ f.op = "role" => \E a \in Staff : Able(a) /\ (f.row.role # "admin" => a # f.who)
  /\ f.op = "revoke" => Exists(f.who) /\ (f.pc = "revoke" => ~Admin(f.who))
  /\ f.op = "redeem" => f.pc = "find"

Beginning(c) ==
  \/ \E p \in Staff :
       \/ \E role \in Roles :
            \/ \E password \in BOOLEAN : AddStaff(c, p, role, password)
            \/ \E a \in Staff : ChangeRole(c, a, p, role)
       \/ Revoke(c, p) \/ ResetByOperator(c, p) \/ ResendInvite(c, p)
  \/ \E p \in Staff : RequestReset(c, p)
  \/ \E p \in Residents : RequestReset(c, Lower[p])
  \/ \E k \in DOMAIN links : Open(c, k)
  \/ \E p \in Residents : File(c, p) \/ Register(c, p)

\* A call that begins has a sound frame, and changes nothing else.
LEMMA Begins ==
  ASSUME TypeInv, NEW c \in Callers, Beginning(c)
  PROVE  \E f : /\ FrameOK(f, Len(links)) /\ Begin(c, f) /\ Fresh(f)
                /\ UNCHANGED <<account, links, history>>
<1> USE AccountsAssumption
<1> DEFINE Sound(f) == /\ FrameOK(f, Len(links)) /\ Begin(c, f) /\ Fresh(f)
                       /\ UNCHANGED <<account, links, history>>
<1>1. ASSUME NEW p \in Staff, NEW role \in Roles, NEW password \in BOOLEAN,
             AddStaff(c, p, role, password)
      PROVE  \E f : Sound(f)
  <2> DEFINE f == [About("add", "insert", p) EXCEPT
                     !.kind = "invite",
                     !.row = [NoAccount EXCEPT !.role = role, !.password = password]]
  <2>1. FrameOK(f, Len(links))
    BY DEF FrameOK, Call, About, Idle, NoAccount, Account, People
  <2>2. Begin(c, f) /\ UNCHANGED <<account, links, history>> BY <1>1 DEF AddStaff
  <2>3. Fresh(f) BY DEF Fresh, About, Idle
  <2> QED BY <2>1, <2>2, <2>3
<1>2. ASSUME NEW p \in Staff, NEW role \in Roles, NEW a \in Staff,
             ChangeRole(c, a, p, role)
      PROVE  \E f : Sound(f)
  <2> DEFINE f == [About("role", "role", p) EXCEPT !.row.role = role]
  <2>1. FrameOK(f, Len(links))
    BY DEF FrameOK, Call, About, Idle, NoAccount, Account, People
  <2>2. Begin(c, f) /\ UNCHANGED <<account, links, history>> BY <1>2 DEF ChangeRole
  <2>3. Fresh(f) BY <1>2 DEF Fresh, About, Idle, NoAccount, ChangeRole, Able
  <2> QED BY <2>1, <2>2, <2>3
<1>3. ASSUME NEW p \in Staff, Revoke(c, p)
      PROVE  \E f : Sound(f)
  <2> DEFINE f == About("revoke", IF Admin(p) THEN "others" ELSE "revoke", p)
  <2>1. FrameOK(f, Len(links))
    BY DEF FrameOK, Call, About, Idle, NoAccount, Account, People
  <2>2. Begin(c, f) /\ UNCHANGED <<account, links, history>> BY <1>3 DEF Revoke
  <2>3. Fresh(f) BY <1>3 DEF Fresh, About, Idle, Revoke, CanSignIn
  <2> QED BY <2>1, <2>2, <2>3
<1>4. ASSUME NEW p \in Staff, ResetByOperator(c, p)
      PROVE  \E f : Sound(f)
  <2> DEFINE f == About("reset", "password", p)
  <2>1. FrameOK(f, Len(links))
    BY DEF FrameOK, Call, About, Idle, NoAccount, Account, People
  <2>2. Begin(c, f) /\ UNCHANGED <<account, links, history>> BY <1>4 DEF ResetByOperator
  <2>3. Fresh(f) BY DEF Fresh, About, Idle
  <2> QED BY <2>1, <2>2, <2>3
<1>5. ASSUME NEW p \in Staff, ResendInvite(c, p)
      PROVE  \E f : Sound(f)
  <2> DEFINE f == [About("mint", "mint", p) EXCEPT !.kind = "invite"]
  <2>1. FrameOK(f, Len(links))
    BY DEF FrameOK, Call, About, Idle, NoAccount, Account, People
  <2>2. Begin(c, f) /\ UNCHANGED <<account, links, history>> BY <1>5 DEF ResendInvite
  <2>3. Fresh(f) BY DEF Fresh, About, Idle
  <2> QED BY <2>1, <2>2, <2>3
<1>6. ASSUME NEW p \in People, RequestReset(c, p)
      PROVE  \E f : Sound(f)
  <2> DEFINE f == [About("mint", "mint", p) EXCEPT !.kind = "reset"]
  <2>1. FrameOK(f, Len(links))
    BY DEF FrameOK, Call, About, Idle, NoAccount, Account, People
  <2>2. Begin(c, f) /\ UNCHANGED <<account, links, history>> BY <1>6 DEF RequestReset
  <2>3. Fresh(f) BY DEF Fresh, About, Idle
  <2> QED BY <2>1, <2>2, <2>3
<1>7. ASSUME NEW k \in DOMAIN links, Open(c, k)
      PROVE  \E f : Sound(f)
  <2> DEFINE f == [About("redeem", "find", links[k].who) EXCEPT
                     !.kind = links[k].kind, !.link = k]
  <2>0. /\ k \in 1..Len(links) /\ k \in Nat /\ links[k] \in Link
        /\ links[k].kind = "verify" => links[k].who \in Residents
    BY DEF TypeInv, LinksOK
  <2>1. FrameOK(f, Len(links))
    BY <2>0 DEF FrameOK, Call, About, Idle, NoAccount, Account, People, Link
  <2>2. Begin(c, f) /\ UNCHANGED <<account, links, history>> BY <1>7 DEF Open
  <2>3. Fresh(f) BY DEF Fresh, About, Idle
  <2> QED BY <2>1, <2>2, <2>3
<1>8. ASSUME NEW p \in Residents, File(c, p)
      PROVE  \E f : Sound(f)
  <2> DEFINE f == [About("file", "insert", p) EXCEPT !.row.role = "resident"]
  <2>1. FrameOK(f, Len(links))
    BY DEF FrameOK, Call, About, Idle, NoAccount, Account, People
  <2>2. Begin(c, f) /\ UNCHANGED <<account, links, history>> BY <1>8 DEF File
  <2>3. Fresh(f) BY DEF Fresh, About, Idle
  <2> QED BY <2>1, <2>2, <2>3
<1>9. ASSUME NEW p \in Residents, Register(c, p)
      PROVE  \E f : Sound(f)
  <2> DEFINE e == Lower[p]
             row == [role |-> "resident", password |-> TRUE, verified |-> TRUE]
             f == [About("register", IF Exists(e) THEN "claim" ELSE "insert", e)
                     EXCEPT !.kind = "verify", !.row = row]
  <2>1. FrameOK(f, Len(links))
    BY DEF FrameOK, Call, About, Idle, NoAccount, Account, People
  <2>2. Begin(c, f) /\ UNCHANGED <<account, links, history>> BY <1>9 DEF Register
  <2>3. Fresh(f) BY DEF Fresh, About, Idle
  <2> QED BY <2>1, <2>2, <2>3
<1> HIDE DEF Sound
<1>10. \E f : Sound(f)
  BY <1>1, <1>2, <1>3, <1>4, <1>5, <1>6, <1>7, <1>8, <1>9 DEF Beginning, People
<1> QED BY <1>10 DEF Sound


LEMMA BeginsTyped ==
  ASSUME TypeInv, NEW c \in Callers, Beginning(c)
  PROVE  TypeInv'
<1>1. PICK f : /\ FrameOK(f, Len(links)) /\ Begin(c, f)
               /\ UNCHANGED <<account, links, history>>
  BY Begins
<1>2. FramesOK' /\ env' \in Environment BY <1>1, FrameBegins
<1>3. LinksOK' BY <1>1, LinksStay DEF history
<1>4. RestOK' BY <1>1, <1>2 DEF RestOK, TypeInv, history
<1> QED BY <1>2, <1>3, <1>4 DEF TypeInv

\* The writes and reads of a call under way.
Ongoing(c) == \/ Insert(c) \/ WriteRole(c) \/ LookForOthers(c) \/ ClearPassword(c)
              \/ Mint(c) \/ FindLink(c) \/ Burn(c) \/ SetPassword(c) \/ Verify(c)
              \/ Claim(c) \/ CallAborts(c)

LEMMA InsertTyped ==
  ASSUME TypeInv, NEW c \in Callers, Insert(c)
  PROVE  TypeInv'
<1>1. /\ FrameOK(call[c], Len(links)) /\ Len(links) \in Nat
      /\ links' = links /\ redeemed' = redeemed /\ proven' = proven /\ env' = env
  BY DEF TypeInv, FramesOK, LinksOK, Insert
<1>2. FramesOK'
  <2>1. CASE Finish(c) BY <2>1, <1>1, FrameEnds
  <2>2. CASE GoTo(c, "mint")
    <3>1. FrameOK([call[c] EXCEPT !.pc = "mint"], Len(links))
      BY <1>1 DEF FrameOK, Call, Insert
    <3> QED BY <3>1, <2>2, <1>1, FrameGoes
  <2> QED BY <2>1, <2>2 DEF Insert
<1>3. account' \in [People -> Account]
  BY <1>1 DEF Insert, TypeInv, RestOK, FrameOK, Call
<1>4. filed' \in SUBSET Residents
  BY <1>1 DEF Insert, TypeInv, RestOK, FrameOK
<1>5. LinksOK' BY <1>1, LinksStay
<1> QED BY <1>1, <1>2, <1>3, <1>4, <1>5 DEF TypeInv, RestOK

LEMMA WritesTyped ==
  ASSUME TypeInv, NEW c \in Callers,
         WriteRole(c) \/ ClearPassword(c) \/ LookForOthers(c) \/ FindLink(c) \/ CallAborts(c)
  PROVE  TypeInv'
<1>1. /\ FrameOK(call[c], Len(links)) /\ Len(links) \in Nat
      /\ UNCHANGED <<links, redeemed, filed, proven, env>>
  BY DEF TypeInv, FramesOK, LinksOK, WriteRole, ClearPassword, LookForOthers,
         FindLink, CallAborts, history
<1>2. FramesOK'
  <2>1. CASE Finish(c) BY <2>1, <1>1, FrameEnds
  <2>2. CASE LookForOthers(c) /\ GoTo(c, "revoke")
    <3>1. FrameOK([call[c] EXCEPT !.pc = "revoke"], Len(links))
      BY <1>1, <2>2 DEF FrameOK, Call, LookForOthers
    <3> QED BY <3>1, <2>2, <1>1, FrameGoes
  <2>3. CASE FindLink(c) /\ GoTo(c, "burn")
    <3>1. FrameOK([call[c] EXCEPT !.pc = "burn"], Len(links))
      BY <1>1, <2>3 DEF FrameOK, Call, FindLink
    <3> QED BY <3>1, <2>3, <1>1, FrameGoes
  <2> QED BY <2>1, <2>2, <2>3 DEF WriteRole, ClearPassword, LookForOthers,
                                  FindLink, CallAborts
<1>3. account' \in [People -> Account]
  <2>1. CASE WriteRole(c)
    <3>1. call[c].row.role \in Roles \cup {"none", "resident"}
      BY <1>1 DEF FrameOK, Call, Account
    <3> QED BY <3>1, <2>1 DEF WriteRole, TypeInv, RestOK, Account
  <2>2. CASE ClearPassword(c)
    BY <2>2 DEF ClearPassword, TypeInv, RestOK, Account
  <2>3. CASE account' = account BY <2>3 DEF TypeInv, RestOK
  <2> QED BY <2>1, <2>2, <2>3 DEF LookForOthers, FindLink, CallAborts
<1>5. LinksOK' BY <1>1, LinksStay
<1> QED BY <1>1, <1>2, <1>3, <1>5 DEF TypeInv, RestOK

LEMMA MintTyped ==
  ASSUME TypeInv, NEW c \in Callers, Mint(c)
  PROVE  TypeInv'
<1> DEFINE link == [kind |-> call[c].kind, who |-> call[c].who,
                    used |-> FALSE, late |-> FALSE]
<1>1. /\ FrameOK(call[c], Len(links)) /\ Len(links) \in Nat
      /\ links' = Append(links, link)
      /\ redeemed' = Append(redeemed, 0)
      /\ call' = [call EXCEPT ![c] = Idle]
      /\ UNCHANGED <<account, filed, proven, env>>
  BY DEF TypeInv, FramesOK, LinksOK, Mint, Finish
<1>2. /\ link \in Link
      /\ link.kind = "verify" => link.who \in Residents
  BY <1>1 DEF FrameOK, Call, Link, Mint
<1>3. LinksOK'
  <2>1. links \in Seq(Link) /\ redeemed \in Seq(Nat) BY DEF TypeInv, LinksOK
  <2>2. /\ links' \in Seq(Link) /\ Len(links') = Len(links) + 1
        /\ redeemed' \in Seq(Nat) /\ Len(redeemed') = Len(redeemed) + 1
    BY <1>1, <1>2, <2>1
  <2>3. \A k \in 1..Len(links') : links'[k].kind = "verify" => links'[k].who \in Residents
    <3> TAKE k \in 1..Len(links')
    <3>1. links'[k] = IF k = Len(links) + 1 THEN link ELSE links[k]
      BY <1>1, <2>1, <2>2
    <3> QED BY <3>1, <1>1, <1>2, <2>2 DEF TypeInv, LinksOK
  <2> HIDE DEF link
  <2> QED BY <2>2, <2>3 DEF TypeInv, LinksOK
<1>4. Len(links') = Len(links) + 1 BY <1>1 DEF TypeInv, LinksOK
<1>5. \A d \in Callers : FrameOK(call'[d], Len(links'))
  <2> TAKE d \in Callers
  <2>1. CASE d = c
    BY <2>1, <1>1, <1>4, IdleOK DEF TypeInv, FramesOK
  <2>2. CASE d # c
    <3>1. FrameOK(call[d], Len(links)) BY DEF TypeInv, FramesOK
    <3>2. FrameOK(call[d], Len(links) + 1) BY <3>1, <1>1, MoreLinks
    <3> QED BY <3>2, <2>2, <1>1, <1>4 DEF TypeInv, FramesOK
  <2> QED BY <2>1, <2>2
<1>6. call' \in [Callers -> Call]
  <2>1. FrameOK(Idle, 0) BY IdleOK
  <2> QED BY <2>1, <1>1 DEF TypeInv, FramesOK, FrameOK
<1> QED BY <1>1, <1>3, <1>5, <1>6 DEF TypeInv, FramesOK, RestOK

\* Changing the flags of a link keeps the links well typed.
LEMMA LinkFlags ==
  ASSUME TypeInv, NEW k \in 1..Len(links), NEW l \in Link, redeemed' = redeemed,
         links' = [links EXCEPT ![k] = l],
         l.kind = links[k].kind, l.who = links[k].who
  PROVE  LinksOK' /\ Len(links') = Len(links)
<1>1. links \in Seq(Link) BY DEF TypeInv, LinksOK
<1>2. /\ DOMAIN links = 1..Len(links) /\ Len(links) \in Nat
      /\ \A j \in 1..Len(links) : links[j] \in Link
  BY <1>1
<1>3. /\ links' \in Seq(Link) /\ Len(links') = Len(links)
  BY <1>1, ExceptSeq
<1>4. \A j \in 1..Len(links) : links'[j].kind = links[j].kind /\ links'[j].who = links[j].who
  BY <1>2
<1> QED BY <1>3, <1>4 DEF TypeInv, LinksOK

LEMMA BurnTyped ==
  ASSUME TypeInv, NEW c \in Callers, Burn(c)
  PROVE  TypeInv'
<1> DEFINE k == call[c].link
           pc == IF call[c].kind = "verify" THEN "verify" ELSE "password"
<1>1. /\ FrameOK(call[c], Len(links)) /\ Len(links) \in Nat
      /\ k \in 1..Len(links) /\ links[k] \in Link
  BY DEF TypeInv, FramesOK, FrameOK, LinksOK, Burn
<1>2. links' = [links EXCEPT ![k] = [links[k] EXCEPT !.used = TRUE]]
  BY <1>1 DEF Burn, TypeInv, LinksOK
<1>3. /\ [links[k] EXCEPT !.used = TRUE] \in Link
      /\ [links[k] EXCEPT !.used = TRUE].kind = links[k].kind
      /\ [links[k] EXCEPT !.used = TRUE].who = links[k].who
  BY <1>1 DEF Link
<1>4. LinksOK' /\ Len(links') = Len(links)
  BY <1>1, <1>2, <1>3, LinkFlags DEF Burn, history
<1>5. FrameOK([call[c] EXCEPT !.pc = pc], Len(links))
  BY <1>1 DEF FrameOK, Call, Burn
<1>6. call' = [call EXCEPT ![c] = [call[c] EXCEPT !.pc = pc]]
  BY DEF Burn, GoTo, TypeInv, FramesOK
<1>7. FramesOK'
  BY <1>4, <1>5, <1>6 DEF TypeInv, FramesOK, FrameOK
<1> QED BY <1>4, <1>7 DEF TypeInv, RestOK, Burn, history

LEMMA EffectsTyped ==
  ASSUME TypeInv, NEW c \in Callers, SetPassword(c) \/ Verify(c) \/ Claim(c)
  PROVE  TypeInv'
<1>1. /\ FrameOK(call[c], Len(links)) /\ Len(links) \in Nat
      /\ links' = links /\ filed' = filed /\ env' = env
  BY DEF TypeInv, FramesOK, LinksOK, SetPassword, Verify, Claim, history
<1>2. FramesOK'
  <2>1. CASE Finish(c) BY <2>1, <1>1, FrameEnds
  <2>2. CASE Claim(c) /\ GoTo(c, "mint")
    <3>1. FrameOK([call[c] EXCEPT !.pc = "mint"], Len(links))
      BY <1>1, <2>2 DEF FrameOK, Call, Claim
    <3> QED BY <3>1, <2>2, <1>1, FrameGoes
  <2> QED BY <2>1, <2>2 DEF SetPassword, Verify, Claim
<1>3. LinksOK'
  <2>1. CASE Counted(c)
    <3>1. redeemed \in Seq(Nat) /\ Len(redeemed) = Len(links) BY DEF TypeInv, LinksOK
    <3>2. redeemed' \in Seq(Nat) /\ Len(redeemed') = Len(redeemed)
      BY <3>1, <2>1 DEF Counted
    <3> QED BY <3>1, <3>2, <1>1 DEF TypeInv, LinksOK
  <2>2. CASE redeemed' = redeemed BY <2>2, <1>1, LinksStay
  <2> QED BY <2>1, <2>2 DEF SetPassword, Verify, Claim, history
<1>4. account' \in [People -> Account]
  <2>1. CASE SetPassword(c) BY <2>1 DEF SetPassword, TypeInv, RestOK, Account
  <2>2. CASE Verify(c) BY <2>2 DEF Verify, TypeInv, RestOK, Account
  <2>3. CASE Claim(c)
    <3> DEFINE p == call[c].who
    <3>1. p \in People => Claimed(account[p]) \in Account
      BY DEF Claimed, TypeInv, RestOK, Account
    <3>2. account' = [account EXCEPT ![p] = Claimed(account[p])]
      BY <2>3 DEF Claim, TypeInv, RestOK
    <3> HIDE DEF p
    <3> QED BY <3>1, <3>2 DEF TypeInv, RestOK
  <2> QED BY <2>1, <2>2, <2>3
<1>5. proven' \in SUBSET Residents
  <2>1. CASE Verify(c)
    <3>1. call[c].who \in Residents
      BY <1>1, <2>1 DEF Verify, FrameOK
    <3> QED BY <3>1, <2>1 DEF Verify, TypeInv, RestOK
  <2>2. CASE proven' = proven BY <2>2 DEF TypeInv, RestOK
  <2> QED BY <2>1, <2>2 DEF SetPassword, Verify, Claim, history
<1> QED BY <1>1, <1>2, <1>3, <1>4, <1>5 DEF TypeInv, RestOK

LEMMA ExpireTyped ==
  ASSUME TypeInv, NEW k \in DOMAIN links, Expire(k)
  PROVE  TypeInv'
<1>1. k \in 1..Len(links) /\ links[k] \in Link BY DEF TypeInv, LinksOK
<1>2. links' = [links EXCEPT ![k] = [links[k] EXCEPT !.late = TRUE]]
  BY <1>1 DEF Expire, TypeInv, LinksOK
<1>3. /\ [links[k] EXCEPT !.late = TRUE] \in Link
      /\ [links[k] EXCEPT !.late = TRUE].kind = links[k].kind
      /\ [links[k] EXCEPT !.late = TRUE].who = links[k].who
  BY <1>1 DEF Link
<1>4. LinksOK' /\ Len(links') = Len(links)
  BY <1>1, <1>2, <1>3, LinkFlags DEF Expire, history
<1> QED BY <1>4 DEF Expire, history, TypeInv, FramesOK, RestOK

LEMMA TypeInit == Init => TypeInv
<1> SUFFICES ASSUME Init PROVE TypeInv OBVIOUS
<1> USE AccountsAssumption
<1>1. account \in [People -> Account]
  <2>1. PICK a \in Staff :
          account = [p \in People |->
            IF p = a THEN [NoAccount EXCEPT !.role = "admin", !.password = TRUE]
                     ELSE NoAccount]
    BY DEF Init
  <2>2. /\ NoAccount \in Account
        /\ [NoAccount EXCEPT !.role = "admin", !.password = TRUE] \in Account
    BY DEF NoAccount, Account
  <2> QED BY <2>1, <2>2
<1>2. FramesOK
  <2>1. \A n \in Nat : FrameOK(Idle, n) BY IdleOK
  <2>2. Len(links) = 0 BY DEF Init
  <2> QED BY <2>1, <2>2 DEF Init, FramesOK, FrameOK
<1>3. LinksOK BY DEF Init, LinksOK
<1> QED BY <1>1, <1>2, <1>3 DEF Init, TypeInv, RestOK

\* Every step of a caller is one of the two kinds, every other an expiry.
LEMMA Steps ==
  ASSUME Next
  PROVE  \/ \E c \in Callers : Beginning(c) \/ Ongoing(c)
         \/ \E k \in DOMAIN links : Expire(k)
BY DEF Next, Managing, Linking, Residing, Beginning, Ongoing

LEMMA TypeStep == TypeInv /\ [Next]_vars => TypeInv'
<1> SUFFICES ASSUME TypeInv, [Next]_vars PROVE TypeInv' OBVIOUS
<1>1. ASSUME NEW c \in Callers, Beginning(c) PROVE TypeInv' BY <1>1, BeginsTyped
<1>2. ASSUME NEW c \in Callers, Ongoing(c) PROVE TypeInv'
  BY <1>2, InsertTyped, WritesTyped, MintTyped, BurnTyped, EffectsTyped DEF Ongoing
<1>3. ASSUME NEW k \in DOMAIN links, Expire(k) PROVE TypeInv' BY <1>3, ExpireTyped
<1>4. CASE UNCHANGED vars
  BY <1>4 DEF vars, history, TypeInv, FramesOK, LinksOK, RestOK
<1> QED BY <1>1, <1>2, <1>3, <1>4, Steps

LEMMA Typed == Spec => []TypeInv
BY TypeInit, TypeStep, PTL DEF Spec

\* TypeOK, for any staff, residents, roles and bounds.
THEOREM AccountsTypeCorrect == Spec => []TypeOK
<1>1. TypeInv => TypeOK BY DEF TypeInv, TypeOK, FramesOK, LinksOK, RestOK
<1> QED BY <1>1, Typed, PTL

-----------------------------------------------------------------------------
(* Claimed histories.                                                      *)

HistoryInv == \A p \in filed : /\ Exists(p)
                               /\ account[p].verified => p \in proven

\* No row of a filing is created over another; a claim hides it, and only a
\* link that was opened shows it.
LEMMA HistoryStep == TypeInv /\ HistoryInv /\ [Next]_vars => HistoryInv'
<1> SUFFICES ASSUME TypeInv, HistoryInv, [Next]_vars PROVE HistoryInv' OBVIOUS
<1>0. account \in [People -> Account] /\ filed \subseteq People
  BY DEF TypeInv, RestOK, People
<1>1. CASE UNCHANGED <<account, filed, proven>>
  BY <1>1 DEF HistoryInv, Exists
<1>2. ASSUME NEW c \in Callers, Beginning(c) PROVE HistoryInv'
  <2>1. UNCHANGED <<account, links, history>> BY <1>2, Begins
  <2> QED BY <2>1, <1>1 DEF history
<1>3. ASSUME NEW c \in Callers, Ongoing(c) PROVE HistoryInv'
  <2>0. FrameOK(call[c], Len(links)) BY DEF TypeInv, FramesOK
  <2>1. CASE Insert(c)
    <3>1. CASE Exists(call[c].who) BY <3>1, <2>1, <1>1 DEF Insert
    <3>2. CASE ~Exists(call[c].who)
      <4> DEFINE w == call[c].who
                 row == call[c].row
      <4>1. /\ account' = [account EXCEPT ![w] = row]
            /\ filed' = IF call[c].op = "file" THEN filed \cup {w} ELSE filed
            /\ proven' = proven /\ w \in People
        BY <2>1, <3>2, <2>0 DEF Insert, FrameOK
      <4>2. w \notin filed BY <3>2 DEF HistoryInv
      <4>3. call[c].op = "file" => row.role # "none" /\ ~row.verified
        BY <2>0 DEF FrameOK
      <4> HIDE DEF w, row
      <4> QED BY <4>1, <4>2, <4>3, <1>0 DEF HistoryInv, Exists
    <3> QED BY <3>1, <3>2
  <2>2. CASE WriteRole(c)
    <3>1. call[c].row.role # "none" BY <2>2, <2>0 DEF WriteRole, FrameOK
    <3> QED BY <3>1, <2>2, <1>0 DEF WriteRole, HistoryInv, Exists, history, Account
  <2>3. CASE ClearPassword(c)
    BY <2>3, <1>0 DEF ClearPassword, HistoryInv, Exists, history, Account
  <2>4. CASE SetPassword(c)
    BY <2>4, <1>0 DEF SetPassword, HistoryInv, Exists, history, Account
  <2>5. CASE Verify(c)
    BY <2>5, <1>0 DEF Verify, HistoryInv, Exists, history, Account
  <2>6. CASE Claim(c)
    <3> DEFINE w == call[c].who
    <3>1. /\ w \in People => /\ Claimed(account[w]).role = account[w].role
                            /\ ~Claimed(account[w]).verified
      BY <1>0 DEF Claimed, Account
    <3>2. /\ account' = [account EXCEPT ![w] = Claimed(account[w])]
          /\ filed' = filed /\ proven' = proven
      BY <2>6, <1>0 DEF Claim, history
    <3> HIDE DEF w
    <3> QED BY <3>1, <3>2, <1>0 DEF HistoryInv, Exists
  <2>7. CASE LookForOthers(c) \/ Mint(c) \/ FindLink(c) \/ Burn(c) \/ CallAborts(c)
    BY <2>7, <1>1 DEF LookForOthers, Mint, FindLink, Burn, CallAborts, history
  <2> QED BY <1>3, <2>1, <2>2, <2>3, <2>4, <2>5, <2>6, <2>7 DEF Ongoing
<1>4. ASSUME NEW k \in DOMAIN links, Expire(k) PROVE HistoryInv'
  BY <1>4, <1>1 DEF Expire, history
<1> QED BY <1>1, <1>2, <1>3, <1>4, Steps DEF vars, history

\* HistoryNeedsProof: a resident whose row came from a filing sees what was
\* filed only after opening a link mailed to that address.
THEOREM HistoryProven == Spec => []HistoryNeedsProof
<1>1. Init => HistoryInv BY DEF Init, HistoryInv
<1>2. HistoryInv => HistoryNeedsProof BY DEF HistoryInv, HistoryNeedsProof
<1> QED BY <1>1, <1>2, Typed, HistoryStep, PTL DEF Spec

-----------------------------------------------------------------------------
(* An admin who can sign in.                                               *)

\* Of calls that may take an admin away there is one at a time, and if it is
\* going to, it has seen another who can sign in.
Removing == /\ \A c, d \in Callers :
                 Busy(c) /\ Removal(call[c]) /\ Busy(d) /\ Removal(call[d]) => c = d
            /\ \A c \in Callers :
                 /\ call[c].pc = "role" /\ call[c].row.role # "admin" =>
                      \E q \in Staff : q # call[c].who /\ Able(q)
                 /\ call[c].pc \in {"others", "revoke"} => Exists(call[c].who)
                 /\ call[c].pc = "revoke" =>
                      \/ ~Admin(call[c].who)
                      \/ \E q \in Staff : q # call[c].who /\ Able(q)

AdminInv == Unlike => SomeAdminCanSignIn /\ Removing

LEMMA AdminInit == Init => AdminInv
<1> SUFFICES ASSUME Init PROVE AdminInv OBVIOUS
<1>1. PICK a \in Staff :
        account = [p \in People |->
          IF p = a THEN [NoAccount EXCEPT !.role = "admin", !.password = TRUE]
                   ELSE NoAccount]
  BY DEF Init
<1>2. account[a] = [NoAccount EXCEPT !.role = "admin", !.password = TRUE]
  BY <1>1 DEF People
<1>3. Able(a) BY <1>2 DEF Able, Admin, CanSignIn, Exists, NoAccount
<1>4. Removing BY DEF Init, Removing, Busy, Idle
<1> QED BY <1>3, <1>4 DEF AdminInv, SomeAdminCanSignIn, Able

LEMMA EnvKept ==
  ASSUME TypeInv, [Next]_vars
  PROVE  env'.overlap = env.overlap /\ env'.fail = env.fail
<1>1. ASSUME NEW c \in Callers, NEW f, Begin(c, f)
      PROVE  env'.overlap = env.overlap /\ env'.fail = env.fail
  BY <1>1 DEF Begin, TypeInv, RestOK, Environment
<1>2. ASSUME NEW c \in Callers, Beginning(c)
      PROVE  env'.overlap = env.overlap /\ env'.fail = env.fail
  BY <1>2, <1>1, Begins
<1>3. ASSUME NEW c \in Callers, Ongoing(c) PROVE env' = env
  BY <1>3 DEF Ongoing, Insert, WriteRole, LookForOthers, ClearPassword, Mint,
              FindLink, Burn, SetPassword, Verify, Claim, CallAborts
<1>4. ASSUME NEW k \in DOMAIN links, Expire(k) PROVE env' = env BY <1>4 DEF Expire
<1> QED BY <1>2, <1>3, <1>4, Steps DEF vars

\* No admin loses the role or the sign-in, nobody there becomes one.
Spared == /\ \A q \in Staff : Able(q) => Able(q)'
          /\ \A p \in People : Exists(p) => Exists(p)' /\ (Admin(p)' => Admin(p))

\* Then a call that removes nothing may move on, or begin,
LEMMA OthersMove ==
  ASSUME TypeInv, SomeAdminCanSignIn /\ Removing, Unlike, Spared, NEW c \in Callers,
         NEW f, FrameOK(f, Len(links)), ~Removal(f), call' = [call EXCEPT ![c] = f]
  PROVE  (SomeAdminCanSignIn /\ Removing)'
<1>1. call \in [Callers -> Call] BY DEF TypeInv, FramesOK
<1>2. SomeAdminCanSignIn' BY DEF SomeAdminCanSignIn, Spared, Able
<1>3. \A d \in Callers : Busy(d)' /\ Removal(call[d])' =>
         d # c /\ call'[d] = call[d] /\ Busy(d) /\ Removal(call[d])
  BY <1>1 DEF Busy, Removal
<1>4. f.pc \notin {"role", "others", "revoke"} BY DEF FrameOK, Removal
<1>5. \A d \in Callers : FrameOK(call[d], Len(links)) BY DEF TypeInv, FramesOK
<1>6. \A d \in Callers : call'[d].pc \in {"role", "others", "revoke"} =>
         d # c /\ call'[d] = call[d] /\ call[d].who \in People
  BY <1>1, <1>4, <1>5 DEF FrameOK
<1>7. ASSUME NEW d \in Callers, call'[d].pc = "role", call'[d].row.role # "admin"
      PROVE  \E q \in Staff : q # call'[d].who /\ Able(q)'
  BY <1>6, <1>7 DEF Removing, Spared
<1>8. ASSUME NEW d \in Callers, call'[d].pc \in {"others", "revoke"}
      PROVE  Exists(call[d].who)'
  <2>1. PICK w \in People : w = call[d].who /\ w = call'[d].who BY <1>6, <1>8
  <2>2. Exists(w)
    <3>1. call[d].pc \in {"others", "revoke"} BY <1>6, <1>8
    <3> QED BY <3>1, <2>1 DEF Removing
  <2>3. Exists(w)' BY <2>2 DEF Spared
  <2> QED BY <2>1, <2>3
<1>9. ASSUME NEW d \in Callers, call'[d].pc = "revoke"
      PROVE  \/ ~Admin(call[d].who)'
             \/ \E q \in Staff : q # call'[d].who /\ Able(q)'
  <2>1. PICK w \in People : w = call[d].who /\ w = call'[d].who BY <1>6, <1>9
  <2>2. call[d].pc = "revoke" BY <1>6, <1>9
  <2>3. CASE ~Admin(w)
    <3>1. Exists(w) BY <2>1, <2>2 DEF Removing
    <3>2. ~Admin(w)' BY <3>1, <2>3 DEF Spared
    <3> QED BY <3>2, <2>1
  <2>4. CASE \E q \in Staff : q # w /\ Able(q)
    BY <2>4, <2>1 DEF Spared
  <2> QED BY <2>1, <2>2, <2>3, <2>4 DEF Removing
<1>10. Removing'
  BY <1>3, <1>7, <1>8, <1>9 DEF Removing
<1> QED BY <1>2, <1>10

\* The reads and writes that take no admin away.
LEMMA Sparing ==
  ASSUME TypeInv, NEW c \in Callers,
         Insert(c) \/ SetPassword(c) \/ Verify(c) \/ Claim(c) \/ account' = account
  PROVE  Spared
<1>0. account \in [People -> Account] /\ Staff \subseteq People
  BY DEF TypeInv, RestOK, People
<1>1. CASE account' = account BY <1>1 DEF Spared, Able, Admin, CanSignIn, Exists
<1>2. CASE Insert(c)
  <2>1. \A p \in People : Exists(p) => account'[p] = account[p]
    BY <1>2, <1>0 DEF Insert
  <2> QED BY <2>1, <1>0 DEF Spared, Able, Admin, CanSignIn, Exists
<1>3. ASSUME \A p \in People : /\ account'[p].role = account[p].role
                               /\ account[p].password => account'[p].password
      PROVE  Spared
  BY <1>3, <1>0 DEF Spared, Able, Admin, CanSignIn, Exists
<1>4. CASE SetPassword(c) BY <1>4, <1>3, <1>0 DEF SetPassword, Account
<1>5. CASE Verify(c) BY <1>5, <1>3, <1>0 DEF Verify, Account
<1>6. CASE Claim(c)
  <2> DEFINE w == call[c].who
  <2>1. w \in People => /\ Claimed(account[w]).role = account[w].role
                         /\ Claimed(account[w]).password
    BY <1>0 DEF Claimed, Account
  <2>2. account' = [account EXCEPT ![w] = Claimed(account[w])]
    BY <1>6, <1>0 DEF Claim
  <2> HIDE DEF w
  <2> QED BY <2>1, <2>2, <1>3, <1>0
<1> QED BY <1>1, <1>2, <1>4, <1>5, <1>6

\* The call goes on with the frame it has.
Goes(c, f) == call' = [call EXCEPT ![c] = f] /\ FrameOK(f, Len(links)) /\ ~Removal(f)

LEMMA OngoingGoes ==
  ASSUME TypeInv, TypeInv', NEW c \in Callers,
         \/ Insert(c) \/ (LookForOthers(c) /\ Finish(c)) \/ FindLink(c) \/ Burn(c)
         \/ SetPassword(c) \/ Verify(c) \/ Claim(c) \/ CallAborts(c) \/ Mint(c)
  PROVE  \E f : Goes(c, f)
<1>0. /\ call \in [Callers -> Call] /\ FrameOK(call[c], Len(links)) /\ Len(links) \in Nat
  BY DEF TypeInv, FramesOK, LinksOK
<1>1. CASE Finish(c)
  <2>1. FrameOK(Idle, Len(links)) /\ ~Removal(Idle)
    BY <1>0, IdleOK DEF Removal, Idle
  <2> QED BY <2>1, <1>1 DEF Finish, Goes
<1>2. ASSUME NEW pc \in {"mint", "burn", "verify", "password"}, GoTo(c, pc),
             FrameOK([call[c] EXCEPT !.pc = pc], Len(links)), ~Removal(call[c])
      PROVE  \E f : Goes(c, f)
  <2>1. call' = [call EXCEPT ![c] = [call[c] EXCEPT !.pc = pc]]
    BY <1>0, <1>2 DEF GoTo
  <2>2. ~Removal([call[c] EXCEPT !.pc = pc]) BY <1>2, <1>0 DEF Removal, Call
  <2> QED BY <2>1, <2>2, <1>2 DEF Goes
<1>3. CASE Insert(c) /\ GoTo(c, "mint")
  <2>1. FrameOK([call[c] EXCEPT !.pc = "mint"], Len(links)) /\ ~Removal(call[c])
    BY <1>0, <1>3 DEF FrameOK, Call, Insert, Removal
  <2> QED BY <2>1, <1>2, <1>3
<1>4. CASE FindLink(c) /\ GoTo(c, "burn")
  <2>1. FrameOK([call[c] EXCEPT !.pc = "burn"], Len(links)) /\ ~Removal(call[c])
    BY <1>0, <1>4 DEF FrameOK, Call, FindLink, Removal
  <2> QED BY <2>1, <1>2, <1>4
<1>5. CASE Burn(c)
  <2> DEFINE pc == IF call[c].kind = "verify" THEN "verify" ELSE "password"
  <2>1. FrameOK([call[c] EXCEPT !.pc = pc], Len(links)) /\ ~Removal(call[c])
    BY <1>0, <1>5 DEF FrameOK, Call, Burn, Removal
  <2>2. pc \in {"verify", "password"} /\ GoTo(c, pc) BY <1>5 DEF Burn
  <2> HIDE DEF pc
  <2> QED BY <2>1, <2>2, <1>2
<1>6. CASE Claim(c)
  <2>1. FrameOK([call[c] EXCEPT !.pc = "mint"], Len(links)) /\ ~Removal(call[c])
    BY <1>0, <1>6 DEF FrameOK, Call, Claim, Removal
  <2> QED BY <2>1, <1>2, <1>6 DEF Claim
<1> QED BY <1>1, <1>3, <1>4, <1>5, <1>6
     DEF Insert, LookForOthers, FindLink, SetPassword, Verify, CallAborts, Mint

\* The three steps of calls that do take an admin away.
LEMMA LookKeeps ==
  ASSUME TypeInv, SomeAdminCanSignIn /\ Removing, Unlike, NEW c \in Callers,
         LookForOthers(c), GoTo(c, "revoke"), Replaceable(call[c].who)
  PROVE  (SomeAdminCanSignIn /\ Removing)'
<1>0. call \in [Callers -> Call] BY DEF TypeInv, FramesOK
<1>1. account' = account BY DEF LookForOthers
<1>2. \A d \in Callers : /\ call'[d].who = call[d].who /\ call'[d].op = call[d].op
                         /\ call'[d].row = call[d].row
                         /\ Busy(d)' = Busy(d)
                         /\ d # c => call'[d] = call[d]
  BY <1>0 DEF GoTo, LookForOthers, Busy
<1>3. SomeAdminCanSignIn'
  BY <1>1 DEF SomeAdminCanSignIn, Unlike, Admin, CanSignIn, Exists
<1>4. \E q \in Staff : q # call[c].who /\ Able(q) BY DEF Replaceable, Able
<1>5. call'[c].pc = "revoke" /\ call[c].pc = "others" BY <1>0 DEF GoTo, LookForOthers
<1>6. Removing'
  BY <1>1, <1>2, <1>4, <1>5
  DEF Removing, Removal, Able, Admin, CanSignIn, Exists
<1> QED BY <1>3, <1>6

LEMMA RemovalKeeps ==
  ASSUME TypeInv, SomeAdminCanSignIn /\ Removing, Unlike, NEW c \in Callers,
         WriteRole(c) \/ ClearPassword(c)
  PROVE  (SomeAdminCanSignIn /\ Removing)'
<1> DEFINE w == call[c].who
<1>0. /\ call \in [Callers -> Call] /\ account \in [People -> Account]
      /\ Staff \subseteq People
      /\ \A d \in Callers : FrameOK(call[d], Len(links))
  BY DEF TypeInv, FramesOK, RestOK, People
<1>1. call' = [call EXCEPT ![c] = Idle] BY DEF WriteRole, ClearPassword, Finish
<1>2. Busy(c) /\ Removal(call[c])
  BY <1>0 DEF WriteRole, ClearPassword, Busy, Removal, FrameOK
<1>3. \A d \in Callers : d # c => ~(Busy(d) /\ Removal(call[d]))
  BY <1>2 DEF Removing
<1>4. \A d \in Callers : /\ call'[d].pc \notin {"role", "others", "revoke"}
                         /\ ~(Busy(d)' /\ Removal(call[d])')
  BY <1>0, <1>1, <1>3 DEF Busy, Removal, Idle, FrameOK
<1>5. Removing' BY <1>4 DEF Removing
<1>6. \A q \in Staff : q # w => account'[q] = account[q]
  BY <1>0 DEF WriteRole, ClearPassword
<1>7. \A q \in Staff : q # w /\ Able(q) => Able(q)'
  BY <1>6 DEF Able, Admin, CanSignIn, Exists
<1>8. \E q \in Staff : Able(q) BY DEF SomeAdminCanSignIn, Able
<1>9. \E q \in Staff : Able(q)'
  <2>1. CASE WriteRole(c) /\ call[c].row.role # "admin"
    BY <2>1, <1>7 DEF Removing, WriteRole
  <2>2. CASE WriteRole(c) /\ call[c].row.role = "admin"
    <3>1. \A q \in Staff : q = w /\ Able(q) => Able(q)'
      BY <2>2, <1>0 DEF WriteRole, Able, Admin, CanSignIn, Exists, Account
    <3> QED BY <3>1, <1>7, <1>8
  <2>3. CASE ClearPassword(c)
    <3>1. call[c].pc = "revoke" BY <2>3 DEF ClearPassword
    <3>2. CASE ~Admin(w) BY <3>2, <1>7, <1>8 DEF Able
    <3>3. CASE \E q \in Staff : q # w /\ Able(q) BY <3>3, <1>7
    <3> QED BY <3>1, <3>2, <3>3 DEF Removing
  <2> QED BY <2>1, <2>2, <2>3
<1>10. SomeAdminCanSignIn' BY <1>9 DEF SomeAdminCanSignIn, Able
<1> QED BY <1>5, <1>10

\* A removal begins: no other is under way.
LEMMA RemovalBegins ==
  ASSUME TypeInv, SomeAdminCanSignIn /\ Removing, Unlike, NEW c \in Callers,
         NEW f, FrameOK(f, Len(links)), Begin(c, f), Fresh(f), Removal(f),
         account' = account
  PROVE  (SomeAdminCanSignIn /\ Removing)'
<1>0. call \in [Callers -> Call] /\ call' = [call EXCEPT ![c] = f]
  BY DEF TypeInv, FramesOK, Begin
<1>1. SomeAdminCanSignIn'
  BY DEF SomeAdminCanSignIn, Unlike, Admin, CanSignIn, Exists
<1>2. \A d \in Callers : ~(Busy(d) /\ Removal(call[d]))
  <2>1. CASE env.overlap = "none" BY <2>1 DEF Begin, Quiet
  <2>2. CASE env.overlap = "unlike" BY <2>2 DEF Begin, Alike
  <2>3. env.overlap \in {"none", "unlike"}
    BY DEF Unlike, TypeInv, RestOK, Environment
  <2> QED BY <2>1, <2>2, <2>3
<1>3. \A d \in Callers : d # c => call'[d] = call[d] /\ ~(Busy(d) /\ Removal(call[d]))
  BY <1>0, <1>2
<1>4. call'[c] = f BY <1>0
<1>5. \A d \in Callers : d # c => call[d].pc \notin {"role", "others", "revoke"}
  <2> TAKE d \in Callers
  <2>1. FrameOK(call[d], Len(links)) BY DEF TypeInv, FramesOK
  <2> QED BY <2>1, <1>2 DEF FrameOK, Busy, Removal
<1>6. f.pc = "role" /\ f.row.role # "admin" => \E q \in Staff : q # f.who /\ Able(q)
  BY DEF Fresh, FrameOK
<1>7. /\ f.pc \in {"others", "revoke"} => account[f.who].role # "none"
      /\ f.pc = "revoke" => account[f.who].role # "admin"
  BY DEF Fresh, FrameOK, Exists, Admin
<1>8. Removing'
  <2>1. \A d, e \in Callers :
          Busy(d)' /\ Removal(call[d])' /\ Busy(e)' /\ Removal(call[e])' => d = e
    BY <1>3 DEF Busy, Removal
  <2>2. \A d \in Callers : call'[d].pc \in {"role", "others", "revoke"} => d = c
    BY <1>3, <1>5
  <2>3. \A q : Able(q)' <=> Able(q) BY DEF Able, Admin, CanSignIn, Exists
  <2> QED BY <2>1, <2>2, <2>3, <1>4, <1>6, <1>7 DEF Removing, Exists, Admin
<1> QED BY <1>1, <1>8

LEMMA AdminStep == TypeInv /\ AdminInv /\ [Next]_vars => AdminInv'
<1> SUFFICES ASSUME TypeInv, AdminInv, [Next]_vars, Unlike'
             PROVE  (SomeAdminCanSignIn /\ Removing)'
  BY DEF AdminInv
<1>0. Unlike /\ SomeAdminCanSignIn /\ Removing
  BY EnvKept DEF Unlike, AdminInv
<1>1. TypeInv' BY TypeStep
<1>2. CASE UNCHANGED <<account, call>>
  BY <1>0, <1>2 DEF SomeAdminCanSignIn, Removing, Unlike, Able, Admin, CanSignIn,
                    Exists, Busy, Removal
<1>3. ASSUME NEW c \in Callers, NEW f, Goes(c, f), Spared
      PROVE  (SomeAdminCanSignIn /\ Removing)'
  BY <1>3, <1>0, OthersMove DEF Goes
<1>4. ASSUME NEW c \in Callers, Beginning(c) PROVE (SomeAdminCanSignIn /\ Removing)'
  <2>1. PICK f : /\ FrameOK(f, Len(links)) /\ Begin(c, f) /\ Fresh(f)
                 /\ UNCHANGED <<account, links, history>>
    BY <1>4, Begins
  <2>2. CASE Removal(f) BY <2>1, <2>2, <1>0, RemovalBegins
  <2>3. CASE ~Removal(f)
    <3>1. Spared BY <2>1, Sparing
    <3> QED BY <3>1, <2>1, <2>3, <1>3 DEF Goes, Begin
  <2> QED BY <2>2, <2>3
<1>5. ASSUME NEW c \in Callers, Ongoing(c) PROVE (SomeAdminCanSignIn /\ Removing)'
  <2>1. CASE WriteRole(c) \/ ClearPassword(c) BY <2>1, <1>0, RemovalKeeps
  <2>2. ASSUME \/ Insert(c) \/ (LookForOthers(c) /\ Finish(c)) \/ FindLink(c) \/ Burn(c)
               \/ SetPassword(c) \/ Verify(c) \/ Claim(c) \/ CallAborts(c) \/ Mint(c)
        PROVE  (SomeAdminCanSignIn /\ Removing)'
    <3>1. \E f : Goes(c, f) BY <2>2, <1>1, OngoingGoes
    <3>2. Spared
      BY <2>2, Sparing DEF LookForOthers, FindLink, Burn, CallAborts, Mint
    <3> QED BY <3>1, <3>2, <1>3
  <2>3. ASSUME LookForOthers(c) PROVE (SomeAdminCanSignIn /\ Removing)'
    <3>1. CASE Finish(c) BY <2>3, <3>1, <2>2
    <3>2. CASE ~Finish(c) BY <2>3, <3>2, <1>0, LookKeeps DEF LookForOthers
    <3> QED BY <3>1, <3>2
  <2>4. \/ WriteRole(c) \/ ClearPassword(c)
        \/ LookForOthers(c)
        \/ \/ Insert(c) \/ (LookForOthers(c) /\ Finish(c)) \/ FindLink(c) \/ Burn(c)
           \/ SetPassword(c) \/ Verify(c) \/ Claim(c) \/ CallAborts(c) \/ Mint(c)
    BY <1>5 DEF Ongoing
  <2>5. CASE WriteRole(c) \/ ClearPassword(c) BY <2>5, <2>1
  <2>6. CASE LookForOthers(c) BY <2>6, <2>3
  <2> QED BY <2>2, <2>4, <2>5, <2>6
<1>6. ASSUME NEW k \in DOMAIN links, Expire(k) PROVE (SomeAdminCanSignIn /\ Removing)'
  BY <1>6, <1>2 DEF Expire
<1>7. CASE UNCHANGED vars BY <1>7, <1>2 DEF vars
<1>8. CASE Next
  <2>1. \/ \E c \in Callers : Beginning(c) \/ Ongoing(c)
        \/ \E k \in DOMAIN links : Expire(k)
    BY <1>8, Steps
  <2>2. CASE \E c \in Callers : Beginning(c) BY <2>2, <1>4
  <2>3. CASE \E c \in Callers : Ongoing(c) BY <2>3, <1>5
  <2>4. CASE \E k \in DOMAIN links : Expire(k) BY <2>4, <1>6
  <2> QED BY <2>1, <2>2, <2>3, <2>4
<1> QED BY <1>7, <1>8

\* SomeAdminCanSignIn: unless two calls that may take an admin away overlap,
\* there always is an admin who can sign in, failures included.
THEOREM AdminRemains == Spec => []SomeAdminCanSignIn
<1>1. AdminInv => SomeAdminCanSignIn BY DEF AdminInv, SomeAdminCanSignIn
<1> QED BY <1>1, AdminInit, AdminStep, Typed, PTL DEF Spec

-----------------------------------------------------------------------------
(* Links.                                                                  *)

Redeems(f, k)   == f.pc # "idle" /\ f.op = "redeem" /\ f.link = k
Effecting(f, k) == Redeems(f, k) /\ f.pc \in {"password", "verify"}

\* One redemption of a link is under way at most; about to burn it, it finds it
\* unused; about to have the effect, burned and without effect so far.
SpendingAt(k) ==
  /\ \A c, d \in Callers : Redeems(call[c], k) /\ Redeems(call[d], k) => c = d
  /\ \A c \in Callers :
       /\ Redeems(call[c], k) /\ call[c].pc = "burn" => ~links[k].used
       /\ Effecting(call[c], k) => links[k].used /\ redeemed[k] = 0
  /\ redeemed[k] \in {0, 1}
  /\ redeemed[k] = 1 => links[k].used
  /\ Faultless /\ links[k].used =>
       redeemed[k] = 1 \/ \E c \in Callers : Effecting(call[c], k)

Spending == \A k \in 1..Len(links) : SpendingAt(k)
OnceInv  == Unlike => Spending

\* A step that neither burns the link nor gives it its effect.
LEMMA LinkHeld ==
  ASSUME TypeInv, NEW c \in Callers, NEW f, call' = [call EXCEPT ![c] = f],
         NEW k \in 1..Len(links), SpendingAt(k), env'.fail = env.fail,
         links'[k].used = links[k].used, redeemed'[k] = redeemed[k],
         Redeems(f, k) => f.pc = "find" /\ \A d \in Callers : Redeems(call[d], k) => d = c,
         Effecting(call[c], k) => ~Faultless
  PROVE  SpendingAt(k)'
<1>1. \A d \in Callers : call'[d] = IF d = c THEN f ELSE call[d]
  BY DEF TypeInv, FramesOK
<1>2. ~Effecting(f, k) BY DEF Effecting
<1>3. \A d, e \in Callers : Redeems(call'[d], k) /\ Redeems(call'[e], k) => d = e
  BY <1>1 DEF SpendingAt
<1>4. \A d \in Callers :
        /\ Redeems(call'[d], k) /\ call'[d].pc = "burn" => ~links'[k].used
        /\ Effecting(call'[d], k) => links'[k].used /\ redeemed'[k] = 0
  BY <1>1, <1>2 DEF SpendingAt
<1>5. Faultless' /\ links'[k].used =>
        redeemed'[k] = 1 \/ \E d \in Callers : Effecting(call'[d], k)
  <2> SUFFICES ASSUME Faultless', links'[k].used, redeemed'[k] # 1
               PROVE  \E d \in Callers : Effecting(call'[d], k)
    OBVIOUS
  <2>1. Faultless BY DEF Faultless
  <2>2. PICK d \in Callers : Effecting(call[d], k) BY <2>1 DEF SpendingAt
  <2>3. d # c BY <2>1, <2>2
  <2> QED BY <2>2, <2>3, <1>1
<1>6. redeemed'[k] \in {0, 1} /\ (redeemed'[k] = 1 => links'[k].used)
  BY DEF SpendingAt
<1> QED BY <1>3, <1>4, <1>5, <1>6 DEF SpendingAt, Redeems, Effecting

\* The same for all links, when no frame is in hand that was not.
LEMMA LinksHeld ==
  ASSUME TypeInv, NEW c \in Callers, NEW f, call' = [call EXCEPT ![c] = f],
         Spending, env'.fail = env.fail, links' = links, redeemed' = redeemed,
         f.pc # "idle" /\ f.op = "redeem" =>
           f.pc = "find" /\ \A d \in Callers : Redeems(call[d], f.link) => d = c,
         call[c].op = "redeem" /\ call[c].pc \in {"password", "verify"} => ~Faultless
  PROVE  Spending'
<1> SUFFICES ASSUME NEW k \in 1..Len(links) PROVE SpendingAt(k)' BY DEF Spending
<1>1. SpendingAt(k) BY DEF Spending
<1>2. Redeems(f, k) => f.pc = "find" /\ \A d \in Callers : Redeems(call[d], k) => d = c
  BY DEF Redeems
<1>3. Effecting(call[c], k) => ~Faultless BY DEF Effecting, Redeems
<1> QED BY <1>1, <1>2, <1>3, LinkHeld

\* A call about something else begins, or one about a link no other is about.
LEMMA BeginHeld ==
  ASSUME TypeInv, Spending, Unlike, NEW c \in Callers, Beginning(c),
         env'.fail = env.fail
  PROVE  Spending'
<1>1. PICK f : /\ FrameOK(f, Len(links)) /\ Begin(c, f) /\ Fresh(f)
               /\ UNCHANGED <<account, links, history>>
  BY Begins
<1>2. f.op = "redeem" => \A d \in Callers : ~Redeems(call[d], f.link)
  <2>1. CASE env.overlap = "none" BY <1>1, <2>1 DEF Begin, Quiet, Busy, Redeems
  <2>2. CASE env.overlap = "unlike" BY <1>1, <2>2 DEF Begin, Alike, Redeems
  <2> QED BY <2>1, <2>2 DEF Unlike, TypeInv, RestOK, Environment
<1>3. call[c].pc = "idle" /\ call' = [call EXCEPT ![c] = f]
  BY <1>1 DEF Begin, Busy
<1>4. f.op = "redeem" => f.pc = "find" BY <1>1 DEF Fresh
<1> QED BY <1>1, <1>2, <1>3, <1>4, LinksHeld DEF history

\* Reads, and writes about other things.
LEMMA OthersHeld ==
  ASSUME TypeInv, Spending, NEW c \in Callers, env' = env,
         \/ Insert(c) \/ WriteRole(c) \/ LookForOthers(c) \/ ClearPassword(c)
         \/ Claim(c) \/ CallAborts(c)
  PROVE  Spending'
<1>0. /\ call \in [Callers -> Call] /\ FrameOK(call[c], Len(links))
      /\ links' = links /\ redeemed' = redeemed /\ env'.fail = env.fail
  BY DEF TypeInv, FramesOK, Insert, WriteRole, LookForOthers, ClearPassword, Claim,
         CallAborts, history
<1>1. CASE CallAborts(c)
  BY <1>0, <1>1, LinksHeld DEF CallAborts, Finish, Idle, Faultless
<1>2. CASE /\ call[c].pc \in {"insert", "role", "others", "revoke", "claim"}
           /\ Finish(c)
  BY <1>0, <1>2, LinksHeld DEF Finish, Idle
<1>3. ASSUME NEW pc, call[c].op # "redeem", GoTo(c, pc) PROVE Spending'
  <2>1. call' = [call EXCEPT ![c] = [call[c] EXCEPT !.pc = pc]]
    BY <1>0, <1>3 DEF GoTo
  <2>2. [call[c] EXCEPT !.pc = pc].op # "redeem" BY <1>0, <1>3 DEF Call
  <2> QED BY <1>0, <1>3, <2>1, <2>2, LinksHeld
<1>4. CASE Insert(c)
  <2>1. CASE Finish(c) BY <1>2, <1>4, <2>1 DEF Insert
  <2>2. CASE call[c].op = "add" /\ GoTo(c, "mint") BY <1>3, <2>2
  <2> QED BY <1>4, <2>1, <2>2 DEF Insert
<1>5. CASE LookForOthers(c)
  <2>1. CASE Finish(c) BY <1>2, <1>5, <2>1 DEF LookForOthers
  <2>2. CASE GoTo(c, "revoke")
    <3>1. call[c].op # "redeem" BY <1>0, <1>5 DEF FrameOK, LookForOthers
    <3> QED BY <3>1, <2>2, <1>3
  <2> QED BY <1>5, <2>1, <2>2 DEF LookForOthers
<1>6. CASE Claim(c)
  <2>1. call[c].op # "redeem" BY <1>0, <1>6 DEF FrameOK, Claim
  <2> QED BY <2>1, <1>6, <1>3 DEF Claim
<1>7. CASE WriteRole(c) \/ ClearPassword(c)
  BY <1>7, <1>2 DEF WriteRole, ClearPassword
<1> QED BY <1>1, <1>4, <1>5, <1>6, <1>7

\* A link that is new has not been used, and nobody has it.
LEMMA MintHeld ==
  ASSUME TypeInv, Spending, NEW c \in Callers, Mint(c)
  PROVE  Spending'
<1>0. /\ call \in [Callers -> Call] /\ \A d \in Callers : FrameOK(call[d], Len(links))
      /\ Len(links) \in Nat /\ links \in Seq(Link)
      /\ redeemed \in Seq(Nat) /\ Len(redeemed) = Len(links)
  BY DEF TypeInv, FramesOK, LinksOK
<1>1. PICK link : /\ link = [kind |-> call[c].kind, who |-> call[c].who,
                             used |-> FALSE, late |-> FALSE]
                  /\ links' = Append(links, link) /\ redeemed' = Append(redeemed, 0)
                  /\ call' = [call EXCEPT ![c] = Idle] /\ env' = env
                  /\ call[c].pc = "mint"
  BY DEF Mint, Finish
<1>2. link \in Link
  <2>1. FrameOK(call[c], Len(links)) BY <1>0
  <2> QED BY <2>1, <1>1 DEF FrameOK, Call, Link
<1>3. PICK n \in Nat : n = Len(links) BY <1>0
<1>4. /\ Len(links') = n + 1
      /\ \A k \in 1..n : links'[k] = links[k] /\ redeemed'[k] = redeemed[k]
      /\ links'[n + 1] = link /\ redeemed'[n + 1] = 0
  BY <1>0, <1>1, <1>2, <1>3
<1>5. ASSUME NEW k \in 1..n PROVE SpendingAt(k)'
  <2>1. SpendingAt(k) /\ k \in 1..Len(links) BY <1>3 DEF Spending
  <2>2. ~Redeems(Idle, k) /\ ~Effecting(call[c], k)
    BY <1>1 DEF Redeems, Effecting, Idle
  <2>3. links'[k].used = links[k].used /\ redeemed'[k] = redeemed[k] BY <1>4
  <2> QED BY <2>1, <2>2, <2>3, <1>1, LinkHeld
<1>6. SpendingAt(n + 1)'
  <2>1. ASSUME NEW d \in Callers PROVE ~Redeems(call[d], n + 1)
    <3>1. FrameOK(call[d], n) BY <1>0, <1>3
    <3>2. call[d].op = "redeem" => call[d].link \in 1..n BY <3>1 DEF FrameOK
    <3> QED BY <3>2 DEF Redeems
  <2>2. \A d \in Callers : ~Redeems(call'[d], n + 1)
    BY <2>1, <1>0, <1>1 DEF Redeems, Idle
  <2>3. ~links'[n + 1].used /\ redeemed'[n + 1] = 0
    <3>1. ~link.used BY <1>1
    <3> QED BY <3>1, <1>4
  <2> QED BY <2>2, <2>3 DEF SpendingAt, Redeems, Effecting
<1>7. \A k \in 1..Len(links') : k \in 1..n \/ k = n + 1 BY <1>3, <1>4
<1> QED BY <1>5, <1>6, <1>7 DEF Spending

\* A link in hand is found to be good, burned, and has its effect.
LEMMA RedeemHeld ==
  ASSUME TypeInv, Spending, NEW c \in Callers, FindLink(c) \/ Burn(c)
  PROVE  Spending'
<1> DEFINE j == call[c].link
<1>0. /\ call \in [Callers -> Call] /\ FrameOK(call[c], Len(links))
      /\ links \in Seq(Link) /\ Len(links) \in Nat
  BY DEF TypeInv, FramesOK, LinksOK
<1>a. \A k \in 1..Len(links) : links[k] \in Link BY <1>0, ElementOfSeq
<1>1. /\ call[c].op = "redeem" /\ call[c].pc \in {"find", "burn"}
      /\ j \in 1..Len(links) /\ redeemed' = redeemed /\ env' = env
  BY <1>0 DEF FindLink, Burn, FrameOK, history
<1>2. CASE Finish(c) /\ links' = links
  BY <1>1, <1>2, LinksHeld DEF Finish, Idle
<1>3. CASE GoTo(c, "burn") /\ Good(j) /\ links' = links
  <2> SUFFICES ASSUME NEW k \in 1..Len(links) PROVE SpendingAt(k)'
    BY <1>3 DEF Spending
  <2>1. \A d \in Callers : /\ call'[d].op = call[d].op /\ call'[d].link = call[d].link
                           /\ d # c => call'[d] = call[d]
    BY <1>0, <1>3 DEF GoTo
  <2>2. call'[c].pc = "burn" BY <1>0, <1>3 DEF GoTo, Call
  <2>3. SpendingAt(k) BY DEF Spending
  <2>4. k = j => ~links[k].used BY <1>3 DEF Good
  <2>5. \A d \in Callers : (Redeems(call'[d], k) <=> Redeems(call[d], k))
                        /\ (Effecting(call'[d], k) <=> Effecting(call[d], k))
    BY <1>1, <2>1, <2>2 DEF Redeems, Effecting
  <2>6. \A d \in Callers : Redeems(call'[d], k) /\ call'[d].pc = "burn" => ~links[k].used
    BY <2>1, <2>3, <2>4 DEF Redeems, SpendingAt
  <2>7. /\ \A d, e \in Callers : Redeems(call'[d], k) /\ Redeems(call'[e], k) => d = e
        /\ \A d \in Callers : Effecting(call'[d], k) => links[k].used /\ redeemed[k] = 0
        /\ Faultless /\ links[k].used =>
             redeemed[k] = 1 \/ \E d \in Callers : Effecting(call'[d], k)
    BY <2>3, <2>5 DEF SpendingAt
  <2> QED BY <2>3, <2>6, <2>7, <1>1, <1>3 DEF SpendingAt, Redeems, Effecting, Faultless
<1>4. CASE Burn(c)
  <2>1. /\ \A d \in Callers : /\ call'[d].op = call[d].op /\ call'[d].link = call[d].link
                              /\ d # c => call'[d] = call[d]
        /\ call'[c].pc \in {"password", "verify"} /\ call[c].pc = "burn"
    BY <1>0, <1>4 DEF Burn, GoTo, Call
  <2>2. /\ Len(links') = Len(links)
        /\ \A k \in 1..Len(links) : links'[k].used = (links[k].used \/ k = j)
    <3>1. links' = [links EXCEPT ![j] = [links[j] EXCEPT !.used = TRUE]]
      BY <1>0, <1>1, <1>4 DEF Burn
    <3>2. [links[j] EXCEPT !.used = TRUE].used = TRUE
      BY <1>a, <1>1 DEF Link
    <3>3. [links[j] EXCEPT !.used = TRUE] \in Link BY <1>a, <1>1 DEF Link
    <3>4. /\ Len(links') = Len(links)
          /\ \A k \in 1..Len(links) :
               links'[k] = IF k = j THEN [links[j] EXCEPT !.used = TRUE] ELSE links[k]
      BY <3>1, <3>3, <1>0, <1>1, ExceptSeq
    <3>5. \A k \in 1..Len(links) : links[k].used \in BOOLEAN BY <1>a DEF Link
    <3> QED BY <3>2, <3>4, <3>5
  <2> SUFFICES ASSUME NEW k \in 1..Len(links) PROVE SpendingAt(k)'
    BY <2>2 DEF Spending
  <2>3. SpendingAt(k) BY DEF Spending
  <2>4. \A d \in Callers : Redeems(call'[d], k) <=> Redeems(call[d], k)
    BY <1>1, <2>1 DEF Redeems
  <2>5. \A d, e \in Callers : Redeems(call'[d], k) /\ Redeems(call'[e], k) => d = e
    BY <2>3, <2>4 DEF SpendingAt
  <2>6. CASE k = j
    <3>1. Redeems(call[c], k) BY <1>1, <2>6 DEF Redeems
    <3>2. \A d \in Callers : Redeems(call'[d], k) => d = c
      BY <3>1, <2>3, <2>4 DEF SpendingAt
    <3>3. redeemed[k] = 0 BY <3>1, <2>1, <2>3 DEF SpendingAt
    <3>4. Effecting(call'[c], k) BY <3>1, <2>1, <2>4 DEF Effecting
    <3>5. links'[k].used BY <2>2, <2>6
    <3>6. \A d \in Callers : Redeems(call'[d], k) => call'[d].pc # "burn"
      BY <3>2, <2>1
    <3> QED BY <3>3, <3>4, <3>5, <3>6, <2>5, <1>1 DEF SpendingAt, Redeems, Effecting
  <2>7. CASE k # j
    <3>1. links'[k].used = links[k].used BY <2>2, <2>7, <1>a DEF Link
    <3>2. ~Redeems(call'[c], k) /\ ~Redeems(call[c], k)
      BY <2>1, <2>7 DEF Redeems
    <3>3. \A d \in Callers : Redeems(call'[d], k) => call'[d] = call[d]
      BY <2>1, <3>2
    <3>4. \A d \in Callers : Effecting(call[d], k) <=> Effecting(call'[d], k)
      BY <2>1, <3>2 DEF Effecting
    <3>5. /\ \A d \in Callers : Redeems(call'[d], k) /\ call'[d].pc = "burn" => ~links'[k].used
          /\ \A d \in Callers : Effecting(call'[d], k) => links'[k].used /\ redeemed[k] = 0
      BY <2>3, <2>4, <3>1, <3>3, <3>4 DEF SpendingAt
    <3>6. Faultless /\ links'[k].used =>
            redeemed[k] = 1 \/ \E d \in Callers : Effecting(call'[d], k)
      BY <2>3, <3>1, <3>4 DEF SpendingAt
    <3>7. redeemed[k] \in {0, 1} /\ (redeemed[k] = 1 => links'[k].used)
      BY <2>3, <3>1 DEF SpendingAt
    <3> QED BY <3>5, <3>6, <3>7, <2>5, <1>1 DEF SpendingAt, Redeems, Effecting, Faultless
  <2> QED BY <2>6, <2>7
<1>5. CASE FindLink(c)
  <2>1. CASE Good(j) BY <1>3, <1>5, <2>1 DEF FindLink
  <2>2. CASE ~Good(j) BY <1>2, <1>5, <2>2 DEF FindLink
  <2> QED BY <2>1, <2>2
<1> QED BY <1>4, <1>5

\* The effect is counted, for the link in hand alone.
LEMMA EffectHeld ==
  ASSUME TypeInv, Spending, NEW c \in Callers, SetPassword(c) \/ Verify(c)
  PROVE  Spending'
<1>0. /\ call \in [Callers -> Call] /\ FrameOK(call[c], Len(links))
      /\ redeemed \in Seq(Nat) /\ Len(redeemed) = Len(links) /\ Len(links) \in Nat
  BY DEF TypeInv, FramesOK, LinksOK
<1>1. /\ call' = [call EXCEPT ![c] = Idle] /\ links' = links /\ env' = env
      /\ call[c].pc \in {"password", "verify"}
      /\ redeemed' = [k \in DOMAIN redeemed |->
                        IF k = call[c].link THEN redeemed[k] + 1 ELSE redeemed[k]]
  BY DEF SetPassword, Verify, Counted, Finish
<1>2. PICK j : j = call[c].link OBVIOUS
<1>3. \A k \in 1..Len(links) :
        redeemed'[k] = IF k = j THEN redeemed[k] + 1 ELSE redeemed[k]
  BY <1>0, <1>1, <1>2
<1>4. call[c].op # "redeem" => j = 0
  BY <1>0, <1>1, <1>2 DEF FrameOK
<1> SUFFICES ASSUME NEW k \in 1..Len(links) PROVE SpendingAt(k)'
  BY <1>1 DEF Spending
<1>5. SpendingAt(k) BY DEF Spending
<1>6. ~Redeems(Idle, k) BY DEF Redeems, Idle
<1>7. CASE k # j
  <2>1. redeemed'[k] = redeemed[k] BY <1>3, <1>7
  <2>2. ~Effecting(call[c], k) BY <1>2, <1>7 DEF Effecting, Redeems
  <2> QED BY <2>1, <2>2, <1>1, <1>5, <1>6, LinkHeld
<1>8. CASE k = j
  <2>1. Effecting(call[c], k)
    BY <1>0, <1>1, <1>2, <1>4, <1>8 DEF Effecting, Redeems
  <2>2. links[k].used /\ redeemed[k] = 0 BY <2>1, <1>5 DEF SpendingAt
  <2>3. redeemed'[k] = 1 BY <2>2, <1>3, <1>8
  <2>4. \A d \in Callers : Redeems(call[d], k) => d = c
    BY <2>1, <1>5 DEF SpendingAt, Effecting
  <2>5. \A d \in Callers : ~Redeems(call'[d], k)
    BY <2>4, <1>0, <1>1, <1>6
  <2> QED BY <2>2, <2>3, <2>5, <1>1 DEF SpendingAt, Redeems, Effecting
<1> QED BY <1>7, <1>8

LEMMA ExpireHeld ==
  ASSUME TypeInv, Spending, NEW j \in DOMAIN links, Expire(j)
  PROVE  Spending'
<1>0. links \in Seq(Link) /\ j \in 1..Len(links) BY DEF TypeInv, LinksOK
<1>1. \A k \in 1..Len(links) : links[k] \in Link BY <1>0, ElementOfSeq
<1>2. [links[j] EXCEPT !.late = TRUE] \in Link BY <1>0, <1>1 DEF Link
<1>3. links' = [links EXCEPT ![j] = [links[j] EXCEPT !.late = TRUE]]
  BY <1>0 DEF Expire
<1>4. /\ Len(links') = Len(links)
      /\ \A k \in 1..Len(links) :
           links'[k] = IF k = j THEN [links[j] EXCEPT !.late = TRUE] ELSE links[k]
  BY <1>0, <1>2, <1>3, ExceptSeq
<1>5. [links[j] EXCEPT !.late = TRUE].used = links[j].used BY <1>0, <1>1 DEF Link
<1>6. \A k \in 1..Len(links) : links'[k].used = links[k].used BY <1>4, <1>5
<1>7. call' = call /\ redeemed' = redeemed /\ env' = env BY DEF Expire, history
<1> SUFFICES ASSUME NEW k \in 1..Len(links) PROVE SpendingAt(k)'
  BY <1>4 DEF Spending
<1>8. SpendingAt(k) /\ links'[k].used = links[k].used BY <1>6 DEF Spending
<1> QED BY <1>7, <1>8 DEF SpendingAt, Redeems, Effecting, Faultless

LEMMA OnceStep == TypeInv /\ OnceInv /\ [Next]_vars => OnceInv'
<1> SUFFICES ASSUME TypeInv, OnceInv, [Next]_vars, Unlike' PROVE Spending'
  BY DEF OnceInv
<1>0. Unlike /\ Spending BY EnvKept DEF Unlike, OnceInv
<1>1. env'.fail = env.fail BY EnvKept
<1>2. ASSUME NEW c \in Callers, Beginning(c) PROVE Spending'
  BY <1>0, <1>1, <1>2, BeginHeld
<1>3. ASSUME NEW c \in Callers, Ongoing(c) PROVE Spending'
  <2>1. CASE Mint(c) BY <2>1, <1>0, MintHeld
  <2>2. CASE FindLink(c) \/ Burn(c) BY <2>2, <1>0, RedeemHeld
  <2>3. CASE SetPassword(c) \/ Verify(c) BY <2>3, <1>0, EffectHeld
  <2>4. CASE \/ Insert(c) \/ WriteRole(c) \/ LookForOthers(c) \/ ClearPassword(c)
             \/ Claim(c) \/ CallAborts(c)
    <3>1. env' = env
      BY <2>4 DEF Insert, WriteRole, LookForOthers, ClearPassword, Claim, CallAborts
    <3> QED BY <2>4, <3>1, <1>0, OthersHeld
  <2> QED BY <1>3, <2>1, <2>2, <2>3, <2>4 DEF Ongoing
<1>4. ASSUME NEW k \in DOMAIN links, Expire(k) PROVE Spending'
  BY <1>0, <1>4, ExpireHeld
<1>5. CASE UNCHANGED vars
  BY <1>5, <1>0 DEF vars, history, Spending, SpendingAt, Faultless
<1>6. CASE Next
  <2>1. \/ \E c \in Callers : Beginning(c) \/ Ongoing(c)
        \/ \E k \in DOMAIN links : Expire(k)
    BY <1>6, Steps
  <2>2. CASE \E c \in Callers : Beginning(c) BY <2>2, <1>2
  <2>3. CASE \E c \in Callers : Ongoing(c) BY <2>3, <1>3
  <2>4. CASE \E k \in DOMAIN links : Expire(k) BY <2>4, <1>4
  <2> QED BY <2>1, <2>2, <2>3, <2>4
<1> QED BY <1>5, <1>6

\* LinkWorksOnce: unless two redemptions of it overlap, a link has its effect
\* once at most, having been burned before; burned without failures, it has had
\* it once nobody is at work.
THEOREM LinkOnce == Spec => []LinkWorksOnce
<1>1. Init => OnceInv
  <2> SUFFICES ASSUME Init PROVE Spending BY DEF OnceInv
  <2> QED BY DEF Init, Spending
<1>2. TypeInv /\ OnceInv => LinkWorksOnce
  <2> SUFFICES ASSUME TypeInv, Spending, Unlike, NEW k \in DOMAIN links
               PROVE  /\ redeemed[k] <= 1
                      /\ redeemed[k] = 1 => links[k].used
                      /\ Faultless /\ Quiet /\ links[k].used => redeemed[k] = 1
    BY DEF LinkWorksOnce, OnceInv
  <2>1. SpendingAt(k) BY DEF TypeInv, LinksOK, Spending
  <2>2. Quiet => \A c \in Callers : ~Effecting(call[c], k)
    BY DEF Quiet, Busy, Effecting, Redeems
  <2> QED BY <2>1, <2>2 DEF SpendingAt
<1> QED BY <1>1, <1>2, Typed, OnceStep, PTL DEF Spec
=============================================================================
