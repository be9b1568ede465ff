---------------------------- MODULE StaffAccounts ----------------------------
(***************************************************************************)
(* Who can sign in at one agency: its staff and its residents, and the     *)
(* mailed links that set a password or prove an address                    *)
(* (services/accountService.ts, auth/tokens.ts; a resident's row may also  *)
(* come from a filing, services/requestService.ts).                        *)
(*                                                                         *)
(* A call reads, decides, and writes by id with no condition; a second     *)
(* row with an email that has one is refused by the database.  One action  *)
(* is one awaited write, or the reads before it.                           *)
(*                                                                         *)
(* Left out: admin events, letters, password rules and hashes, sessions,   *)
(* platform agencies, and links opened with another kind or at another     *)
(* agency, which are refused and stay good.                                *)
(***************************************************************************)
EXTENDS Naturals, Sequences

CONSTANTS
  Callers,      \* calls that may be under way at a time
  Staff,        \* emails of staff
  Residents,    \* emails of residents, as they may be spelled
  Lower,        \* normalizeEmail: each of them trimmed and in lower case
  Roles,        \* the staff roles
  Environments  \* the circumstances a behaviour may start in: one per behaviour

\* How many calls are still to come (a bound); which may be under way at a
\* time: one, any two that are not alike, or any; whether they fail.
Environment == [calls : Nat, overlap : {"none", "unlike", "any"}, fail : BOOLEAN]

ASSUME AccountsAssumption ==
  /\ "admin" \in Roles
  /\ Roles \cap {"none", "resident"} = {}
  /\ Staff \cap Residents = {}
  /\ Lower \in [Residents -> Residents]
  /\ Environments \subseteq Environment

VARIABLES
  account,   \* the users and requesters rows, by email
  links,     \* the auth_tokens rows
  redeemed,  \* history: how often each link had its effect
  filed,     \* history: the residents whose row came from a filing
  proven,    \* history: the residents who opened a link mailed to verify
  call,      \* per caller: the call under way
  env        \* the circumstances, and what they still allow

history == <<redeemed, filed, proven>>
vars    == <<account, links, history, call, env>>

People == Staff \cup Residents

\* No row; or a role, a password or none, and an email that counts as verified.
Account == [role : Roles \cup {"none", "resident"},
            password : BOOLEAN, verified : BOOLEAN]
NoAccount == [role |-> "none", password |-> FALSE, verified |-> FALSE]

Link == [kind : {"invite", "reset", "verify"}, who : People,
         used : BOOLEAN, late : BOOLEAN]

\* What a call will write next: a row, a role, no password, a password, ...;
\* or the reading of the other users, when it has read the one it is about.
Call == [op : {"none", "add", "role", "revoke", "reset", "mint", "redeem",
               "file", "register"},
         pc : {"idle", "insert", "role", "others", "revoke", "password", "claim",
               "mint", "find", "burn", "verify"},
         who : People \cup {"none"}, row : Account,
         kind : {"invite", "reset", "verify"}, link : Nat]
Idle == [op |-> "none", pc |-> "idle", who |-> "none", row |-> NoAccount,
         kind |-> "reset", link |-> 0]

\* provisionAgency: an agency with its first admin.
Init ==
  /\ \E a \in Staff :
       account = [p \in People |->
         IF p = a THEN [NoAccount EXCEPT !.role = "admin", !.password = TRUE]
                  ELSE NoAccount]
  /\ links = <<>>
  /\ redeemed = <<>>
  /\ filed = {}
  /\ proven = {}
  /\ call = [c \in Callers |-> Idle]
  /\ env \in Environments

-----------------------------------------------------------------------------
Exists(p)    == account[p].role # "none"
CanSignIn(p) == Exists(p) /\ account[p].password
Admin(p)     == account[p].role = "admin"

Busy(c) == call[c].pc # "idle"
Quiet   == \A c \in Callers : ~Busy(c)

GoTo(c, pc) == call' = [call EXCEPT ![c].pc = pc]
Finish(c)   == call' = [call EXCEPT ![c] = Idle]

\* Calls are alike if both may take an admin away, or both redeem one link.
Removal(frame) == frame.op \in {"role", "revoke"}
Alike(f, g) == \/ Removal(f) /\ Removal(g)
               \/ f.op = "redeem" /\ g.op = "redeem" /\ f.link = g.link

Begin(c, frame) ==
  /\ ~Busy(c)
  /\ env.calls > 0
  /\ CASE env.overlap = "none"   -> Quiet
       [] env.overlap = "unlike" -> \A d \in Callers : ~Alike(frame, call[d])
       [] OTHER -> TRUE
  /\ call' = [call EXCEPT ![c] = frame]
  /\ env' = [env EXCEPT !.calls = @ - 1]

About(op, pc, p) == [Idle EXCEPT !.op = op, !.pc = pc, !.who = p]

-----------------------------------------------------------------------------
(* Staff.                                                                  *)

\* createStaffUser with a password, inviteStaffUser without one, by an admin
\* or from the platform console.
AddStaff(c, p, role, password) ==
  /\ ~Exists(p)
  /\ Begin(c, [About("add", "insert", p) EXCEPT
                 !.kind = "invite",
                 !.row = [NoAccount EXCEPT !.role = role, !.password = password]])
  /\ UNCHANGED <<account, links, history>>

\* createUser or createRequester; the email is unique.  An invitation and a
\* claim then mint a link.
Insert(c) ==
  LET frame == call[c]
  IN  /\ frame.pc = "insert"
      /\ IF Exists(frame.who)
         THEN Finish(c) /\ UNCHANGED <<account, filed>>
         ELSE /\ account' = [account EXCEPT ![frame.who] = frame.row]
              /\ filed' = IF frame.op = "file" THEN filed \cup {frame.who} ELSE filed
              /\ IF frame.op = "add" /\ ~frame.row.password
                 THEN GoTo(c, "mint") ELSE Finish(c)
      /\ UNCHANGED <<links, redeemed, proven, env>>

\* changeStaffRole: by an admin who can sign in, who stays one.
ChangeRole(c, a, p, role) ==
  /\ Admin(a) /\ CanSignIn(a)
  /\ a = p => role = "admin"
  /\ Exists(p)
  /\ Begin(c, [About("role", "role", p) EXCEPT !.row.role = role])
  /\ UNCHANGED <<account, links, history>>

WriteRole(c) ==
  /\ call[c].pc = "role"
  /\ account' = [account EXCEPT ![call[c].who].role = call[c].row.role]
  /\ Finish(c)
  /\ UNCHANGED <<links, history, env>>

\* revokeStaffSignIn reads the user, of an admin also the others,
Revoke(c, p) ==
  /\ CanSignIn(p)
  /\ Begin(c, About("revoke", IF Admin(p) THEN "others" ELSE "revoke", p))
  /\ UNCHANGED <<account, links, history>>

\* Mutant of Replaceable: admins who cannot sign in count.
ReplaceableByAny(p) == \E q \in Staff \ {p} : Admin(q)
Replaceable(p) == \E q \in Staff \ {p} : Admin(q) /\ CanSignIn(q)

\* refuses if there is no other admin who can sign in,
LookForOthers(c) ==
  /\ call[c].pc = "others"
  /\ IF Replaceable(call[c].who) THEN GoTo(c, "revoke") ELSE Finish(c)
  /\ UNCHANGED <<account, links, history, env>>

\* and clears the password.
ClearPassword(c) ==
  /\ call[c].pc = "revoke"
  /\ account' = [account EXCEPT ![call[c].who].password = FALSE]
  /\ Finish(c)
  /\ UNCHANGED <<links, history, env>>

\* resetStaffPassword, by the platform operator.
ResetByOperator(c, p) ==
  /\ Exists(p)
  /\ Begin(c, About("reset", "password", p))
  /\ UNCHANGED <<account, links, history>>

\* resendStaffInvite: to somebody without a password.
ResendInvite(c, p) ==
  /\ Exists(p) /\ ~account[p].password
  /\ Begin(c, [About("mint", "mint", p) EXCEPT !.kind = "invite"])
  /\ UNCHANGED <<account, links, history>>

-----------------------------------------------------------------------------
(* Links.                                                                  *)

\* requestPasswordReset: any row, with or without a password.
RequestReset(c, p) ==
  /\ Exists(p)
  /\ Begin(c, [About("mint", "mint", p) EXCEPT !.kind = "reset"])
  /\ UNCHANGED <<account, links, history>>

\* mintToken.
Mint(c) ==
  /\ call[c].pc = "mint"
  /\ links' = Append(links, [kind |-> call[c].kind, who |-> call[c].who,
                             used |-> FALSE, late |-> FALSE])
  /\ redeemed' = Append(redeemed, 0)
  /\ Finish(c)
  /\ UNCHANGED <<account, filed, proven, env>>

\* A link expires, unless it was used, after which it makes no difference.
Expire(k) ==
  /\ ~links[k].late /\ ~links[k].used
  /\ links' = [links EXCEPT ![k].late = TRUE]
  /\ UNCHANGED <<account, history, call, env>>

\* Mutant of Good: a link that was used is good until it expires.
GoodTwice(k) == ~links[k].late
Good(k) == ~links[k].used /\ ~links[k].late

\* completePasswordReset, verifyRequesterEmail: consumeToken finds the link,
Open(c, k) ==
  /\ Begin(c, [About("redeem", "find", links[k].who) EXCEPT
                 !.kind = links[k].kind, !.link = k])
  /\ UNCHANGED <<account, links, history>>

FindLink(c) ==
  /\ call[c].pc = "find"
  /\ IF Good(call[c].link) THEN GoTo(c, "burn") ELSE Finish(c)
  /\ UNCHANGED <<account, links, history, env>>

\* marks it used, as markAuthTokenUsed does whatever its state is by now,
Burn(c) ==
  /\ call[c].pc = "burn"
  /\ links' = [links EXCEPT ![call[c].link].used = TRUE]
  /\ GoTo(c, IF call[c].kind = "verify" THEN "verify" ELSE "password")
  /\ UNCHANGED <<account, history, env>>

\* and then it has its effect, once more.
Counted(c) ==
  redeemed' = [k \in DOMAIN redeemed |->
                 IF k = call[c].link THEN redeemed[k] + 1 ELSE redeemed[k]]

SetPassword(c) ==
  /\ call[c].pc = "password"
  /\ account' = [account EXCEPT ![call[c].who].password = TRUE]
  /\ Counted(c)
  /\ Finish(c)
  /\ UNCHANGED <<links, filed, proven, env>>

Verify(c) ==
  /\ call[c].pc = "verify"
  /\ account' = [account EXCEPT ![call[c].who].verified = TRUE]
  /\ proven' = proven \cup {call[c].who}
  /\ Counted(c)
  /\ Finish(c)
  /\ UNCHANGED <<links, filed, env>>

-----------------------------------------------------------------------------
(* Residents.                                                              *)

\* submitRequest keeps the email as it was typed, and makes a row for it.
File(c, p) ==
  /\ ~Exists(p)
  /\ Begin(c, [About("file", "insert", p) EXCEPT !.row.role = "resident"])
  /\ UNCHANGED <<account, links, history>>

\* registerRequester looks the email up in lower case.  A row that is there
\* without a password is claimed; a new one has nothing to prove.
Register(c, p) ==
  LET e == Lower[p]
      row == [role |-> "resident", password |-> TRUE, verified |-> TRUE]
  IN  /\ ~account[e].password
      /\ Begin(c, [About("register", IF Exists(e) THEN "claim" ELSE "insert", e)
                     EXCEPT !.kind = "verify", !.row = row])
      /\ UNCHANGED <<account, links, history>>

\* Mutant of Claimed: the claimed row counts as verified, as a new one does.
ClaimedVerified(row) == [row EXCEPT !.password = TRUE, !.verified = TRUE]
Claimed(row) == [row EXCEPT !.password = TRUE, !.verified = FALSE]

\* updateRequester, and then the link that will verify the email.
Claim(c) ==
  /\ call[c].pc = "claim"
  /\ account' = [account EXCEPT ![call[c].who] = Claimed(@)]
  /\ GoTo(c, "mint")
  /\ UNCHANGED <<links, history, env>>

\* A write throws, or the process dies: the call ends between two writes.
CallAborts(c) ==
  /\ env.fail
  /\ Busy(c)
  /\ Finish(c)
  /\ UNCHANGED <<account, links, history, env>>

-----------------------------------------------------------------------------
Managing(c) ==
  \/ \E p \in Staff :
       \/ \E role \in Roles :
            \/ \E password \in BOOLEAN : AddStaff(c, p, role, password)
            \/ \E a \in Staff : ChangeRole(c, a, p, role)
       \/ Revoke(c, p) \/ ResetByOperator(c, p) \/ ResendInvite(c, p)
  \/ Insert(c) \/ WriteRole(c) \/ LookForOthers(c) \/ ClearPassword(c)

Linking(c) ==
  \/ \E p \in Staff : RequestReset(c, p)
  \/ \E p \in Residents : RequestReset(c, Lower[p])
  \/ \E k \in DOMAIN links : Open(c, k)
  \/ Mint(c) \/ FindLink(c) \/ Burn(c) \/ SetPassword(c) \/ Verify(c)

Residing(c) ==
  \/ \E p \in Residents : File(c, p) \/ Register(c, p)
  \/ Claim(c)

Next == \/ \E c \in Callers : \/ Managing(c) \/ Linking(c) \/ Residing(c)
                              \/ CallAborts(c)
        \/ \E k \in DOMAIN links : Expire(k)

Spec == Init /\ [][Next]_vars

-----------------------------------------------------------------------------
(* What the code promises.                                                 *)

TypeOK ==
  /\ account \in [People -> Account]
  /\ links \in Seq(Link)
  /\ redeemed \in Seq(Nat)
  /\ filed \in SUBSET Residents
  /\ proven \in SUBSET Residents
  /\ call \in [Callers -> Call]
  /\ env \in Environment

\* However calls interleave and fail: a resident whose row came from a filing,
\* by whomever, sees what was filed only after opening a link mailed to that
\* address, also when a filing and a registration of it cross.
HistoryNeedsProof ==
  \A p \in filed : account[p].verified => p \in proven

\* What follows needs that calls which are alike do not overlap.
Unlike    == env.overlap # "any"
Faultless == ~env.fail

\* An agency is never left without an admin who can sign in, through any
\* roles changed, sign-ins revoked, invitations and resets, failures included.
SomeAdminCanSignIn == Unlike => \E p \in Staff : Admin(p) /\ CanSignIn(p)

\* A link works once: it has its effect once at most, having been burned
\* before; without failures a burned link has had it.
LinkWorksOnce ==
  Unlike => \A k \in DOMAIN links :
              /\ redeemed[k] <= 1
              /\ redeemed[k] = 1 => links[k].used
              /\ Faultless /\ Quiet /\ links[k].used => redeemed[k] = 1
=============================================================================
