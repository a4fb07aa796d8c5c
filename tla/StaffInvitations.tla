---------------------------- MODULE StaffInvitations ----------------------------
(***************************************************************************)
(* The staff of one professional event: staff-invitations.service.ts, the  *)
(* event_staff and staff_invitations tables, the invitations' entries in   *)
(* notifications, and the clean-up of tickets.service.ts, which the nightly *)
(* job and getStaffEvents call.  The inviter is always the organizer and a *)
(* caller always the invited person: everybody else is refused, and changes *)
(* nothing.                                                                *)
(***************************************************************************)
EXTENDS Rows

CONSTANTS
  Members,      (* people with an account who may be invited               *)
  Invitations,  (* the staff_invitations.id that may be drawn: a bound     *)
  Desks         (* invitation and gate handlers in flight at a time        *)

VARIABLES
  invitation,   (* staff_invitations; a row that is deleted is "DELETED"   *)
  staff,        (* event_staff: unique per (event, user)                   *)
  invited,      (* the invitations that have a STAFF_INVITATION notice     *)
  phase,        (* "before" until an hour before the start, "open", "ended" *)
  swept,        (* getStaffEvents has cleaned up less than a minute ago    *)
  cleanup,      (* the clean-up in flight: none, or before its deleteMany  *)
  desk          (* what each handler in flight will do next                *)

staffTables == <<invitation, staff, invited>>
staffVars == <<staffTables, phase, swept, cleanup, desk>>

InvitationRow == [member : Members, lapsed : BOOLEAN,
                  status : {"PENDING", "ACCEPTED", "DECLINED", "EXPIRED", "DELETED"}]

StaffDesk ==
  {Idle}
    \cup [step : {"inviteFind", "inviteWrite"}, member : Members]
    \cup [step : {"inviteNotify", "expire", "acceptStaff", "acceptWrite",
                  "declineWrite", "cancelWrite", "unnotify"}, invitation : Invitations]

StaffInit ==
  /\ invitation = NoRows
  /\ staff = {}
  /\ invited = {}
  /\ phase = "before"
  /\ swept = FALSE
  /\ cleanup = "none"
  /\ desk = [k \in Desks |-> Idle]

AtDesk(k, state) == desk' = [desk EXCEPT ![k] = state]

Exists(i) == invitation[i].status # "DELETED"

SetInvitation(i, status) == invitation' = [invitation EXCEPT ![i].status = status]

(* Bound: nobody is invited once the ids are used up. *)
InvitationsLeft == Cardinality(Invitations \ DOMAIN invitation)
                     > Cardinality({k \in Desks : desk[k].step = "inviteWrite"})
-------------------------------------------------------------------------------
(* doCreateInvitation: two tests, then two commits *)

Invite(k, m) ==
  /\ desk[k] = Idle
  /\ m \notin staff
  /\ AtDesk(k, [step |-> "inviteFind", member |-> m])
  /\ UNCHANGED <<staffTables, phase, swept, cleanup>>

InviteFind(k) ==
  LET open == {i \in DOMAIN invitation : /\ invitation[i].member = desk[k].member
                                         /\ invitation[i].status = "PENDING"
                                         /\ ~invitation[i].lapsed}
  IN  /\ desk[k].step = "inviteFind"
      /\ AtDesk(k, IF open = {} /\ InvitationsLeft
                   THEN [step |-> "inviteWrite", member |-> desk[k].member] ELSE Idle)
      /\ UNCHANGED <<staffTables, phase, swept, cleanup>>

InviteWrite(k) ==
  /\ desk[k].step = "inviteWrite"
  /\ \E i \in Invitations \ DOMAIN invitation :
       /\ invitation' = Put(invitation, i, [member |-> desk[k].member, lapsed |-> FALSE,
                                            status |-> "PENDING"])
       /\ AtDesk(k, [step |-> "inviteNotify", invitation |-> i])
  /\ UNCHANGED <<staff, invited, phase, swept, cleanup>>

InviteNotify(k) ==
  /\ desk[k].step = "inviteNotify"
  /\ invited' = invited \cup {desk[k].invitation}
  /\ AtDesk(k, Idle)
  /\ UNCHANGED <<invitation, staff, phase, swept, cleanup>>
-------------------------------------------------------------------------------
(* getInvitationByToken, then what it was read for: nothing more for GET,  *)
(* the first query of acceptInvitation, or the write of declineInvitation  *)

ReadInvitation(k, i) ==
  /\ desk[k] = Idle
  /\ invitation[i].status = "PENDING"
  /\ IF invitation[i].lapsed
     THEN AtDesk(k, [step |-> "expire", invitation |-> i])
     ELSE \E next \in {"acceptStaff", "declineWrite"} :
            AtDesk(k, [step |-> next, invitation |-> i])
  /\ UNCHANGED <<staffTables, phase, swept, cleanup>>

(* Prisma's update by id: a row that is gone makes the handler fail. *)
StatusWrite(k, i, status, next) ==
  IF Exists(i) THEN SetInvitation(i, status) /\ AtDesk(k, next)
               ELSE AtDesk(k, Idle) /\ UNCHANGED invitation

ExpireWrite(k) ==
  /\ desk[k].step = "expire"
  /\ StatusWrite(k, desk[k].invitation, "EXPIRED", Idle)
  /\ UNCHANGED <<staff, invited, phase, swept, cleanup>>

AcceptStaff(k) ==
  LET i == desk[k].invitation
  IN  /\ desk[k].step = "acceptStaff"
      /\ AtDesk(k, IF invitation[i].member \in staff THEN Idle
                   ELSE [step |-> "acceptWrite", invitation |-> i])
      /\ UNCHANGED <<staffTables, phase, swept, cleanup>>

(* Mutant: the two writes are not in one transaction, and the row of        *)
(* event_staff fails to be made.                                            *)
AcceptInTwo(k) ==
  LET i == desk[k].invitation
  IN  /\ desk[k].step = "acceptWrite"
      /\ StatusWrite(k, i, "ACCEPTED", [step |-> "unnotify", invitation |-> i])
      /\ UNCHANGED <<staff, invited, phase, swept, cleanup>>

(* One transaction: an assignment that exists, or an invitation that does   *)
(* not, rolls both writes back.                                             *)
AcceptWrite(k) ==
  LET i == desk[k].invitation
      m == invitation[i].member
  IN  /\ desk[k].step = "acceptWrite"
      /\ IF m \notin staff /\ Exists(i)
         THEN /\ staff' = staff \cup {m}
              /\ SetInvitation(i, "ACCEPTED")
              /\ AtDesk(k, [step |-> "unnotify", invitation |-> i])
         ELSE AtDesk(k, Idle) /\ UNCHANGED <<staff, invitation>>
      /\ UNCHANGED <<invited, phase, swept, cleanup>>

DeclineWrite(k) ==
  LET i == desk[k].invitation
  IN  /\ desk[k].step = "declineWrite"
      /\ StatusWrite(k, i, "DECLINED", [step |-> "unnotify", invitation |-> i])
      /\ UNCHANGED <<staff, invited, phase, swept, cleanup>>

CancelInvitation(k, i) ==
  /\ desk[k] = Idle
  /\ invitation[i].status = "PENDING"
  /\ AtDesk(k, [step |-> "cancelWrite", invitation |-> i])
  /\ UNCHANGED <<staffTables, phase, swept, cleanup>>

CancelInvitationWrite(k) ==
  LET i == desk[k].invitation
  IN  /\ desk[k].step = "cancelWrite"
      /\ StatusWrite(k, i, "DELETED", [step |-> "unnotify", invitation |-> i])
      /\ UNCHANGED <<staff, invited, phase, swept, cleanup>>

(* deleteByTypeAndRelatedId, after the commit. *)
Unnotify(k) ==
  /\ desk[k].step = "unnotify"
  /\ invited' = invited \ {desk[k].invitation}
  /\ AtDesk(k, Idle)
  /\ UNCHANGED <<invitation, staff, phase, swept, cleanup>>
-------------------------------------------------------------------------------
(* removeStaffForEndedEvents: find the ended events, then delete *)

(* The nightly job. *)
CleanupJob ==
  /\ cleanup = "none"
  /\ phase = "ended"
  /\ cleanup' = "job"
  /\ UNCHANGED <<staffTables, phase, swept, desk>>

(* getStaffEvents, which cleans up at most once a minute. *)
ListStaffEvents ==
  /\ cleanup = "none"
  /\ ~swept
  /\ IF phase = "ended" THEN cleanup' = "list" /\ UNCHANGED swept
                        ELSE swept' = TRUE /\ UNCHANGED cleanup
  /\ UNCHANGED <<staffTables, phase, desk>>

(* Mutant: only those leave who hold an accepted invitation. *)
CleanupAcceptedOnly ==
  /\ cleanup # "none"
  /\ staff' = staff \ {invitation[i].member :
                         i \in {j \in DOMAIN invitation : invitation[j].status = "ACCEPTED"}}
  /\ swept' = (swept \/ cleanup = "list")
  /\ cleanup' = "none"
  /\ UNCHANGED <<invitation, invited, phase, desk>>

CleanupDelete ==
  /\ cleanup # "none"
  /\ staff' = {}
  /\ swept' = (swept \/ cleanup = "list")
  /\ cleanup' = "none"
  /\ UNCHANGED <<invitation, invited, phase, desk>>

MinutePasses ==
  /\ swept
  /\ swept' = FALSE
  /\ UNCHANGED <<staffTables, phase, cleanup, desk>>
-------------------------------------------------------------------------------
(* Seven days pass. *)
Lapse(i) ==
  /\ ~invitation[i].lapsed
  /\ invitation' = [invitation EXCEPT ![i].lapsed = TRUE]
  /\ UNCHANGED <<staff, invited, phase, swept, cleanup, desk>>

(* The hour before the start begins; the event ends. *)
ClockAdvances ==
  /\ phase # "ended"
  /\ phase' = IF phase = "before" THEN "open" ELSE "ended"
  /\ UNCHANGED <<staffTables, swept, cleanup, desk>>

(* The process restarts: its handlers, and what it remembers, are gone. *)
StaffRestart ==
  /\ \/ swept \/ cleanup # "none"
     \/ \E k \in Desks : desk[k] # Idle
  /\ swept' = FALSE
  /\ cleanup' = "none"
  /\ desk' = [k \in Desks |-> Idle]
  /\ UNCHANGED <<staffTables, phase>>

InvitationStep(k) ==
  \/ \E m \in Members : Invite(k, m)
  \/ InviteFind(k) \/ InviteWrite(k) \/ InviteNotify(k)
  \/ \E i \in DOMAIN invitation : ReadInvitation(k, i) \/ CancelInvitation(k, i)
  \/ ExpireWrite(k) \/ AcceptStaff(k) \/ AcceptWrite(k) \/ DeclineWrite(k)
  \/ CancelInvitationWrite(k) \/ Unnotify(k)

StaffNext ==
  \/ \E k \in Desks : InvitationStep(k)
  \/ CleanupJob \/ ListStaffEvents \/ CleanupDelete \/ MinutePasses
  \/ \E i \in DOMAIN invitation : Lapse(i)
  \/ ClockAdvances
  \/ StaffRestart

(* Cron starts the clean-up every night, so also after one that a restart  *)
(* has cut off.                                                            *)
StaffFairness == WF_staffVars(CleanupJob) /\ SF_staffVars(CleanupDelete)

StaffSpec == StaffInit /\ [][StaffNext]_staffVars
StaffFairSpec == StaffSpec /\ StaffFairness
-------------------------------------------------------------------------------
(* Properties *)

(* Every variable has its type: the one type invariant of this module. *)
StaffTypeOK ==
  /\ DOMAIN invitation \subseteq Invitations
  /\ invitation \in [DOMAIN invitation -> InvitationRow]
  /\ staff \subseteq Members
  /\ invited \subseteq DOMAIN invitation
  /\ phase \in {"before", "open", "ended"}
  /\ swept \in BOOLEAN
  /\ cleanup \in {"none", "job", "list"}
  /\ desk \in [Desks -> StaffDesk]

(* An invitation is ACCEPTED only with the assignment it was accepted for, *)
(* until the event ends, whatever answers, cancellations and expiries      *)
(* overlap: what the transaction of acceptInvitation is for.               *)
AcceptedIsStaff ==
  phase # "ended" =>
    \A i \in DOMAIN invitation :
      invitation[i].status = "ACCEPTED" => invitation[i].member \in staff

(* Said by docs/Manuel_Utilisation.md: the staff status is taken back after *)
(* the event by a scheduled task.  Also from those who accept after it.     *)
StaffRightsEnd ==
  \A m \in Members : phase = "ended" /\ m \in staff ~> m \notin staff
===============================================================================
