------------------------------- MODULE Personnel -------------------------------
(***************************************************************************)
(* The people who work here: StaffService (staff/staff.service.ts).        *)
(* Archiving somebody ends their account and their sessions, and takes no  *)
(* lock: it reads the person in one statement and writes what follows from *)
(* it in others.  Names, schedules, shifts and fingerprints are left out.  *)
(***************************************************************************)
EXTENDS Access

CONSTANT Document  \* [Persons -> documents], the document of each person

VARIABLE profile   \* [Persons -> Profiles], staff_profiles.status

Profiles == {"absent", "Activo", "Archivado"}

PersonnelInit == profile = [p \in Persons |-> "absent"]

-----------------------------------------------------------------------------
(* staff_profiles_document_unique *)
DocumentIsFree(p) == \A r \in Persons : Document[r] = Document[p] => profile[r] # "Activo"

CreateStaff(q, p) ==
  /\ MayCommand(q) /\ profile[p] = "absent" /\ DocumentIsFree(p)
  /\ profile' = [profile EXCEPT ![p] = "Activo"]
  /\ IsDone(q)
  /\ UNCHANGED <<account, asked, person, token, attempts>>

ReactivateStaff(q, p) ==
  /\ MayCommand(q) /\ profile[p] = "Archivado" /\ DocumentIsFree(p)
  /\ profile' = [profile EXCEPT ![p] = "Activo"]
  /\ IsDone(q)
  /\ UNCHANGED <<account, asked, person, token, attempts>>

(* What archiveStaff reads.  The account may be unlinked from the person
   before it is disabled. *)
ReadForArchive(q, p) ==
  /\ MayCommand(q) /\ profile[p] = "Activo"
  /\ Becomes(q, [phase |-> "archiving", person |-> p, account |-> person[p]])
  /\ UNCHANGED <<account, asked, person, token, attempts, profile>>

ArchiveStaff(q) ==
  LET a == request[q].account IN
  /\ request[q].phase = "archiving"
  /\ profile' = [profile EXCEPT ![request[q].person] = "Archivado"]
  /\ account' = [x \in Accounts |->
       IF x = a THEN [account[x] EXCEPT !.status = "disabled"] ELSE account[x]]
  /\ token' = RevokeSessions(a)
  /\ IsDone(q)
  /\ UNCHANGED <<asked, person, attempts>>

StaffStep ==
  \E q \in Requests :
    \/ ArchiveStaff(q)
    \/ \E p \in Persons : CreateStaff(q, p) \/ ReactivateStaff(q, p) \/ ReadForArchive(q, p)

PersonnelNext == (AccessNext /\ UNCHANGED profile) \/ StaffStep
PersonnelSpec == AccessInit /\ PersonnelInit /\ [][PersonnelNext]_<<accessVars, profile>>
=============================================================================
