------------------------------- MODULE MCDesk -------------------------------
(***************************************************************************)
(* The parts of the service that people work at beside the decisions of    *)
(* the tariff review: the ARR reading track of an order, the petition      *)
(* fills of a case, the members of an organisation, the library and the    *)
(* registration of uploads.  They write different rows, so a behaviour is  *)
(* one of one part and the states TLC explores are the sum of the parts'   *)
(* and not their product.                                                  *)
(***************************************************************************)
EXTENDS ArrTrack, PetitionFill, Organisations, Library, Registration

VARIABLE part

deskVars == <<part, trackVars, petitionVars, orgVars, libraryVars, registrationVars>>

Parts == {"track", "petition", "members", "library", "uploads"}

\* Two requests that share a key, one without a key, one of a key of its own.
SomeRequests ==
    {[key |-> 1, finger |-> 1, bytes |-> "b1"], [key |-> 1, finger |-> 2, bytes |-> "b2"],
     [key |-> 0, finger |-> 1, bytes |-> "b1"], [key |-> 2, finger |-> 1, bytes |-> "b1"]}

DeskInit ==
    /\ part \in Parts
    /\ TrackInit /\ PetitionInit /\ OrgInit /\ LibraryInit /\ RegistrationInit

DeskNext ==
    \/ part = "track" /\ TrackNext
       /\ UNCHANGED <<part, petitionVars, orgVars, libraryVars, registrationVars>>
    \/ part = "petition" /\ PetitionNext
       /\ UNCHANGED <<part, trackVars, orgVars, libraryVars, registrationVars>>
    \/ part = "members" /\ OrgNext
       /\ UNCHANGED <<part, trackVars, petitionVars, libraryVars, registrationVars>>
    \/ part = "library" /\ LibraryNext
       /\ UNCHANGED <<part, trackVars, petitionVars, orgVars, registrationVars>>
    \/ part = "uploads" /\ RegistrationNext
       /\ UNCHANGED <<part, trackVars, petitionVars, orgVars, libraryVars>>

DeskSpec == DeskInit /\ [][DeskNext]_deskVars /\ PetitionFairness

\* Type correctness of the part at work; the others rest as they began.
DeskTypeOK ==
    /\ part = "track" => TrackTypeOK
    /\ part = "petition" => PetitionTypeOK
    /\ part = "members" => OrgTypeOK
    /\ part = "library" => LibraryTypeOK
    /\ part = "uploads" => RegistrationTypeOK
=============================================================================
