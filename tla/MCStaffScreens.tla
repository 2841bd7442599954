--------------------------- MODULE MCStaffScreens ---------------------------
(***************************************************************************)
(* Every screen of StaffScreens, for small bounds: four acts of the        *)
(* operator, or three where the socket or commands in preparation act as   *)
(* well.  Of the screens with a socket the kitchen's has all of them; the  *)
(* others have two: the form of orders has its four without the socket,    *)
(* and of rooms no property says anything.                                 *)
(***************************************************************************)
EXTENDS StaffScreens

Pairs ==
    {<<StayCommand, StayList>>, <<ReservationCreate, ReservationList>>, <<ReservationLifecycle, ReservationList>>,
     <<CleaningCommand, CleaningList>>, <<MaintenanceCommand, MaintenanceList>>, <<RoomCommand, RoomList>>,
     <<CategoryCommand, RoomList>>, <<GuestCommand, GuestList>>, <<ParkingCommand, ParkingList>>,
     <<PetCommand, PetList>>, <<CashCommand, CashList>>, <<KitchenCommand, OrderList>>, <<OrderForm, OrderList>>,
     <<OrderForm, [OrderList EXCEPT !.live = FALSE]>>, <<InventoryCommand, MenuList>>, <<MenuCommand, MenuList>>,
     <<IncidentCommand, IncidentList>>, <<FolioForm, FolioList>>}

MCScreens == {[command |-> p[1], list |-> p[2]] : p \in Pairs}

MCActs ==
    [s \in MCScreens |->
        IF s.list.live /\ s # [command |-> KitchenCommand, list |-> OrderList] THEN 2
        ELSE IF s.list.live \/ s.command.prepares THEN 3 ELSE 4]
=============================================================================
