---------------------------- MODULE DurableCell ----------------------------
(***************************************************************************)
(* What a preference promises its user: a value in memory that is set as a *)
(* whole, and a copy on disk that is always one of the values memory has   *)
(* held as a whole.  The copy is taken at one instant (Take) and stored    *)
(* later, so it may lag; a power cut loses what was not stored.            *)
(***************************************************************************)
CONSTANTS Contents, Default, Nothing

VARIABLES mem, disk, shot

cellVars == <<mem, disk, shot>>

CellInit == mem = Default /\ disk = Nothing /\ shot = Nothing

Set   == mem' \in Contents /\ UNCHANGED <<disk, shot>>

Take  == shot = Nothing /\ shot' = mem /\ UNCHANGED <<mem, disk>>

\* The store may have to be repeated, from the same copy.
Store == shot # Nothing /\ disk' = shot /\ shot' \in {shot, Nothing} /\ UNCHANGED mem

PowerCut ==
  /\ mem' = IF disk = Nothing THEN Default ELSE disk
  /\ shot' = Nothing
  /\ UNCHANGED disk

CellNext == Set \/ Take \/ Store \/ PowerCut

CellSpec == CellInit /\ [][CellNext]_cellVars
=============================================================================
