---------------------------- MODULE MCUtilities ----------------------------
(***************************************************************************)
(* The components that share no state with the pool, the list or the       *)
(* allocators, nor with each other.  Each behaviour is one of one of them, *)
(* the unit chosen in the initial state; the others stay where they start, *)
(* so a run explores the sum of their state spaces and not the product.    *)
(***************************************************************************)
EXTENDS Settings, KDTree, HistoryList, Scheduler, VFuncHook, Aimbot, PatternScan,
        Handles, OffsetPointer, MD5, Players, Vectors, TLC

CONSTANTS p1, p2, p3

VARIABLE unit

(* Values of the constants. *)
FourPoints == {<<1, 1>>, <<1, 2>>, <<2, 1>>, <<3, 2>>}
ThreeLibraries == {"a" :> 0, "a" :> 2, "b" :> 1}
ThreeBases == p1 :> 1 @@ p2 :> 12 @@ p3 :> 23

(* Five of the fourteen arrays of Players, in words of 4 bytes: two of     *)
(* three floats, one of HitboxLists, which are aligned for vector          *)
(* instructions, one of ints and one of names.                             *)
ArraySizes == <<3, 3, 16, 1, 8>>
ArrayAligns == <<1, 1, 8, 1, 1>>
ArrayExtras == <<1, 1, 8, 2, 2>>

Indexed(seq) == [n \in 0 .. Len(seq) - 1 |-> seq[n + 1]]
Rows(r) == Indexed([k \in DOMAIN r |-> Indexed(r[k])])
Signs == {-1, 1}
TwoDirections == {Indexed(<<1, 0, 1>>), Indexed(<<-1, 1, 0>>)}

(* A rotation, a mirrored one and a shear, with a translation each.        *)
ThreeMatrices == {Rows(<<<<0, -1, 0, 1>>, <<1, 0, 0, 0>>, <<0, 0, 1, -1>>>>),
                  Rows(<<<<0, 0, 1, 0>>, <<0, 1, 0, 1>>, <<1, 0, 0, 0>>>>),
                  Rows(<<<<1, 1, 0, 0>>, <<0, 1, 0, -1>>, <<0, 0, 1, 1>>>>)}

Units == {"settings", "kd_tree", "history", "scheduler", "vfhook", "aimbot", "scan",
          "handles", "allocwraps", "md5", "players", "vectors"}

Init ==
    /\ unit \in Units
    /\ SettingsInit /\ TreeInit /\ HistoryInit /\ SchedInit /\ HookInit /\ AimInit
    /\ ParseInit /\ HandlesInit /\ PointerInit /\ Md5Init /\ PlayersInit /\ VectorsInit

Next ==
    /\ UNCHANGED unit
    /\ IF unit = "settings" THEN SettingsNext ELSE UNCHANGED settingsVars
    /\ IF unit = "kd_tree" THEN TreeNext ELSE UNCHANGED treeVars
    /\ IF unit = "history" THEN HistoryNext ELSE UNCHANGED historyVars
    /\ IF unit = "scheduler" THEN SchedNext ELSE UNCHANGED schedVars
    /\ IF unit = "vfhook" THEN HookNext ELSE UNCHANGED hookVars
    /\ IF unit = "aimbot" THEN AimNext ELSE UNCHANGED aimVars
    /\ IF unit = "scan" THEN ParseNext ELSE UNCHANGED scanVars
    /\ IF unit = "handles" THEN HandlesNext ELSE UNCHANGED handleVars
    /\ IF unit = "allocwraps" THEN PointerNext ELSE UNCHANGED pointerVars
    /\ IF unit = "md5" THEN Md5Next ELSE UNCHANGED md5Vars
    /\ IF unit = "players" THEN PlayersNext ELSE UNCHANGED playersVars
    /\ IF unit = "vectors" THEN VectorsNext ELSE UNCHANGED vectorVars

vars == <<unit, settingsVars, treeVars, historyVars, schedVars, hookVars, aimVars,
          scanVars, handleVars, pointerVars, md5Vars, playersVars, vectorVars>>

Spec == Init /\ [][Next]_vars /\ AimFairness

TypesOK ==
    /\ unit = "settings" => SettingsTypeOK
    /\ unit = "kd_tree" => TreeTypeOK
    /\ unit = "history" => HistoryTypeOK
    /\ unit = "scheduler" => SchedTypeOK
    /\ unit = "vfhook" => HookTypeOK
    /\ unit = "aimbot" => AimTypeOK
    /\ unit = "scan" => ParseTypeOK
    /\ unit = "handles" => HandlesTypeOK
    /\ unit = "allocwraps" => PointerTypeOK
    /\ unit = "md5" => Md5TypeOK
    /\ unit = "players" => PlayersTypeOK
    /\ unit = "vectors" => VectorsTypeOK
=============================================================================
