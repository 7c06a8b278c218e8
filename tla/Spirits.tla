------------------------------ MODULE Spirits ------------------------------
(***************************************************************************)
(* Spirit points of work/offline/progression_handlers.py: a pool of points, *)
(* spent line by line on specialisms.  A save may hold several lines of one *)
(* specialism and lines without points.                                     *)
(***************************************************************************)
EXTENDS Inventory

(* _normalize_spirit, which every request does first.                       *)
Normal(spirit) ==
  [spirit EXCEPT !.specialism = Only(@, [id : Int, num : Nat \ {0}])]

Allocated(spirit) ==
  SumFunction(Nums(spirit.specialism))

Points(lines) ==
  SumFunctionOnSet(Nums(lines), {i \in DOMAIN lines : lines[i].num > 0})

(* Slip: every line is held against the pool on its own.                    *)
AffordsEach(spirit, lines) ==
  /\ Points(lines) > 0
  /\ \A i \in DOMAIN lines : lines[i].num <= Max({0, spirit.points - Allocated(spirit)})

(* _put_spirit_points: all of a request or none of it.                      *)
Affords(spirit, lines) ==
  Points(lines) > 0 /\ Points(lines) <= Max({0, spirit.points - Allocated(spirit)})

(* by_cid keeps the last of several lines of one specialism.                *)
AddPoints(rows, l) ==
  LET I == {i \in DOMAIN rows : rows[i].id = l.id}
  IN IF l.num <= 0 THEN rows
     ELSE IF I = {} THEN Append(rows, l)
     ELSE [rows EXCEPT ![Max(I)].num = @ + l.num]

PointsAdded(rows, lines) == FoldLeft(AddPoints, rows, lines)

PointsPut(spirit, lines) ==
  LET n == Normal(spirit)
  IN IF Affords(n, lines) THEN [n EXCEPT !.specialism = PointsAdded(@, lines)] ELSE n

(* _show_new_spirit: the new-spirit marks of the account and of its heroes  *)
(* are cleared.                                                             *)
Shown(s) ==
  [s EXCEPT !.spirit = [Normal(@) EXCEPT !.firstShow = FALSE],
            !.heroes = [i \in DOMAIN @ |-> [@[i] EXCEPT !.firstShow = FALSE]]]
=============================================================================
