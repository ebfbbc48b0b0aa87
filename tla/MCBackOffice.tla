----------------------------- MODULE MCBackOffice -----------------------------
(* BackOffice on a small instance: a tenant with two firms, the second one *)
(* without a branch, a guest, a room, a room type and a seasonal rate, and *)
(* a tenant with nothing.                                                  *)
EXTENDS BackOffice, TLC

CONSTANTS s1, s2, q1, q2, q3, t1, t2

At(ids, i, row) == [j \in ids |-> IF j = i THEN row ELSE NULL]

MCDatabase ==
  [firms |-> [At(Id, s1, [tenant |-> t1, created |-> 0, cols |-> [name |-> 1, city |-> 1]])
              EXCEPT ![s2] = [tenant |-> t1, created |-> 1,
                              cols |-> [name |-> 2, city |-> NULL]]],
   branches |-> At(Id, s1, [firm |-> s1]),
   hotels |-> At(Id, s1, [tenant |-> t1, cols |-> [name |-> 1, city |-> 1]]),
   guests |-> At(Id, s1, [tenant |-> t1, firm |-> s1, branch |-> s1, files |-> {<<s1, 1>>},
                          cols |-> [name |-> 1, note |-> 1, flag |-> 1]]),
   rooms |-> At(Id \X Number, <<s1, 1>>,
                [tenant |-> t1, firm |-> s1, branch |-> s1,
                 cols |-> [name |-> 1, note |-> NULL, flag |-> 1]]),
   types |-> At(Id, s1, [tenant |-> t1, firm |-> s1, branch |-> s1, files |-> NULL,
                         cols |-> [name |-> 1, hourly |-> 333, daily |-> 1001]]),
   seasons |-> At(Id, s1, [tenant |-> t1, firm |-> s1, branch |-> s1, type |-> s1,
                           from |-> 0, to |-> 2880, factor |-> 15, created |-> 0]),
   rules |-> At(Id, s1, [tenant |-> t1, firm |-> s1, branch |-> s1, type |-> s1,
                         from |-> 0, to |-> 60, factor |-> 13, days |-> {1, 2},
                         created |-> 0])]

Token(f, b) == [tenant |-> t1, firm |-> f, branch |-> b]
Full == Token(s1, s1)
None == Token(NULL, NULL)
New  == [tenant |-> t2, firm |-> NULL, branch |-> NULL]

(* A body that names the columns of `some` and leaves the others out.      *)
Some(t, some) == [c \in Columns[t] |-> IF c \in DOMAIN some THEN some[c] ELSE NULL]
One(t, c, v) == Some(t, [x \in {c} |-> v])

FirmCalls ==
  {[op |-> "createFirm", as |-> a, set |-> One("firms", c, 1)] : a \in {None, New}, c \in {"name", "city"}}
  \cup {[op |-> "updateFirm", as |-> a, id |-> i, set |-> One("firms", c, 3)] :
          a \in {None}, i \in {s1, s2}, c \in {"name", "city"}}
  \cup {[op |-> "updateFirm", as |-> New, id |-> s1, set |-> One("firms", "name", 3)]}
  \cup {[op |-> "createHotel", as |-> None, set |-> [name |-> 1, city |-> 0]],
        [op |-> "updateHotel", as |-> None, id |-> s1, set |-> One("hotels", "name", 2)]}
  \cup {[op |-> "createGuest", as |-> a, set |-> One("guests", "name", 1), kept |-> NULL, files |-> {}] :
          a \in {Full, None, New, Token(s2, NULL)}}
  \cup {[op |-> "createSeasonalRate", as |-> a, type |-> s1, from |-> 0, to |-> 60,
         factor |-> 20] : a \in {None, New}}

UploadCalls ==
  {[op |-> "createGuest", as |-> Full, set |-> Some("guests", [name |-> 1, flag |-> 2]), kept |-> k,
    files |-> {1, 2}] : k \in {{}, {<<s1, 1>>}}}
  \cup {[op |-> "updateGuest", as |-> a, id |-> s1, set |-> Some("guests", [name |-> 2, note |-> 0]),
         kept |-> {<<s1, 1>>}, files |-> {1}] : a \in {Full, New}}
  \cup {[op |-> "updateGuest", as |-> Full, id |-> s1, set |-> One("guests", "note", 2),
         kept |-> NULL, files |-> {}]}
  \cup {[op |-> "createType", as |-> Full, firm |-> f, branch |-> NULL,
         set |-> Some("types", [name |-> 1, daily |-> d]), kept |-> {}, files |-> {1}] :
          f \in {NULL, s2}, d \in {0, 2}}
  \cup {[op |-> "updateType", as |-> Full, id |-> i, set |-> One("types", "name", 2),
         kept |-> {}, files |-> {1, 2}] : i \in {s1, s2}}

RoomCalls ==
  {[op |-> "createRoom", as |-> Full, firm |-> s1, branch |-> NULL,
    set |-> Some("rooms", x)] :
     x \in {[name |-> 1, flag |-> 1], [note |-> 1]}}
  \cup {[op |-> "bulkCreateRooms", as |-> Full, firm |-> NULL, branch |-> s1,
         first |-> 1, last |-> n] : n \in {0, 2}}
  \cup {[op |-> "updateRoom", as |-> Full, id |-> i, set |-> Some("rooms", x)] :
          i \in {<<s1, 1>>, <<s1, 2>>},
          x \in {[note |-> 2, name |-> 2], [note |-> 0, flag |-> 0], [name |-> 1, flag |-> 2]}}
  \cup {[op |-> "updateType", as |-> Full, id |-> s1, set |-> Some("types", x), kept |-> NULL, files |-> {}] :
          x \in {[hourly |-> 444, name |-> 0], [daily |-> 900]}}

(* Stays of 61 minutes from day 1 at 01:00 and from day 2 at 02:00, of 25  *)
(* hours, of nothing, and reversed.                                        *)
PriceCalls ==
  {[op |-> "calculatePrice", as |-> a, type |-> s1, in |-> 60, out |-> o, hourly |-> h] :
     a \in {None}, o \in {121, 1560, 60, 15}, h \in BOOLEAN}
  \cup {[op |-> "calculatePrice", as |-> a, type |-> s1, in |-> 1560, out |-> 1621,
         hourly |-> TRUE] : a \in {Full, New}}
  \cup {[op |-> "createSeasonalRate", as |-> None, type |-> s1, from |-> 0, to |-> 121,
         factor |-> 5],
        [op |-> "createHourlyRule", as |-> None, type |-> s1, from |-> 60, to |-> 120,
         factor |-> 8, days |-> {}],
        [op |-> "updateType", as |-> Full, id |-> s1, set |-> Some("types", [hourly |-> 444, daily |-> 2000]),
         kept |-> NULL, files |-> {}]}

MCMix == {FirmCalls, UploadCalls, RoomCalls, PriceCalls}

Symmetry == Permutations(Request)
=============================================================================
