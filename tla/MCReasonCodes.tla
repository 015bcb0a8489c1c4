---------------------------- MODULE MCReasonCodes ----------------------------
(* Instances of ReasonCodes for TLC.                                       *)
EXTENDS ReasonCodes

ThreeShaps == {-1, 1, 3}

\* Features of five codes: one that two codes share with one more of each, one whose
\* code is in another group; and a cold-start feature.
MixedDrivers == {"linked_accounts_1hop", "device_returns_30d", "return_rate_30d",
                 "return_rate_all_time", "user_category_return_rate_diff", "order_amount",
                 "used_category_fallback"}

\* Nothing recorded, a new customer of the shop, a regular who returns less than others
\* do, and a linked customer.
FourVectors ==
    LET row(linked, returned, rate, diff, amount, fallback, age) ==
          [f \in MixedDrivers \cup {"account_age_hours"} |->
             CASE f = "linked_accounts_1hop" -> linked
               [] f = "device_returns_30d" -> returned
               [] f \in {"return_rate_30d", "return_rate_all_time"} -> rate
               [] f = "user_category_return_rate_diff" -> diff
               [] f = "order_amount" -> amount
               [] f = "used_category_fallback" -> fallback
               [] f = "account_age_hours" -> age]
    IN {row(0, 0, 0, 0, 900, 1, 2), row(1, 1, 50, -10, 900, 0, 720),
        row(3, 2, 100, 60, 0, 1, 30)}
       \cup {<<>>}
=============================================================================
