----------------------------- MODULE MCBookings -----------------------------
(* Small instances of Bookings for TLC. *)
EXTENDS Bookings, TLC

\* Administrators, calls and keys are interchangeable.
BookingSymmetry == Permutations(Admin) \cup Permutations(Call) \cup Permutations(Key)

\* An hourly service of the price book, and a visit that is paid as well.
HourlyService ==
    [model |-> "hourly", active |-> TRUE, included |-> 60, increment |-> 15,
     shortest |-> 30, longest |-> 180, minimumOrder |-> 19900,
     customer |-> [base |-> 9900, rate |-> 9900, visit |-> 0],
     worker |-> [base |-> 7000, rate |-> 7000, visit |-> 0], options |-> <<>>]

\* A dearer price for shorter jobs, and a switch to a fixed price.
Inputs ==
    {[model |-> "hourly", active |-> TRUE, included |-> 30, increment |-> 15,
      shortest |-> 30, longest |-> 45,
      customer |-> [base |-> 14900, rate |-> 24900, visit |-> 5000], options |-> <<>>],
     [model |-> "fixed", active |-> TRUE, included |-> 0, increment |-> 1,
      shortest |-> 60, longest |-> 60,
      customer |-> [base |-> 29900, rate |-> 0, visit |-> 0], options |-> <<>>]}

\* Chores of about two hours.
Chores == {[dishes |-> 55, floors |-> 45]}

Worked(verified, approved, additional) ==
    [verified |-> verified, approved |-> approved, additional |-> additional]

\* Nothing timed, time not approved, approved time only partly worked.
JobWork == {Worked(0, 0, 0), Worked(100, 0, 50), Worked(70, 30, 0)}
=============================================================================
