-------------------------- MODULE MCAuthorityFile --------------------------
EXTENDS AuthorityFile

\* Names 1 and 3 are spelled alike, under two types.
MCSpelling == <<"a", "b", "a", "c">>
Once(S) == [n \in 1..LastName |-> IF n \in S THEN 1 ELSE 0]
Often(S, n) == [Once(S) EXCEPT ![n] = 2]
MCReadings == {Once({1}), Once({2, 3})}
MCFirstReadingTwice == <<Often({1, 2, 3}, 2), Once({})>>
MCFirstReadingLate == <<Once({2}), Once({1, 2, 3})>>
MCFirstReading == <<Once({1, 2}), Once({2})>>
=============================================================================
