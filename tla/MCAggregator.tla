---------------------------- MODULE MCAggregator ----------------------------
EXTENDS Aggregator

(* A plain key, and a key whose last characters are "req".                *)
MCKeys == {<<"AK">>, <<"AK", "req">>}
MCPlainKeys == {<<"AK">>}
MCClasses == {<<>>, <<"C">>}
MCNums == {"1"}

(* An access-log JSON line, a Lua log line and a datagram of newlines.    *)
MCOtherDatagrams == {<<"{", "json">>, <<"lua">>, <<"nl", "nl">>}
====
