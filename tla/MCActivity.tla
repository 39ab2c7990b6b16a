--------------------------- MODULE MCActivity ---------------------------
\* Small instances of Activity, and with it of QueryStore, for TLC: four old rows over
\* two hours of two ticks, some of them older than a day of two hours.
EXTENDS Activity

CONSTANTS m1, i1, i2

Row(id, mac, ip, ts, domain, cat) ==
    [id |-> id, mac |-> mac, ip |-> ip, ts |-> ts, domain |-> domain, cat |-> cat]

\* The device has used two addresses; one of them is a source of its own, too.
MCOld == {Row(1, m1, i1, 0, 1, "tracking"), Row(2, m1, i2, 1, 2, ""),
          Row(3, NoMac, i1, 2, 1, "tracking"), Row(4, m1, i2, 3, 1, "uncategorized")}

\* Logged meanwhile: a third domain of the device, and a new source.
MCNew == {[mac |-> m1, ip |-> i2, ts |-> 5, domain |-> 3, cat |-> "tracking"],
          [mac |-> NoMac, ip |-> i2, ts |-> 4, domain |-> 1, cat |-> ""]}

MCAsked == {<<Device(m1), 1>>, <<Device(m1), 2>>, <<Source(i1), 1>>, <<Network, 1>>}
=============================================================================
