----------------------------- MODULE MCIniFile -----------------------------
EXTENDS IniFile, TLC

CONSTANTS s1, s2, k1, k2

MCSectionNames == {s1, s2}
MCKeys == {k1, k2}

====
