----------------------------- MODULE MCBootMenu -----------------------------
EXTENDS BootMenu

Entry(name, isRom, banks, mbc, ram) ==
  [name |-> name, isRom |-> isRom, banks |-> banks, mbc |-> mbc, ram |-> ram]
Red == Entry("RED.GB", TRUE, 3, 19, 3)            \* MBC3 with RAM
Crystal == Entry("CRYSTAL.GBC", TRUE, 2, 16, 3)   \* MBC3 with RAM and clock
Save == Entry("RED.SAV", FALSE, 1, 0, 0)
Tetris == Entry("TETRIS.GB", TRUE, 2, 0, 0)       \* no controller, no RAM
Mbc2 == Entry("GOLF.GB", TRUE, 2, 6, 0)           \* a controller nobody wrote
Camera == Entry("CAMERA.GB", TRUE, 2, 252, 4)     \* an unknown header
Zelda == Entry("ZELDA.GB", TRUE, 1, 3, 2)

Card(volume, entries) == [volume |-> volume, entries |-> entries]
\* No volume; no games; one page; two pages and a half.
NoVolume == Card(FALSE, <<Red>>)
NoGames == Card(TRUE, <<Save>>)
OnePage == Card(TRUE, <<Save, Tetris, Mbc2>>)
Pages == Card(TRUE, <<Red, Save, Crystal, Tetris, Camera, Zelda>>)

At(y, m, d) == [year |-> y, month |-> m, date |-> d, hour |-> 23, minute |-> 59]
MCBuiltTime == At(2023, 2, 28)
Chip(st, vbat, pwrfail, t) ==
  [st |-> st, vbat |-> vbat, pwrfail |-> pwrfail, day |-> WeekDay(t),
   minute |-> bin2bcd(t.minute), hour |-> bin2bcd(t.hour), date |-> bin2bcd(t.date),
   month |-> bin2bcd(t.month), year |-> bin2bcd(t.year - 2000)]
New == [st |-> FALSE, vbat |-> FALSE, pwrfail |-> FALSE, day |-> 1,
        minute |-> 0, hour |-> 0, date |-> 1, month |-> 1, year |-> 1]
\* A chip never used, one without a date, and times next to the ends of
\* months, of leap years and of the century; with many games the time is
\* changed less.
Start(c, regs, unused) == [card |-> c, chip |-> regs, unused |-> unused]
MCStarts ==
  {Start(NoVolume, Chip(TRUE, TRUE, TRUE, At(2025, 1, 31)), 0),
   Start(NoVolume, Chip(TRUE, TRUE, FALSE, At(2099, 12, 31)), 0),
   Start(NoGames, Chip(TRUE, TRUE, TRUE, At(2024, 2, 29)), 0),
   Start(OnePage, [New EXCEPT !.month = 0], 1),
   Start(Pages, New, 2)}
=============================================================================
