------------------------------- MODULE Keymap -------------------------------
(***************************************************************************)
(* translate_scancode of src/kernel_main.c: from PS/2 set 1 base scancodes *)
(* to DOOM keys.  The switch is written as runs of consecutive scancodes.  *)
(***************************************************************************)
EXTENDS Naturals, Sequences

BaseCodes == 0..127   \* raw_code & 0x7F

UNKNOWN == "UNKNOWN"

\* [first scancode of the run, keys of the run]
KeyRuns == {
    [first |-> 1, keys |-> <<    \* 0x01..0x28
        "ESCAPE", "1", "2", "3", "4", "5", "6", "7", "8", "9", "0", "MINUS", "EQUALS",
        "BACKSPACE", "TAB", "Q", "W", "E", "R", "T", "Y", "U", "I", "O", "P",
        "LEFT_BRACKET", "RIGHT_BRACKET", "ENTER", "CTRL", "A", "S", "D", "F", "G", "H",
        "J", "K", "L", "SEMICOLON", "APOSTROPHE">>],
    [first |-> 42, keys |-> <<"SHIFT">>],    \* 0x2A, the left one
    [first |-> 44, keys |-> <<   \* 0x2C..0x36, ends in the right shift
        "Z", "X", "C", "V", "B", "N", "M", "COMMA", "PERIOD", "SLASH", "SHIFT">>],
    [first |-> 56, keys |-> <<"ALT", "SPACE">>],
    [first |-> 59, keys |-> <<   \* 0x3B..0x44
        "F1", "F2", "F3", "F4", "F5", "F6", "F7", "F8", "F9", "F10">>],
    [first |-> 72, keys |-> <<"UP_ARROW">>],
    [first |-> 75, keys |-> <<"LEFT_ARROW">>],
    [first |-> 77, keys |-> <<"RIGHT_ARROW">>],
    [first |-> 80, keys |-> <<"DOWN_ARROW">>],
    [first |-> 87, keys |-> <<"F11", "F12">>] }

Covers(run, c) == c \in run.first..run.first + Len(run.keys) - 1

translate_scancode(c) ==
    IF \E run \in KeyRuns : Covers(run, c)
    THEN LET run == CHOOSE r \in KeyRuns : Covers(r, c)
         IN  run.keys[c - run.first + 1]
    ELSE UNKNOWN

ScancodesOf(key) == {c \in BaseCodes : translate_scancode(c) = key}
=============================================================================
