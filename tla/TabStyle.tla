----------------------------- MODULE TabStyle ------------------------------
(***************************************************************************)
(* The manipulators of termcolor (libs/tabulate/termcolor.hpp, the branches*)
(* for Linux) and the functions of tabulate's Printer that use them: what  *)
(* goes to a stream for a style. An escape sequence is one token.          *)
(***************************************************************************)
EXTENDS Integers, Sequences, SequencesExt

\* A stream: whether it is one of the standard streams, whether that one is a
\* terminal, and its word at colorize_index.
Cout(tty)    == [std |-> TRUE, tty |-> tty, word |-> FALSE]
StringStream == [std |-> FALSE, tty |-> FALSE, word |-> FALSE]

is_atty(stream) == stream.std /\ stream.tty

is_colorized(stream) == is_atty(stream) \/ stream.word

FontCodes ==
    [bold |-> "ESC[1m", dark |-> "ESC[2m", italic |-> "ESC[3m", underline |-> "ESC[4m",
     blink |-> "ESC[5m", reverse |-> "ESC[7m", concealed |-> "ESC[8m", crossed |-> "ESC[9m"]

ForegroundCodes ==
    [grey |-> "ESC[30m", red |-> "ESC[31m", green |-> "ESC[32m", yellow |-> "ESC[33m",
     blue |-> "ESC[34m", magenta |-> "ESC[35m", cyan |-> "ESC[36m", white |-> "ESC[37m"]

BackgroundCodes ==
    [grey |-> "ESC[40m", red |-> "ESC[41m", green |-> "ESC[42m", yellow |-> "ESC[43m",
     blue |-> "ESC[44m", magenta |-> "ESC[45m", cyan |-> "ESC[46m", white |-> "ESC[47m"]

ResetCode == "ESC[00m"

Codes == Range(FontCodes) \cup Range(ForegroundCodes) \cup Range(BackgroundCodes) \cup {ResetCode}

Emit(stream, codes) == IF is_colorized(stream) THEN codes ELSE << >>

reset(stream) == Emit(stream, <<ResetCode>>)

apply_foreground_color(stream, color) ==
    IF color = "none" THEN << >> ELSE Emit(stream, <<ForegroundCodes[color]>>)

apply_background_color(stream, color) ==
    IF color = "none" THEN << >> ELSE Emit(stream, <<BackgroundCodes[color]>>)

apply_font_style(stream, style) == Emit(stream, <<FontCodes[style]>>)

FontOrder ==
    <<"bold", "dark", "italic", "underline", "blink", "reverse", "concealed", "crossed">>

apply_element_style(stream, foreground, background, styles) ==
    apply_foreground_color(stream, foreground) \o apply_background_color(stream, background)
        \o FlattenSeq([n \in 1..8 |->
               IF FontOrder[n] \in styles THEN apply_font_style(stream, FontOrder[n]) ELSE << >>])

\* A text in a colour of its own: style, text, reset.
Styled(stream, foreground, background, text) ==
    apply_element_style(stream, foreground, background, {}) \o text \o reset(stream)
=============================================================================
