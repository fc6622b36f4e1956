----------------------------- MODULE TabFormat -----------------------------
(***************************************************************************)
(* The formats of tabulate (libs/tabulate/format.hpp): which members a     *)
(* format has, what its setters assign and how two formats are merged. All *)
(* members are optional: a format is a function from the names of the      *)
(* members to their values or to NoValue. Texts are sequences of           *)
(* characters, font styles sets: the code keeps them in a vector, which    *)
(* may name a style more than once.                                        *)
(***************************************************************************)
EXTENDS Integers, Sequences

CONSTANT NoValue   \* an empty std::optional

SizeMembers == {"width", "height"}
FontMembers == {"font_align", "font_style", "font_color", "font_background_color"}
PaddingMembers == {"padding_left", "padding_top", "padding_right", "padding_bottom"}
ShowMembers ==
    {"show_border_top", "show_border_bottom", "show_border_left", "show_border_right"}
BorderTexts == {"border_left", "border_right", "border_top", "border_bottom"}
BorderColors ==
    {"border_left_color", "border_right_color", "border_top_color", "border_bottom_color"}
BorderBackgrounds ==
    {"border_left_background_color", "border_right_background_color",
     "border_top_background_color", "border_bottom_background_color"}
CornerTexts ==
    {"corner_top_left", "corner_top_right", "corner_bottom_left", "corner_bottom_right"}
CornerColors ==
    {"corner_top_left_color", "corner_top_right_color",
     "corner_bottom_left_color", "corner_bottom_right_color"}
CornerBackgrounds ==
    {"corner_top_left_background_color", "corner_top_right_background_color",
     "corner_bottom_left_background_color", "corner_bottom_right_background_color"}
SeparatorMembers ==
    {"show_column_separator", "column_separator", "column_separator_color",
     "column_separator_background_color"}
ScreenMembers == {"multi_byte_characters", "locale", "trim_mode", "show_row_separator"}

\* The members set_defaults gives a value: all but the sizes.
Defaulted ==
    FontMembers \cup PaddingMembers \cup ShowMembers \cup BorderTexts \cup BorderColors
        \cup BorderBackgrounds \cup CornerTexts \cup CornerColors \cup CornerBackgrounds
        \cup SeparatorMembers \cup ScreenMembers

Members == SizeMembers \cup Defaulted

FontStyle ==
    {"bold", "dark", "italic", "underline", "blink", "reverse", "concealed", "crossed"}

FontAlign == {"left", "right", "center"}

Color == {"none", "grey", "red", "green", "yellow", "blue", "magenta", "cyan", "white"}

\* The members of these types: a Color, a text.
ColorMembers ==
    {"font_color", "font_background_color", "column_separator_color",
     "column_separator_background_color"}
        \cup BorderColors \cup BorderBackgrounds \cup CornerColors \cup CornerBackgrounds

TextMembers == BorderTexts \cup CornerTexts \cup {"column_separator"}

\* A format none of whose members has a value.
Format == [m \in Members |-> NoValue]

\* What set_defaults assigns to a member other than the font style.
Default(m) ==
    CASE m \in SizeMembers -> NoValue
      [] m = "font_align" -> "left"
      [] m \in {"padding_left", "padding_right"} -> 1
      [] m \in {"padding_top", "padding_bottom"} -> 0
      [] m \in {"border_top", "border_bottom"} -> <<"-">>
      [] m \in {"border_left", "border_right", "column_separator"} -> <<"|">>
      [] m \in CornerTexts -> <<"+">>
      [] m \in ShowMembers \cup {"show_column_separator"} -> TRUE
      [] m \in {"multi_byte_characters", "show_row_separator"} -> FALSE
      [] m = "locale" -> << >>
      [] m = "trim_mode" -> "kBoth"
      [] OTHER -> "none"

set_defaults == [m \in Members |-> IF m = "font_style" THEN {} ELSE Default(m)]

\* An empty optional is not a value.
ASSUME NoValueAssumption ==
    /\ NoValue # TRUE /\ NoValue # FALSE
    /\ \A styles \in SUBSET FontStyle : styles # NoValue
    /\ \A align \in FontAlign : align # NoValue
    /\ \A m \in Defaulted : set_defaults[m] # NoValue

----------------------------------------------------------------------------
\* std::set_union into a vector as long as both styles together: when they
\* share a style, what is left over at the end is FontStyle{0}, bold.
merge_styles(first, second) ==
    first \cup second \cup (IF first \cap second = {} THEN {} ELSE {"bold"})

\* Mutant: the other way round.
merge_SecondFirst(first, second) ==
    [m \in Members |-> IF second[m] # NoValue THEN second[m] ELSE first[m]]

\* Mutant: a member is forgotten.
merge_Forgets(first, second) ==
    [m \in Members |->
        IF m = "show_row_separator" THEN NoValue
        ELSE IF first[m] # NoValue THEN first[m] ELSE second[m]]

\* What every other member of the merged format is, the borders and corners and
\* their colours included.
value_or(v, w) == IF v # NoValue THEN v ELSE w

\* The members of first, and those of second that first does not have.
merge(first, second) ==
    [m \in Members |->
        IF m = "font_style" /\ first[m] # NoValue THEN merge_styles(first[m], second[m])
        ELSE value_or(first[m], second[m])]

----------------------------------------------------------------------------
\* The members each setter assigns its argument to.
SizeSetters ==
    [width |-> {"width"}, height |-> {"height"}, padding |-> PaddingMembers,
     padding_left |-> {"padding_left"}, padding_right |-> {"padding_right"},
     padding_top |-> {"padding_top"}, padding_bottom |-> {"padding_bottom"}]

BorderSetters ==
    [s \in BorderTexts \cup BorderColors \cup BorderBackgrounds |-> {s}]

BorderGroupSetters ==
    [border |-> BorderTexts, border_color |-> BorderColors,
     border_background_color |-> BorderBackgrounds]

CornerSetters ==
    [s \in CornerTexts \cup CornerColors \cup CornerBackgrounds |-> {s}]

CornerGroupSetters ==
    [corner |-> CornerTexts, corner_color |-> CornerColors,
     corner_background_color |-> CornerBackgrounds]

SeparatorSetters ==
    [s \in {"column_separator", "column_separator_color",
            "column_separator_background_color"} |-> {s}]

FontSetters ==
    [font_align |-> {"font_align"}, font_color |-> {"font_color"},
     font_background_color |-> {"font_background_color"},
     color |-> {"font_color"} \cup BorderColors \cup CornerColors,
     background_color |->
        {"font_background_color"} \cup BorderBackgrounds \cup CornerBackgrounds]

ScreenSetters == [s \in {"multi_byte_characters", "locale", "trim_mode"} |-> {s}]

\* The setters without an argument, and the value they assign.
ShowSetters ==
    [show_border |-> ShowMembers, show_border_top |-> {"show_border_top"},
     show_border_bottom |-> {"show_border_bottom"}, show_border_left |-> {"show_border_left"},
     show_border_right |-> {"show_border_right"},
     show_column_separator |-> {"show_column_separator"},
     show_row_separator |-> {"show_border_top", "show_row_separator"}]

HideSetters ==
    [hide_border |-> ShowMembers, hide_border_top |-> {"show_border_top"},
     hide_border_bottom |-> {"show_border_bottom"}, hide_border_left |-> {"show_border_left"},
     hide_border_right |-> {"show_border_right"}]

Over(f, g) == [s \in DOMAIN f \cup DOMAIN g |-> IF s \in DOMAIN f THEN f[s] ELSE g[s]]

Setters ==
    Over(SizeSetters, Over(BorderSetters, Over(BorderGroupSetters, Over(CornerSetters,
        Over(CornerGroupSetters, Over(SeparatorSetters, Over(FontSetters,
            Over(ScreenSetters, Over(ShowSetters, HideSetters)))))))))

\* The setters whose argument is a Color, or a text to be printed.
ColorSetters == {s \in DOMAIN Setters : Setters[s] \subseteq ColorMembers}

TextSetters == {s \in DOMAIN Setters : Setters[s] \subseteq TextMembers}

Assign(f, members, v) == [m \in Members |-> IF m \in members THEN v ELSE f[m]]

\* font_style adds to the styles there are.
font_style(f, styles) ==
    Assign(f, {"font_style"},
           IF f["font_style"] = NoValue THEN styles ELSE f["font_style"] \cup styles)

\* f after the call of setter s with the argument v.
Set(f, s, v) ==
    CASE s = "font_style" -> font_style(f, v)
      [] s \in DOMAIN ShowSetters -> Assign(f, ShowSetters[s], TRUE)
      [] s \in DOMAIN HideSetters -> Assign(f, HideSetters[s], FALSE)
      [] OTHER -> Assign(f, Setters[s], v)

\* The setters of ColumnFormat call the setter of the same name for every cell
\* of the column.
ColumnSizeSetters == DOMAIN SizeSetters

ColumnBorderSetters == DOMAIN BorderSetters \cup DOMAIN BorderGroupSetters

ColumnCornerSetters == DOMAIN CornerGroupSetters

ColumnSeparatorSetters == DOMAIN SeparatorSetters

ColumnFontSetters == DOMAIN FontSetters \cup {"font_style"}

ColumnScreenSetters == {"multi_byte_characters", "locale"}

\* Those are all it declares: the other setters of Format act on the
\* ColumnFormat itself, which is dropped.
ColumnSetters ==
    ColumnSizeSetters \cup ColumnBorderSetters \cup ColumnCornerSetters
        \cup ColumnSeparatorSetters \cup ColumnFontSetters \cup ColumnScreenSetters
=============================================================================
