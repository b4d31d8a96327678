---------------------------------- MODULE Chrome ----------------------------------
(***************************************************************************)
(* What frames every page of either front end: ThemeProvider, which follows *)
(* the system's theme until one is chosen, and SidebarProvider with its two  *)
(* open flags, one for each width of the window.  The files of the two front *)
(* ends are twins.                                                           *)
(***************************************************************************)
EXTENDS Integers

VARIABLES
    front,     \* which front end this is
    theme,     \* the state theme, and what localStorage keeps of it
    resolved,  \* resolvedTheme, as of the provider's last render
    class,     \* the class of the document's root: what the user sees
    os,        \* the system's theme
    sidebar    \* the window is narrow, open, openMobile, and the cookie

chromeVars == <<front, theme, resolved, class, os, sidebar>>

Fronts == {"admin", "portal"}
Looks == {"light", "dark"}
Themes == Looks \cup {"system"}

Resolve(t, system) == IF t = "system" THEN system ELSE t
Other(look) == IF look = "dark" THEN "light" ELSE "dark"

ChromeTypeOK ==
    /\ front \in Fronts
    /\ theme \in [state : Themes, stored : Themes \cup {"none"}]
    /\ resolved \in Looks /\ class \in Looks /\ os \in Looks
    /\ sidebar \in [narrow : BOOLEAN, open : BOOLEAN, openMobile : BOOLEAN,
                    cookie : {"none", "true", "false"}]

\* Loading the page: the stored theme counts, the sidebar's cookie does not.
Loads(stored, system, cookie, narrow) ==
    LET t == IF stored = "none" THEN "system" ELSE stored
    IN  [theme |-> [state |-> t, stored |-> stored], look |-> Resolve(t, system),
         sidebar |-> [narrow |-> narrow, open |-> TRUE, openMobile |-> FALSE, cookie |-> cookie]]

Visits == [front : Fronts, os : Looks, stored : Looks \cup {"none"}, narrow : BOOLEAN]

ChromeInit(visits) ==
    \E v \in visits :
        LET page == Loads(v.stored, v.os, "none", v.narrow)
        IN  /\ front = v.front /\ os = v.os
            /\ theme = page.theme /\ resolved = page.look /\ class = page.look
            /\ sidebar = page.sidebar

Reload ==
    LET page == Loads(theme.stored, os, sidebar.cookie, sidebar.narrow)
    IN  /\ theme' = page.theme /\ resolved' = page.look /\ class' = page.look
        /\ sidebar' = page.sidebar
        /\ UNCHANGED <<front, os>>

--------------------------------------------------------------------------------
(* ThemeProvider *)

\* setTheme renders the provider; its effect sets the class, but only when the
\* resolved theme is another than at the last render.
SetTheme(t) ==
    LET look == Resolve(t, os)
    IN  /\ theme' = [state |-> t, stored |-> t]
        /\ resolved' = look
        /\ class' = IF look # resolved THEN look ELSE class
        /\ UNCHANGED <<front, os, sidebar>>

\* The system's theme changes.  The listener sets the class; nothing renders,
\* so resolvedTheme stays what it was.
SystemChanges ==
    /\ os' = Other(os)
    /\ class' = IF theme.state = "system" THEN os' ELSE class
    /\ UNCHANGED <<front, theme, resolved, sidebar>>

ThemeProvider(f) == front = f /\ (SystemChanges \/ Reload)
AdminThemeProvider == ThemeProvider("admin")
PortalThemeProvider == ThemeProvider("portal")

\* toggleTheme of Layout goes by resolvedTheme.
AdminToggleTheme == front = "admin" /\ SetTheme(Other(resolved))
PortalToggleTheme == front = "portal" /\ SetTheme(Other(resolved))

--------------------------------------------------------------------------------
(* SidebarProvider, and what calls its toggleSidebar *)

Visible == IF sidebar.narrow THEN sidebar.openMobile ELSE sidebar.open

\* Mutant: the shortcut keeps toggling the sidebar of the width it was set up
\* for.
ToggleOfWide ==
    /\ sidebar' = [sidebar EXCEPT !.open = ~@, !.cookie = IF sidebar.open THEN "false" ELSE "true"]
    /\ UNCHANGED <<front, theme, resolved, class, os>>

ToggleSidebar ==
    /\ sidebar' = IF sidebar.narrow THEN [sidebar EXCEPT !.openMobile = ~@]
                  ELSE [sidebar EXCEPT !.open = ~@, !.cookie = IF sidebar.open THEN "false" ELSE "true"]
    /\ UNCHANGED <<front, theme, resolved, class, os>>

\* The sidebar of a narrow window is a Sheet; it asks to be closed.
CloseSheet ==
    /\ sidebar.narrow /\ sidebar.openMobile
    /\ sidebar' = [sidebar EXCEPT !.openMobile = FALSE]
    /\ UNCHANGED <<front, theme, resolved, class, os>>

\* useIsMobile: neither flag changes with the width.
Resize ==
    /\ sidebar' = [sidebar EXCEPT !.narrow = ~@]
    /\ UNCHANGED <<front, theme, resolved, class, os>>

\* Ctrl+B is handled by the provider, the trigger and the rail are buttons.
AdminSidebarProvider == front = "admin" /\ ToggleSidebar
PortalSidebarProvider == front = "portal" /\ ToggleSidebar
AdminSidebar == front = "admin" /\ CloseSheet
PortalSidebar == front = "portal" /\ CloseSheet
AdminUseIsMobile == front = "admin" /\ Resize
PortalUseIsMobile == front = "portal" /\ Resize

ChromeNext ==
    \/ AdminThemeProvider \/ PortalThemeProvider
    \/ AdminToggleTheme \/ PortalToggleTheme
    \/ AdminSidebarProvider \/ PortalSidebarProvider
    \/ AdminSidebar \/ PortalSidebar
    \/ AdminUseIsMobile \/ PortalUseIsMobile

--------------------------------------------------------------------------------
(* Properties *)

\* What the user sees is the theme that is chosen, or the system's: the effect
\* that skips renders with the same resolvedTheme and the listener that does
\* not render never leave the wrong class behind.
ClassMatchesTheme == class = Resolve(theme.state, os)

\* Toggling the sidebar shows or hides it, whatever the window's width was
\* before and whichever flag was left open by then.
ToggleTakesEffect == [][ToggleSidebar => Visible' # Visible]_chromeVars
\* Both switches of the frame do what they show.
FrameSound == []ClassMatchesTheme /\ ToggleTakesEffect
================================================================================
