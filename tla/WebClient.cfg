SPECIFICATION FairSpec
CONSTANTS
    t1 = t1  t2 = t2  admin = admin  editor = editor  home = home   nobody = nobody
    Tabs = {t1, t2}
    Tokens = {admin, editor}
    None = nobody
    Pages = {home}
    Home = home
    MaxNavs = 2
    MaxOpens = 2
    MaxClicks = 2
    MaxForms = 2
INVARIANTS InfoBeforePage StoreFollowsOwnCookie DialogNeedsAnotherTab
PROPERTIES TabShowsPage
CHECK_DEADLOCK FALSE
